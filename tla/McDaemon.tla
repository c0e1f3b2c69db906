------------------------------ MODULE McDaemon ------------------------------
(***************************************************************************)
(* The netshell daemon around one connection: main() of                    *)
(* src/netshell/netshell.cc, the McShell constructor, and the loop of      *)
(* EventMgr::run (src/netshell/eventmgr.hpp) that drives the listening     *)
(* McConn and the connection of McConn.tla.                                *)
(*                                                                         *)
(* main is main()'s program counter.  Inside run() it is "check" at the    *)
(* loop's test of stop_ and "poll" from there through epoll_wait and the   *)
(* driverMachine calls of that iteration.  A driverMachine call is the     *)
(* connection's handlers up to the one that returns DmStop.  SIGTERM and   *)
(* SIGINT run sigHandler at any point of main.                             *)
(***************************************************************************)
EXTENDS McConn

CONSTANTS
    StartCanFail,   \* shmc_init and the McShell constructor may fail
    MaxSignals      \* bound on the SIGTERM/SIGINT sent to the daemon

ASSUME DaemonAssumption ==
    StartCanFail \in BOOLEAN /\ MaxSignals \in Nat

VARIABLES
    main,           \* main()'s program counter
    stop,           \* EventMgr::stop_
    signals         \* SIGTERM/SIGINT sent so far

dvars == <<vars, main, stop, signals>>

Exited == {"exit0", "exit1", "killed"}

\* mcShell != 0: the assignment of line 138 has happened.
ShellSet == main \in {"assigned", "check", "poll", "destroy"}

\* The listening socket exists (the constructor got past listen()) and
\* the process is alive, so the client can connect and send.
Listening == ShellSet

\* epoll_wait has something to report: the listener while the connection
\* waits in the backlog, or the connection's registered event.
EventReady == state = "Pending" \/ (state # "Closed" /\ Ready)

DInit ==
    /\ Init
    /\ main = "init" /\ stop = FALSE /\ signals = 0

-----------------------------------------------------------------------------
(* main() up to run() and after it.                                       *)

\* shmc_init; on failure main exits with EXIT_FAILURE.
ShmcInit ==
    /\ main = "init"
    /\ \/ main' = "signals"
       \/ StartCanFail /\ main' = "exit1"
    /\ UNCHANGED <<vars, stop, signals>>

\* signal(SIGTERM, sigHandler); signal(SIGINT, sigHandler); SIGPIPE ignored.
InstallHandlers ==
    /\ main = "signals" /\ main' = "construct"
    /\ UNCHANGED <<vars, stop, signals>>

\* new McShell: socket, options, bind, listen, the EventMgr and addEvent of
\* the listening McConn.  Any failure throws; main catches it with mcShell
\* still 0.  On success mcShell is assigned.
Construct ==
    /\ main = "construct"
    /\ \/ main' = "assigned"
       \/ StartCanFail /\ main' = "caught"
    /\ UNCHANGED <<vars, stop, signals>>

\* run(): stop_ = false, then the loop.
RunEntry ==
    /\ main = "assigned"
    /\ main' = "check" /\ stop' = FALSE
    /\ UNCHANGED <<vars, signals>>

\* while (!stop_)
LoopCheck ==
    /\ main = "check"
    /\ main' = IF stop THEN "destroy" ELSE "poll"
    /\ UNCHANGED <<vars, stop, signals>>

\* Fault variant: epoll_wait(efd_, events, nevents_, -1), which returns only
\* on an event or a signal.
TimeoutNever == FALSE

\* epoll_wait returns 0 after its 500 ms when nothing is ready; the timer
\* handler is null for McShell's EventMgr.
Timeout ==
    /\ main = "poll" /\ ~EventReady
    /\ main' = "check"
    /\ UNCHANGED <<vars, stop, signals>>

\* driverMachine: one handler of the listening McConn or of the
\* connection; the iteration ends when it returns DmStop.  (Only one of
\* the two is ever ready, so an iteration dispatches one driverMachine.)
DriverMachine ==
    /\ main = "poll"
    /\ Server
    /\ main' = IF dm' = "stop" THEN "check" ELSE "poll"
    /\ UNCHANGED <<stop, signals>>

\* shmc_destroy(shmc); unlink(pidfile); return 0 -- after the loop and
\* after a caught exception alike.
ShmcDestroy ==
    /\ main \in {"caught", "destroy"}
    /\ main' = "exit0"
    /\ UNCHANGED <<vars, stop, signals>>

\* SIGTERM or SIGINT.  Before signal() the default action kills the
\* process.  sigHandler calls mcShell->stop() only when mcShell is set.
\* Blocked in epoll_wait, the loop gets EINTR and goes back to its test;
\* a signal taken between the test and epoll_wait interrupts nothing.
Signal ==
    /\ main \notin Exited /\ signals < MaxSignals
    /\ signals' = signals + 1
    /\ \/ main \in {"init", "signals"} /\ main' = "killed" /\ UNCHANGED stop
       \/ main \in {"construct", "caught"} /\ UNCHANGED <<main, stop>>
       \/ ShellSet /\ stop' = TRUE
          /\ main' \in IF main = "poll" /\ dm = "stop" THEN {"poll", "check"} ELSE {main}
    /\ UNCHANGED vars

\* The process is gone.
Terminated ==
    main \in Exited /\ UNCHANGED dvars

Daemon == ShmcInit \/ InstallHandlers \/ Construct \/ RunEntry \/ LoopCheck
          \/ Timeout \/ ShmcDestroy

DNext ==
    \/ Daemon \/ DriverMachine \/ Signal \/ Terminated
    \/ Listening /\ Client /\ UNCHANGED <<main, stop, signals>>

DSpec == DInit /\ [][DNext]_dvars

\* The daemon is one process that the kernel keeps scheduling, and
\* epoll_wait returns within 500 ms whether or not an event came, so no
\* step of main and no ready driverMachine is postponed for ever.  The
\* network delivers what the client wrote while the socket is open.
DFairSpec ==
    /\ DSpec
    /\ WF_dvars(Daemon) /\ WF_dvars(DriverMachine)
    /\ WF_dvars(Listening /\ Deliver /\ UNCHANGED <<main, stop, signals>>)

-----------------------------------------------------------------------------

DaemonTypeOK ==
    /\ TypeOK
    /\ main \in {"init", "signals", "construct", "caught", "assigned", "check",
                 "poll", "destroy"} \cup Exited
    /\ stop \in BOOLEAN /\ signals \in 0 .. MaxSignals

\* A stop that sigHandler sets once run() has cleared stop_ ends the
\* daemon: the handler running at that moment returns DmStop within the
\* iteration, and the loop's test sees stop_ -- at once if epoll_wait was
\* interrupted, after its 500 ms timeout if the signal came between the
\* test and epoll_wait.  spec.md 4.8: the loop exits at the next
\* iteration after stop_ is set.
StopHonoured ==
    (stop /\ main \in {"check", "poll"}) ~> main = "exit0"

\* PeerGoneCloses of McConn while the daemon runs: a connection whose client
\* reset it or shut its side down is deleted, unless the process exits
\* first or onWrite waits on the full send buffer of a client that reads
\* nothing.
ConnPeerGoneCloses ==
    (rst \/ eof) ~> (state = "Closed" \/ (~rst /\ state = "Write" /\ outq = SndBuf)
                     \/ main \in Exited)

=============================================================================
