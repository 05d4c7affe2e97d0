------------------------------ MODULE LogViewer ------------------------------
(***************************************************************************)
(* The window that follows a container's log: its script                   *)
(* (ssh-gui/backend/weblog/assets/logviewer.js) on the stream of           *)
(* handleLogStream (ssh-gui/httpserver.go).  The browser's EventSource,    *)
(* which connects again whenever a stream breaks off, is modelled from how *)
(* the script uses it.  Lines are numbered in the order they are logged.   *)
(* Where the window stands is left out: logviewer.css makes the body as    *)
(* high as the window, so the scroll listener (27-38) always finds it at   *)
(* the end, and every line scrolls it there.                               *)
(***************************************************************************)
EXTENDS Naturals, Sequences

CONSTANTS MaxLog,    \* bound on the lines the container logs
          MaxShown,  \* bound on the lines on screen
          TailLines  \* --tail, 500 in the code

ASSUME LogAssumption ==
  MaxLog \in Nat /\ MaxShown \in Nat /\ TailLines \in Nat \ {0}

VARIABLES logged,   \* how many lines the container has logged
          stream,   \* the EventSource and the handler it talks to, a Stream
          screen,   \* the children of #logs, from above
          badge     \* what #badge says

logVars == <<logged, stream, screen, badge>>

(* next is the line that is delivered next.  A handler is done once its     *)
(* scan has ended and it has sent "__END__".                                *)
Stream == [source: {"connecting", "open", "closed"}, next: 1..(MaxLog + 1),
           done: BOOLEAN]

LogInit ==
  /\ logged = 0
  /\ stream = [source |-> "connecting", next |-> 1, done |-> FALSE]
  /\ screen = <<>>
  /\ badge = "live"

-----------------------------------------------------------------------------
(* The container and the stream *)

LogLine ==
  /\ logged < MaxLog
  /\ logged' = logged + 1
  /\ UNCHANGED <<stream, screen, badge>>

(* Mutant of StreamOpens: no tail, only what is logged from now on.         *)
StreamOpens_NewLinesOnly ==
  /\ stream.source = "connecting"
  /\ stream' = [source |-> "open", done |-> FALSE, next |-> logged + 1]
  /\ UNCHANGED <<logged, screen, badge>>

(* Mutant of StreamOpens: the tail is counted back past the first line.     *)
StreamOpens_Uncut ==
  /\ stream.source = "connecting"
  /\ stream' = [source |-> "open", done |-> FALSE, next |-> logged - TailLines + 1]
  /\ UNCHANGED <<logged, screen, badge>>

(* handleLogStream: a new docker logs, which starts with the tail.          *)
StreamOpens ==
  /\ stream.source = "connecting"
  /\ stream' = [source |-> "open", done |-> FALSE,
                next |-> IF logged <= TailLines THEN 1 ELSE logged - TailLines + 1]
  /\ UNCHANGED <<logged, screen, badge>>

(* The scan ends with the container, with the SSH connection, or at a line  *)
(* longer than the scanner takes: not all that was logged need be sent.     *)
StreamEnds ==
  /\ stream.source = "open" /\ ~stream.done
  /\ stream' = [stream EXCEPT !.done = TRUE]
  /\ UNCHANGED <<logged, screen, badge>>

(* onerror.  After a handler has returned or a connection broke, the        *)
(* EventSource connects again; a refused request (no such session) closes   *)
(* it for good.                                                             *)
OnError ==
  /\ stream.source # "closed"
  /\ stream' \in {[stream EXCEPT !.source = "connecting"],
                  [stream EXCEPT !.source = "closed"]}
  /\ badge' = "stopped"
  /\ UNCHANGED <<logged, screen>>

-----------------------------------------------------------------------------
(* The script *)

(* onmessage with a line, which goes below what is there.                   *)
OnLine ==
  /\ stream.source = "open" /\ ~stream.done
  /\ stream.next <= logged
  /\ Len(screen) < MaxShown
  /\ stream' = [stream EXCEPT !.next = @ + 1]
  /\ screen' = Append(screen, stream.next)
  /\ UNCHANGED <<logged, badge>>

(* onmessage with "__END__".                                                *)
OnEnd ==
  /\ stream.source = "open" /\ stream.done
  /\ stream' = [stream EXCEPT !.source = "closed"]
  /\ badge' = "stopped"
  /\ UNCHANGED <<logged, screen>>

(* clearLogs, and the button that does the same.                            *)
ClearLogs ==
  /\ screen # <<>>
  /\ screen' = <<>>
  /\ UNCHANGED <<logged, stream, badge>>

LogNext ==
  \/ LogLine
  \/ StreamOpens
  \/ StreamEnds
  \/ OnError
  \/ OnLine
  \/ OnEnd
  \/ ClearLogs

LogSpec == LogInit /\ [][LogNext]_logVars

-----------------------------------------------------------------------------

LogTypeOK ==
  /\ logged \in 0..MaxLog
  /\ stream \in Stream
  /\ screen \in Seq(1..MaxLog)
  /\ badge \in {"live", "stopped"}

(* What stands below a line on the screen: in a window that says LIVE the   *)
(* next line of the log, none left out and none twice; after a stream that  *)
(* broke off lines may come again, and some are left out only if the tail   *)
(* of the new stream was full of newer ones.                                *)
WindowsSkipOldLinesOnly ==
  \A i \in 1..(Len(screen) - 1) :
    LET below == screen[i + 1]
    IN  /\ badge = "live" => below = screen[i] + 1
        /\ below > screen[i] + 1 => logged >= below + TailLines - 1
=============================================================================
