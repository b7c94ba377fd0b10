------------------------------ MODULE LogRecorder ------------------------------
(***************************************************************************)
(* python/rotate_jsonl_logs.py: the log files of all sessions, in the      *)
(* order in which rotation looks at them (newest modification first), and  *)
(* the file the present session writes to.  Of a file only its size is     *)
(* kept, and whether it is that one.  No time is kept: a line that is      *)
(* written makes its file the newest, unless the clock was set back or did *)
(* not advance, when the file may take any place.                          *)
(***************************************************************************)
EXTENDS Naturals, Sequences, SequencesExt

CONSTANTS MaxFiles, MaxTotalBytes, MaxFileBytes

ASSUME LogLimitsAssumption ==
  {MaxFiles, MaxTotalBytes, MaxFileBytes} \subseteq Nat \ {0}

LogFile == [size: Nat, active: BOOLEAN]

(***************************************************************************)
(* The bytes of the first n files, and of all.                             *)
(***************************************************************************)
Totals(logs) ==
  LET total[n \in 0..Len(logs)] ==
        IF n = 0 THEN 0 ELSE total[n - 1] + logs[n].size
  IN total

Total(logs) == Totals(logs)[Len(logs)]

(***************************************************************************)
(* rotate_jsonl_logs.  Mutants: the newest is not exempt; bytes do not     *)
(* count.                                                                  *)
(***************************************************************************)
KeepStrictly(kept, log) ==
  IF Len(kept) < MaxFiles /\ Total(kept) + log.size <= MaxTotalBytes
  THEN Append(kept, log) ELSE kept

KeepByCount(kept, log) ==
  IF kept = <<>> \/ Len(kept) < MaxFiles THEN Append(kept, log) ELSE kept

Keep(kept, log) ==
  IF \/ kept = <<>>
     \/ Len(kept) < MaxFiles /\ Total(kept) + log.size <= MaxTotalBytes
  THEN Append(kept, log) ELSE kept

Rotations(logs) ==      \* what is kept of the first n
  LET kept[n \in 0..Len(logs)] ==
        IF n = 0 THEN <<>> ELSE Keep(kept[n - 1], logs[n])
  IN kept

Rotated(logs) == Rotations(logs)[Len(logs)]

(***************************************************************************)
(* One line: a new file if there is none or the line does not fit, unless  *)
(* it is the first in its file.  A file that was removed while it is open  *)
(* takes the line and does not come back.                                  *)
(***************************************************************************)
RollsOver(recorder, size) ==
  \/ ~recorder.open
  \/ recorder.active_size > 0 /\ recorder.active_size + size > MaxFileBytes

Closed(logs) == [i \in DOMAIN logs |-> [logs[i] EXCEPT !.active = FALSE]]

ActiveLogs(logs) == {i \in DOMAIN logs : logs[i].active}

ActiveSize(recorder, size) ==
  IF RollsOver(recorder, size) THEN size ELSE recorder.active_size + size

Others(logs, recorder, size) ==
  IF RollsOver(recorder, size) THEN Closed(logs)
  ELSE IF ActiveLogs(logs) = {} THEN logs
  ELSE RemoveAt(logs, CHOOSE i \in ActiveLogs(logs) : TRUE)

Written(logs, recorder, size, place) ==
  IF ~RollsOver(recorder, size) /\ ActiveLogs(logs) = {} THEN logs
  ELSE InsertAt(Others(logs, recorder, size), place,
                [size |-> ActiveSize(recorder, size), active |-> TRUE])
=============================================================================
