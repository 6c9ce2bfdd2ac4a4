--------------------------- MODULE DebugRecorder ----------------------------
(* The debug capture (debug.go): a middleware decides at the start of a       *)
(* request whether to record it and appends to a bounded ring at its end.     *)
EXTENDS Naturals, SequencesExt

CONSTANTS Captured,     \* requests
          MaxRecords    \* DebugConfig.MaxEntries

ASSUME DebugAssumption == MaxRecords \in Nat

VARIABLES
    entries,    \* DebugRecorder.entries, by their seq
    seq, enabled,
    serving,    \* request -> "new", "watched", "unwatched", "done"
    sinceClear, \* history: the entries recorded since the last clear
    onAtStart   \* history: requests that began while the capture was on

debugVars == <<entries, seq, enabled, serving, sinceClear, onAtStart>>

DebugInit ==
    /\ entries = <<>> /\ seq = 0 /\ enabled = FALSE
    /\ serving = [r \in Captured |-> "new"] /\ sinceClear = <<>> /\ onAtStart = {}

SetCapture ==
    /\ enabled' = ~enabled
    /\ UNCHANGED <<entries, seq, serving, sinceClear, onAtStart>>

BeginCapture(r) ==
    /\ serving[r] = "new"
    /\ serving' = [serving EXCEPT ![r] = IF enabled THEN "watched" ELSE "unwatched"]
    /\ onAtStart' = IF enabled THEN onAtStart \cup {r} ELSE onAtStart
    /\ UNCHANGED <<entries, seq, enabled, sinceClear>>

(* The ring drops its oldest entries.                                         *)
Trimmed(s) == IF Len(s) > MaxRecords THEN SubSeq(s, Len(s) - MaxRecords + 1, Len(s)) ELSE s

(* Mutant: whether to record is decided when the request ends.                *)
RecordIfEnabled(r) ==
    /\ serving[r] \in {"watched", "unwatched"}
    /\ serving' = [serving EXCEPT ![r] = "done"]
    /\ IF enabled
       THEN /\ seq' = seq + 1
            /\ entries' = Trimmed(Append(entries, seq + 1))
            /\ sinceClear' = Append(sinceClear, r)
       ELSE UNCHANGED <<seq, entries, sinceClear>>
    /\ UNCHANGED <<enabled, onAtStart>>

Record(r) ==
    /\ serving[r] \in {"watched", "unwatched"}
    /\ serving' = [serving EXCEPT ![r] = "done"]
    /\ IF serving[r] = "watched"
       THEN /\ seq' = seq + 1
            /\ entries' = Trimmed(Append(entries, seq + 1))
            /\ sinceClear' = Append(sinceClear, r)
       ELSE UNCHANGED <<seq, entries, sinceClear>>
    /\ UNCHANGED <<enabled, onAtStart>>

ClearCapture ==
    /\ entries' = <<>> /\ sinceClear' = <<>>
    /\ UNCHANGED <<seq, enabled, serving, onAtStart>>

DebugNext == SetCapture \/ ClearCapture \/ \E r \in Captured : BeginCapture(r) \/ Record(r)

(* The log is always the newest requests since it was last cleared, as many as *)
(* fit, in the order they ended, numbered without gaps across clears, and only *)
(* requests that began while the capture was on.  DebugRecorder.record.        *)
RingKeepsNewest ==
    /\ Len(entries) = (IF Len(sinceClear) < MaxRecords THEN Len(sinceClear) ELSE MaxRecords)
    /\ \A n \in DOMAIN entries : entries[n] = seq - Len(entries) + n
    /\ \A n \in DOMAIN sinceClear : sinceClear[n] \in onAtStart
=============================================================================
