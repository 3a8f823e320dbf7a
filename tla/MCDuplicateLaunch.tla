---- MODULE MCDuplicateLaunch ----
(***************************************************************************)
(* ExperienceComposition with a history variable: the last launch request  *)
(* that Dispatch acknowledged as a duplicate instead of queueing it.       *)
(***************************************************************************)
EXTENDS ExperienceComposition

VARIABLE acknowledged

HistoryInit == Init /\ acknowledged = NoRequest

AcknowledgeDuplicate(r) ==
    /\ subscribed /\ Duplicate(r) /\ acknowledged' = r
    /\ UNCHANGED vars

HistoryNext ==
    \/ Next /\ acknowledged' = NoRequest
    \/ \E r \in Requests : AcknowledgeDuplicate(r)

HistorySpec == HistoryInit /\ [][HistoryNext]_<<vars, acknowledged>>

\* "Every owned JSON launch request is dispatched to a fresh UGCGame
\* controller" (roblox_experience_composition.h): a request that Dispatch
\* acknowledges as "already active or queued" is queued, being launched, or
\* that of a game whose return has not been reported.  It does not hold: a
\* game that has returned counts as active until the main loop consumes the
\* return, and a request to join it again in that time is dropped.
DuplicateIsLive ==
    acknowledged # NoRequest =>
        \/ Contains(pending, acknowledged) \/ task.request = acknowledged
        \/ activeGame = acknowledged /\ ~returnPending
           /\ main \notin {"observe", "returned"}
====
