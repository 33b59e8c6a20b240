----------------------------- MODULE AsyncQuery -----------------------------
(***************************************************************************)
(* Play-by-query of the player process: the select loop hands every spoken *)
(* query to a detached thread (music_server_async.c), the thread leaves    *)
(* its answer in ONE slot guarded by g_mas_mu and wakes the loop through a *)
(* pipe.  A token, bumped by every query and by every disconnect, decides  *)
(* whether a late thread may still publish.                                *)
(*                                                                         *)
(* Critical sections are single steps; everything done outside the mutex   *)
(* (the search, the pipe write, the two drains, the delivery) is a step of *)
(* its own, so that all the orders of the loop and the threads are there.  *)
(* One round of the loop is Select, socket, ASR, async pipe, in the order  *)
(* of select_run, with the descriptor set that select() returned (tmp).    *)
(***************************************************************************)
EXTENDS Naturals

CONSTANTS Jobs,     \* the queries that are ever asked, one thread each
          NoJob     \* "no query": an empty g_query

ASSUME NoJobAssumption == NoJob \notin Jobs

VARIABLES latest,   \* g_latest_token
          pending,  \* the slot: g_query and g_pending_out / _item / _search
          pipe,     \* bytes in g_mas_pipe
          thread,   \* program counter of each query's thread
          tok,      \* the token in its MasJob
          found,    \* what its search returned
          main,     \* where the select loop is in its round
          tmp,      \* TMPSET holds the read end of the pipe
          taken,    \* the slot as copied out by the loop
          online,   \* g_current_online_mode
          freed,    \* queries whose result list was freed
          answered  \* how often each query's answer reached the player

vars == <<latest, pending, pipe, thread, tok, found, main, tmp, taken,
          online, freed, answered>>

loopVars   == <<main, tmp, taken, online, answered>>
threadVars == <<thread, tok, found>>

\* Answers that carry a heap-allocated MusicSourceResult.
Lists    == {"SEARCH", "PLAYLIST"}
Outcomes == {"FAIL", "RESOLVE"} \cup Lists
Answers  == [job : Jobs \cup {NoJob}, out : Outcomes]
Empty    == [job |-> NoJob, out |-> "FAIL"]

Init ==
  /\ latest = 0
  /\ pending = Empty
  /\ pipe = 0
  /\ thread = [j \in Jobs |-> "idle"]
  /\ tok = [j \in Jobs |-> 0]
  /\ found = [j \in Jobs |-> "FAIL"]
  /\ main = "select"
  /\ tmp = FALSE
  /\ taken = Empty
  /\ online \in BOOLEAN
  /\ freed = {}
  /\ answered = [j \in Jobs |-> 0]

\* What music_source_free_result releases when it is given this answer.
ListOf(answer) == IF answer.out \in Lists THEN {answer.job} ELSE {}

-----------------------------------------------------------------------------
(* The thread of query j. *)

\* The searches of the thread: a playlist query, a resolved song and a plain
\* search need the server, the local library answers a plain search offline.
Search(j) ==
  /\ thread[j] = "running"
  /\ \E out \in IF online THEN Outcomes ELSE {"FAIL", "SEARCH"} :
        found' = [found EXCEPT ![j] = out]
  /\ thread' = [thread EXCEPT ![j] = "publish"]
  /\ UNCHANGED <<latest, pending, pipe, tok, freed, loopVars>>

\* Mutant: a late thread publishes as well.
NeverStale(j) == TRUE

\* Does the answer of j still belong to the current query?
IsLatest(j) == tok[j] = latest

\* Mutant: a dropped answer is not freed.
PublishOrLeak(j) ==
  /\ thread[j] = "publish"
  /\ IF IsLatest(j)
     THEN /\ pending' = [job |-> j, out |-> found[j]]
          /\ thread' = [thread EXCEPT ![j] = "notify"]
     ELSE thread' = [thread EXCEPT ![j] = "done"] /\ UNCHANGED pending
  /\ UNCHANGED <<latest, pipe, tok, found, freed, loopVars>>

PublishOrDrop(j) ==
  /\ thread[j] = "publish"
  /\ \/ /\ IsLatest(j)
        /\ pending' = [job |-> j, out |-> found[j]]
        /\ thread' = [thread EXCEPT ![j] = "notify"]
        /\ UNCHANGED freed
     \/ /\ ~IsLatest(j)
        /\ freed' = freed \cup ListOf([job |-> j, out |-> found[j]])
        /\ thread' = [thread EXCEPT ![j] = "done"]
        /\ UNCHANGED pending
  /\ UNCHANGED <<latest, pipe, tok, found, loopVars>>

\* Mutant: the slot is filled and the loop not woken.
NotifyNobody(j) ==
  /\ thread[j] = "notify"
  /\ thread' = [thread EXCEPT ![j] = "done"]
  /\ UNCHANGED <<latest, pending, pipe, tok, found, freed, loopVars>>

NotifyWrite(j) ==
  /\ thread[j] = "notify"
  /\ pipe' = pipe + 1
  /\ thread' = [thread EXCEPT ![j] = "done"]
  /\ UNCHANGED <<latest, pending, tok, found, freed, loopVars>>

Thread(j) == Search(j) \/ PublishOrDrop(j) \/ NotifyWrite(j)

-----------------------------------------------------------------------------
(* The select loop. *)

\* select() returns; the set it fills is used for the whole round.
Select ==
  /\ main = "select"
  /\ tmp' = (pipe > 0)
  /\ main' = "socket"
  /\ UNCHANGED <<latest, pending, pipe, taken, online, freed, answered,
                 threadVars>>

SocketQuiet ==
  /\ main = "socket"
  /\ main' = "asr"
  /\ UNCHANGED <<latest, pending, pipe, tmp, taken, online, freed, answered,
                 threadVars>>

\* Mutant: the cancellation leaves the slot to the drain.
CancelTokenOnly ==
  /\ main = "socket"
  /\ latest' = latest + 1
  /\ main' = "cancel_drain"
  /\ UNCHANGED <<pending, pipe, tmp, taken, online, freed, answered, threadVars>>

\* The server is gone: the critical section of the cancellation ...
CancelPending ==
  /\ main = "socket"
  /\ latest' = latest + 1
  /\ freed' = freed \cup ListOf(pending)
  /\ pending' = Empty
  /\ main' = "cancel_drain"
  /\ UNCHANGED <<pipe, tmp, taken, online, answered, threadVars>>

\* ... and, outside it, the drain and the switch to the local library.
CancelDrain ==
  /\ main = "cancel_drain"
  /\ pipe' = 0
  /\ online' = FALSE
  /\ main' = "asr"
  /\ UNCHANGED <<latest, pending, tmp, taken, freed, answered, threadVars>>

\* No query this round, or a voice command that changes the mode.
AsrOther ==
  /\ main = "asr"
  /\ online' \in BOOLEAN
  /\ main' = "async"
  /\ UNCHANGED <<latest, pending, pipe, tmp, taken, freed, answered,
                 threadVars>>

\* A query; pthread_create may fail after the token was taken.
StartPlayQuery(j) ==
  /\ main = "asr"
  /\ thread[j] = "idle"
  /\ latest' = latest + 1
  /\ tok' = [tok EXCEPT ![j] = latest + 1]
  /\ \E created \in BOOLEAN :
        thread' = [thread EXCEPT ![j] = IF created THEN "running" ELSE "done"]
  /\ main' = "async"
  /\ UNCHANGED <<pending, pipe, found, tmp, taken, online, freed, answered>>

RoundEnd ==
  /\ main = "async"
  /\ ~tmp
  /\ main' = "select"
  /\ UNCHANGED <<latest, pending, pipe, tmp, taken, online, freed, answered,
                 threadVars>>

OnReadableDrain ==
  /\ main = "async"
  /\ tmp
  /\ pipe' = 0
  /\ main' = "take"
  /\ UNCHANGED <<latest, pending, tmp, taken, online, freed, answered,
                 threadVars>>

\* Mutant: the slot is copied out and not emptied.
OnReadablePeek ==
  /\ main = "take"
  /\ taken' = pending
  /\ main' = "deliver"
  /\ UNCHANGED <<latest, pending, pipe, tmp, online, freed, answered, threadVars>>

OnReadableTake ==
  /\ main = "take"
  /\ taken' = pending
  /\ pending' = Empty
  /\ main' = "deliver"
  /\ UNCHANGED <<latest, pipe, tmp, online, freed, answered, threadVars>>

\* select_music_async_play_query_done: the list goes into the playlist and is
\* freed, a FAIL plays the fallback prompt.
Deliver ==
  /\ main = "deliver"
  /\ answered' = IF taken.job \in Jobs
                 THEN [answered EXCEPT ![taken.job] = @ + 1] ELSE answered
  /\ freed' = freed \cup ListOf(taken)
  /\ taken' = Empty
  /\ main' = "select"
  /\ UNCHANGED <<latest, pending, pipe, tmp, online, threadVars>>

Loop == \/ Select \/ SocketQuiet \/ CancelPending \/ CancelDrain
        \/ AsrOther \/ (\E j \in Jobs : StartPlayQuery(j))
        \/ RoundEnd \/ OnReadableDrain \/ OnReadableTake \/ Deliver

Next == Loop \/ (\E j \in Jobs : Thread(j))

Spec == Init /\ [][Next]_vars

\* The scheduler runs the loop and every thread; the socket timeouts of the
\* search (music_source_server.c) make it return.
Fairness == WF_vars(Loop) /\ \A j \in Jobs : WF_vars(Thread(j))

FairSpec == Spec /\ Fairness

-----------------------------------------------------------------------------
\* The types of the variables; the slot and its copy hold at most one answer.
TypeOK ==
  /\ latest \in Nat
  /\ pending \in Answers
  /\ pipe \in Nat
  /\ thread \in [Jobs -> {"idle", "running", "publish", "notify", "done"}]
  /\ tok \in [Jobs -> Nat]
  /\ found \in [Jobs -> Outcomes]
  /\ main \in {"select", "socket", "cancel_drain", "asr", "async", "take",
               "deliver"}
  /\ tmp \in BOOLEAN
  /\ taken \in Answers
  /\ online \in BOOLEAN
  /\ freed \in SUBSET Jobs
  /\ answered \in [Jobs -> Nat]

\* No lost wake-up: while an answer lies in the slot, a byte is in the pipe,
\* a thread is about to write one, or the loop is past its drain and will
\* look at the slot.  Neither the drain of on_readable nor the unlocked drain
\* of cancel_pending may swallow the byte of an answer that stays.
NoLostAnswer ==
  pending.job # NoJob =>
     \/ pipe > 0
     \/ main = "take"
     \/ \E j \in Jobs : thread[j] = "notify"

\* The places that point at the list of query j.
Holders(j) ==
  (IF thread[j] = "publish" /\ found[j] \in Lists THEN {"thread"} ELSE {})
  \cup (IF j \in ListOf(pending) THEN {"slot"} ELSE {})
  \cup (IF j \in ListOf(taken) THEN {"loop"} ELSE {})

\* A result list changes hands (thread, slot, loop) without ever having two
\* owners, and nobody still points at a list that was freed: no double free,
\* no use after free, whichever of drop, cancel and delivery comes first.
ItemsOwnedOnce ==
  \A j \in Jobs : /\ \A x, y \in Holders(j) : x = y
                  /\ j \in freed => Holders(j) = {}

\* publish_or_drop overwrites the slot without freeing the list in it; that
\* list is lost only when a newer query published over it.
LostOnlyIfOvertaken ==
  \A j \in Jobs :
     /\ thread[j] \in {"notify", "done"}
     /\ found[j] \in Lists
     /\ Holders(j) = {}
     /\ j \notin freed
     => \E k \in Jobs : tok[k] > tok[j] /\ thread[k] \in {"notify", "done"}

\* The player gets at most one answer per query, and never the answer of an
\* older query after that of a newer one.
AnswersInOrder ==
  [][\A j \in Jobs : answered'[j] # answered[j] =>
        /\ answered'[j] = 1
        /\ \A k \in Jobs \ {j} : answered[k] > 0 => tok[k] < tok[j]]_vars

\* A query whose thread runs is answered, unless a newer query or a
\* disconnect withdrew it.
LatestIsAnswered ==
  \A j \in Jobs : thread[j] = "running" /\ IsLatest(j)
                     ~> answered[j] > 0 \/ ~IsLatest(j)
=============================================================================
