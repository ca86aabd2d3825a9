----------------------------- MODULE ChatSession -----------------------------
(***************************************************************************)
(* One chat session of the support bot: its row, its transcript, the reply *)
(* cache of the deduplicator, and the requests that meet on it: messages   *)
(* that run the Cardinal pipeline (app/l1_cardinal/pipeline.py, called by  *)
(* app/sessions/routes.py), chip taps (app/conversation_studio/routes.py)  *)
(* and the deletion of the session. The server runs requests in threads,   *)
(* and the pipeline commits after every write, so they interleave there.   *)
(*                                                                         *)
(* Messages are model values; a reply is the set of its actions. A refund  *)
(* or a complaint is one member of Claims: the key by which the validator  *)
(* recognises it (order, amount and method, or order and target).          *)
(***************************************************************************)
EXTENDS Naturals, Sequences, FiniteSets

CONSTANTS
    Chats,        \* chat requests, each sent at most once
    Taps,         \* select-issue requests
    Messages,     \* texts a customer may send
    Claims,       \* refunds and complaints
    None,         \* no chat; nothing cached
    MaxRestarts   \* bound on restarts of the server process

ASSUME NoneApart == None \notin Chats /\ \A A \in SUBSET (Claims \cup {"escalate", "flag", "close"}) : A # None
ASSUME ClaimsApart == Claims \cap {"escalate", "flag", "close", "orderless", "shapeless"} = {}
ASSUME ChatsNotTaps == Chats \cap Taps = {}
ASSUME MaxRestartsNat == MaxRestarts \in Nat

VARIABLES
    row,        \* the session row: absent, owned by its user, or ownerless
    titled,     \* the row has a title
    turns,      \* the rows of turns, in the order of their ids
    cache,      \* the deduplicator's reply to each message
    locker,     \* the chat that holds the row lock of its title update
    chat,       \* the chat requests
    tap,        \* the tap requests
    deletion,   \* progress of the delete request
    restarts

vars == <<row, titled, turns, cache, locker, chat, tap, deletion, restarts>>

Actions == Claims \cup {"escalate", "flag", "close"}
Fallback == {"escalate"}

ChatSteps ==
    {"idle", "untitled", "started", "looked", "missing", "found", "read", "asked",
     "dispatched", "ready", "excused", "done", "rejected", "failed", "lost"}
Ended == {"done", "rejected", "failed", "lost"}

Chat ==
    [step : ChatSteps, msg : Messages \cup {None}, hit : BOOLEAN, no : Nat,
     seen : Nat, prior : SUBSET Actions, acts : SUBSET Actions]
NoChat ==
    [step |-> "idle", msg |-> None, hit |-> FALSE, no |-> 0,
     seen |-> 0, prior |-> {}, acts |-> {}]

Turn ==
    [no : Nat, kind : {"question", "fresh", "replay", "fallback", "ack"},
     by : Chats \cup Taps, seen : Nat, acts : SUBSET Actions]

TypeOK ==
    /\ row \in {"absent", "owned", "ownerless"}
    /\ titled \in BOOLEAN
    /\ turns \in Seq(Turn)
    /\ cache \in [Messages -> (SUBSET Actions) \cup {None}]
    /\ locker \in Chats \cup {None}
    /\ chat \in [Chats -> Chat]
    /\ tap \in [Taps -> [step : {"idle", "read", "done", "failed", "lost"}, no : Nat]]
    /\ deletion \in {"idle", "loaded", "done", "lost"}
    /\ restarts \in 0 .. MaxRestarts

\* The row as POST /api/sessions creates it, without a title.
Init ==
    /\ row = "owned"
    /\ titled = FALSE
    /\ turns = <<>>
    /\ cache = [m \in Messages |-> None]
    /\ locker = None
    /\ chat = [c \in Chats |-> NoChat]
    /\ tap = [p \in Taps |-> [step |-> "idle", no |-> 0]]
    /\ deletion = "idle"
    /\ restarts = 0

Numbers == {turns[i].no : i \in DOMAIN turns}
IsLast(n) == n \in Numbers \cup {0} /\ \A m \in Numbers : m <= n

PriorActions == UNION {turns[i].acts : i \in DOMAIN turns}

\* A commit of chat c ends its transaction, and with it its row lock.
Unlocked(c) == IF locker = c THEN None ELSE locker

Go(c, step) == chat' = [chat EXCEPT ![c].step = step]

\* The exception leaves run_turn: 500, the open transaction rolls back.
Fails(c) ==
    /\ Go(c, "failed")
    /\ locker' = Unlocked(c)
    /\ UNCHANGED <<row, titled, turns, cache, tap, deletion, restarts>>

-----------------------------------------------------------------------------
(* POST /api/sessions/{id}/chat.                                           *)

\* _load_owned_session; anything not owned is a 404.
ChatLoad(c, m) ==
    /\ chat[c].step = "idle"
    /\ row = "owned"
    /\ chat' = [chat EXCEPT ![c] =
          [NoChat EXCEPT !.step = IF titled THEN "started" ELSE "untitled", !.msg = m]]
    /\ UNCHANGED <<row, titled, turns, cache, locker, tap, deletion, restarts>>

\* The flushed title update keeps the row locked until the first commit.
SetTitle(c) ==
    /\ chat[c].step = "untitled"
    /\ row # "absent"
    /\ locker = None
    /\ locker' = c
    /\ Go(c, "started")
    /\ UNCHANGED <<row, titled, turns, cache, tap, deletion, restarts>>

TitleFails(c) ==
    /\ chat[c].step = "untitled"
    /\ row = "absent"
    /\ Fails(c)

\* Phase 1 refuses the message; only the title is committed.
Reject(c) ==
    /\ chat[c].step = "started"
    /\ Go(c, "rejected")
    /\ titled' = (titled \/ locker = c)
    /\ locker' = Unlocked(c)
    /\ UNCHANGED <<row, turns, cache, tap, deletion, restarts>>

\* Phase 2: a reply within its time to live is taken from the cache.
Lookup(c) ==
    /\ chat[c].step = "started"
    /\ LET reply == cache[chat[c].msg]
       IN chat' = [chat EXCEPT ![c].step = "looked", ![c].hit = (reply # None),
                               ![c].acts = IF reply # None THEN reply ELSE {}]
    /\ UNCHANGED <<row, titled, turns, cache, locker, tap, deletion, restarts>>

\* load_or_create: the SELECT.
FindSession(c) ==
    /\ chat[c].step = "looked"
    /\ Go(c, IF row = "absent" THEN "missing" ELSE "found")
    /\ UNCHANGED <<row, titled, turns, cache, locker, tap, deletion, restarts>>

\* Mutated form: the inserted row belongs to the user of the request.
CreateOwnedSession(c) ==
    /\ chat[c].step = "missing"
    /\ row = "absent"
    /\ row' = "owned"
    /\ titled' = FALSE
    /\ locker' = Unlocked(c)
    /\ Go(c, "found")
    /\ UNCHANGED <<turns, cache, tap, deletion, restarts>>

\* The INSERT names no user; a row somebody else inserted meanwhile is a
\* primary key violation.
CreateSession(c) ==
    /\ chat[c].step = "missing"
    /\ row = "absent"
    /\ row' = "ownerless"
    /\ titled' = FALSE
    /\ locker' = Unlocked(c)
    /\ Go(c, "found")
    /\ UNCHANGED <<turns, cache, tap, deletion, restarts>>

CreateFails(c) ==
    /\ chat[c].step = "missing"
    /\ row # "absent"
    /\ Fails(c)

\* Mutated form: the next number is the length of the history plus one.
CountHistory(c) ==
    /\ chat[c].step = "found"
    /\ chat' = [chat EXCEPT ![c].step = "read", ![c].no = Len(turns) + 1,
                            ![c].seen = Len(turns), ![c].prior = PriorActions]
    /\ UNCHANGED <<row, titled, turns, cache, locker, tap, deletion, restarts>>

ReadHistory(c) ==
    /\ chat[c].step = "found"
    /\ \E n \in Numbers \cup {0} :
          /\ IsLast(n)
          /\ chat' = [chat EXCEPT ![c].step = "read", ![c].no = n + 1,
                                  ![c].seen = Len(turns), ![c].prior = PriorActions]
    /\ UNCHANGED <<row, titled, turns, cache, locker, tap, deletion, restarts>>

\* _persist_turn: one INSERT and a commit; the row must be there for it.
Persist(c, kind, acts) ==
    /\ row # "absent"
    /\ turns' = Append(turns, [no |-> chat[c].no, kind |-> kind, by |-> c,
                               seen |-> chat[c].seen, acts |-> acts])
    /\ titled' = (titled \/ locker = c)
    /\ locker' = Unlocked(c)
    /\ UNCHANGED <<row, cache, tap, deletion, restarts>>

\* Mutated form: the customer's turn is left for later.
PostponeQuestion(c) ==
    /\ chat[c].step = "read"
    /\ Go(c, "asked")
    /\ UNCHANGED <<row, titled, turns, cache, locker, tap, deletion, restarts>>

\* The customer's turn, before any stage runs.
PersistQuestion(c) ==
    /\ chat[c].step = "read"
    /\ Persist(c, "question", {})
    /\ Go(c, "asked")

\* The bot's turn of a dedup hit.
PersistReplay(c) ==
    /\ chat[c].step = "asked"
    /\ chat[c].hit
    /\ Persist(c, "replay", chat[c].acts)
    /\ Go(c, "done")

\* Phase 5 inserts a bot_executions row, which refers to the session.
Dispatch(c) ==
    /\ chat[c].step = "asked"
    /\ ~chat[c].hit
    /\ row # "absent"
    /\ Go(c, "dispatched")
    /\ UNCHANGED <<row, titled, turns, cache, locker, tap, deletion, restarts>>

-----------------------------------------------------------------------------
(* What Stage 2 and Stage 3 make of a proposal p in the light of the       *)
(* actions prior turns emitted. Which proposal reaches them is up to the   *)
(* model and to the rules that look at this turn alone. A claim may lack   *)
(* its order id, or the amount, method or target Stage 3 asks for.         *)

Incomplete == {"orderless", "shapeless"}
Proposals == SUBSET (Actions \cup Incomplete)

Deduped(p, prior) == p \ (prior \cap Claims)

\* A claim after an injection attempt goes to review, an abuser's is refused.
Pivots(p, prior) ==
    IF "flag" \in prior /\ "escalate" \notin prior
      THEN {p, p \cup {"escalate", "flag"}, {"flag"}}
      ELSE {p}

\* Low confidence or a refund above the soft cap.
Downgrades(p) == {p, p \cup {"escalate"}}

\* After a hand-off a reply with nothing new in it closes instead.
Collapsed(p, prior) ==
    IF "escalate" \in prior /\ p # {} /\ p \cap (Claims \cup Incomplete \cup {"flag"}) = {}
      THEN (p \ {"escalate"}) \cup {"close"}
      ELSE p

\* Nothing left: wait for an order id, close, or send an abuser to review.
SafetyNet(p, prior) ==
    IF p # {} THEN {p}
    ELSE {{}, {"close"}} \cup (IF "escalate" \in prior THEN {} ELSE {{"escalate", "flag"}})

\* Claims without an order id go before the safety net, the others that the
\* simulator's schema does not admit when Stage 3 shapes the reply.
Validated(p, prior) ==
    UNION {SafetyNet(Collapsed(d, prior) \ {"orderless"}, prior) :
              d \in UNION {Downgrades(v) : v \in Pivots(p, prior)}}
Shaped(p) == p \ {"shapeless"}

\* Mutated form: the history's claims are not dropped.
RepliesWithoutDedupe(prior) ==
    {{"close"}} \cup
    {Shaped(v) : v \in UNION {Validated(p, prior) : p \in Proposals}}

Replies(prior) ==
    {{"close"}} \cup
    {Shaped(v) : v \in UNION {Validated(Deduped(p, prior), prior) : p \in Proposals}}

-----------------------------------------------------------------------------
\* Stages 1 to 3, and remember() before the turn is persisted.
Evaluate(c) ==
    /\ chat[c].step = "dispatched"
    /\ \E acts \in Replies(chat[c].prior) :
          /\ chat' = [chat EXCEPT ![c].step = "ready", ![c].acts = acts]
          /\ cache' = [cache EXCEPT ![chat[c].msg] = acts]
    /\ UNCHANGED <<row, titled, turns, locker, tap, deletion, restarts>>

PersistReply(c) ==
    /\ chat[c].step = "ready"
    /\ Persist(c, "fresh", chat[c].acts)
    /\ Go(c, "done")

\* An exception of a stage that leaves the transaction usable.
StageFails(c) ==
    /\ chat[c].step \in {"asked", "dispatched"}
    /\ ~chat[c].hit
    /\ Go(c, "excused")
    /\ UNCHANGED <<row, titled, turns, cache, locker, tap, deletion, restarts>>

PersistFallback(c) ==
    /\ chat[c].step = "excused"
    /\ Persist(c, "fallback", Fallback)
    /\ Go(c, "done")

\* A write finds the session gone. In the handler of the pipeline's exception
\* the transaction is aborted, so the fallback turn cannot be written either.
RowGone(c) ==
    /\ chat[c].step \in {"read", "asked", "ready", "excused"}
    /\ row = "absent"
    /\ Fails(c)

\* A query of a stage fails in the database: the same abort.
QueryFails(c) ==
    /\ chat[c].step \in {"asked", "dispatched"}
    /\ ~chat[c].hit
    /\ Fails(c)

\* The time to live of a cached reply is over when it is looked up.
Expire(m) ==
    /\ cache[m] # None
    /\ cache' = [cache EXCEPT ![m] = None]
    /\ UNCHANGED <<row, titled, turns, locker, chat, tap, deletion, restarts>>

ChatStep(c) ==
    \/ SetTitle(c)
    \/ TitleFails(c)
    \/ Lookup(c)
    \/ FindSession(c)
    \/ CreateSession(c)
    \/ CreateFails(c)
    \/ ReadHistory(c)
    \/ PersistQuestion(c)
    \/ PersistReplay(c)
    \/ Dispatch(c)
    \/ Evaluate(c)
    \/ PersistReply(c)
    \/ StageFails(c)
    \/ PersistFallback(c)
    \/ RowGone(c)
    \/ QueryFails(c)

-----------------------------------------------------------------------------
(* Chip taps, deletion, restart.                                           *)

TapRead(p) ==
    /\ tap[p].step = "idle"
    /\ row = "owned"
    /\ \E n \in Numbers \cup {0} :
          IsLast(n) /\ tap' = [tap EXCEPT ![p] = [step |-> "read", no |-> n + 1]]
    /\ UNCHANGED <<row, titled, turns, cache, locker, chat, deletion, restarts>>

\* The UPDATE of the session and the INSERT of the acknowledgment are flushed
\* together. They go by the primary key, so an ownerless row takes them too.
TapCommit(p) ==
    /\ tap[p].step = "read"
    /\ row # "absent"
    /\ locker = None
    /\ turns' = Append(turns, [no |-> tap[p].no, kind |-> "ack", by |-> p,
                               seen |-> 0, acts |-> {}])
    /\ titled' = TRUE
    /\ tap' = [tap EXCEPT ![p].step = "done"]
    /\ UNCHANGED <<row, cache, locker, chat, deletion, restarts>>

TapFails(p) ==
    /\ tap[p].step = "read"
    /\ row = "absent"
    /\ tap' = [tap EXCEPT ![p].step = "failed"]
    /\ UNCHANGED <<row, titled, turns, cache, locker, chat, deletion, restarts>>

DeleteLoad ==
    /\ deletion = "idle"
    /\ row = "owned"
    /\ deletion' = "loaded"
    /\ UNCHANGED <<row, titled, turns, cache, locker, chat, tap, restarts>>

\* The turns go with the row; the cached replies stay.
DeleteCommit ==
    /\ deletion = "loaded"
    /\ locker = None
    /\ row' = "absent"
    /\ turns' = <<>>
    /\ deletion' = "done"
    /\ UNCHANGED <<titled, cache, locker, chat, tap, restarts>>

\* The process restarts: requests under way and the cache are lost.
Restart ==
    /\ restarts < MaxRestarts
    /\ restarts' = restarts + 1
    /\ cache' = [m \in Messages |-> None]
    /\ locker' = None
    /\ chat' = [c \in Chats |->
          IF chat[c].step \in Ended \cup {"idle"} THEN chat[c]
          ELSE [chat[c] EXCEPT !.step = "lost"]]
    /\ tap' = [p \in Taps |->
          IF tap[p].step = "read" THEN [tap[p] EXCEPT !.step = "lost"] ELSE tap[p]]
    /\ deletion' = IF deletion = "loaded" THEN "lost" ELSE deletion
    /\ UNCHANGED <<row, titled, turns>>

Next ==
    \/ \E c \in Chats :
          \/ \E m \in Messages : ChatLoad(c, m)
          \/ Reject(c)
          \/ ChatStep(c)
    \/ \E m \in Messages : Expire(m)
    \/ \E p \in Taps : TapRead(p) \/ TapCommit(p) \/ TapFails(p)
    \/ DeleteLoad
    \/ DeleteCommit
    \/ Restart

Spec == Init /\ [][Next]_vars

-----------------------------------------------------------------------------
(* Properties.                                                             *)

\* What the turns said that the reply in turn i was computed from.
Earlier(i) == UNION {turns[j].acts : j \in 1 .. turns[i].seen}

\* A session its user deleted never comes back to him, although a message
\* under way may insert the row again.
DeletedStaysHidden == deletion = "done" => row # "owned"

\* The transcript of a session that was not deleted has every turn number up
\* to its last one: no interleaving of messages and taps skips one.
NoGaps ==
    row = "owned" => \A i \in DOMAIN turns :
        turns[i].no > 1 => \E j \in 1 .. i : turns[j].no = turns[i].no - 1

\* Every reply stands after the question it answers, under the same number,
\* and no question has two replies.
RepliesAnswerQuestions ==
    row = "owned" => \A i \in DOMAIN turns :
        turns[i].kind \in {"fresh", "replay", "fallback"} =>
            /\ \E j \in 1 .. i - 1 :
                  turns[j].kind = "question" /\ turns[j].by = turns[i].by
                      /\ turns[j].no = turns[i].no
            /\ \A j \in 1 .. i - 1 : turns[j].by = turns[i].by => turns[j].kind = "question"

\* A computed reply respects every turn that was there when its history was
\* read: it repeats none of its refunds and complaints.
HistoryIsRespected ==
    row = "owned" => \A i \in DOMAIN turns : turns[i].kind = "fresh" =>
        turns[i].acts \cap Claims \cap Earlier(i) = {}

-----------------------------------------------------------------------------
(* What comments say and the code does not do.                             *)

\* Stage 2: "Don't re-file an identical complaint or re-issue a refund" that
\* was emitted "earlier in this session": two computed replies never do.
ClaimsOnce ==
    \A i, j \in DOMAIN turns :
        i < j /\ turns[i].kind = "fresh" /\ turns[j].kind = "fresh" =>
            turns[i].acts \cap turns[j].acts \cap Claims = {}
=============================================================================
