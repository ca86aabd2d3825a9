-------------------------- MODULE ChatSessionProofs --------------------------
(***************************************************************************)
(* Proofs about ChatSession, for any number of messages, taps and claims.  *)
(*                                                                         *)
(* While the row is owned, turns have only been appended since Init: the   *)
(* row cannot become owned again.  Each request then relates to the turns  *)
(* as its step says: before its question it has written nothing, between   *)
(* question and reply it has written that question under its number, and   *)
(* the history it read is a prefix of the turns.                           *)
(***************************************************************************)
EXTENDS ChatSession, TLAPS

Unasked == {"idle", "untitled", "started", "looked", "missing", "found", "read"}
Asked == {"asked", "dispatched", "ready", "excused"}
Numbered == Asked \cup {"read"}

\* What a request under way has written so far.
Wrote ==
    row = "owned" => \A c \in Chats :
        /\ chat[c].step \in Unasked => \A i \in DOMAIN turns : turns[i].by # c
        /\ chat[c].step \in Asked =>
              /\ \E i \in DOMAIN turns :
                    turns[i].kind = "question" /\ turns[i].by = c /\ turns[i].no = chat[c].no
              /\ \A i \in DOMAIN turns : turns[i].by = c => turns[i].kind = "question"

\* The number a request took follows one that is there.
Follows(n) == n > 1 => \E i \in DOMAIN turns : turns[i].no = n - 1

NumbersFollow ==
    row = "owned" =>
        /\ \A c \in Chats : chat[c].step \in Numbered => Follows(chat[c].no)
        /\ \A p \in Taps : tap[p].step = "read" => Follows(tap[p].no)

\* What a request knows of the history is a prefix of it.
SaidIn(n) == UNION {turns[i].acts : i \in 1 .. n}

HistoryRead ==
    row = "owned" =>
        /\ \A c \in Chats : chat[c].step \in Numbered =>
              chat[c].seen <= Len(turns) /\ chat[c].prior = SaidIn(chat[c].seen)
        /\ \A i \in DOMAIN turns : turns[i].kind = "fresh" => turns[i].seen <= Len(turns)

\* A computed reply repeats no claim of the history it was computed from.
NothingRepeated ==
    \A c \in Chats : chat[c].step = "ready" => chat[c].acts \cap Claims \cap chat[c].prior = {}

-----------------------------------------------------------------------------
(* Lemmas about the validator and the transcript.                          *)

\* Stages 2 and 3: every reply is a set of actions.
LEMMA RepliesTyped ==
    ASSUME NEW prior, NEW acts \in Replies(prior)
    PROVE  acts \in SUBSET Actions
<1>1. CASE acts = {"close"}
  BY <1>1 DEF Actions
<1>2. ASSUME NEW p \in Proposals, NEW v \in Validated(Deduped(p, prior), prior), acts = Shaped(v)
      PROVE  acts \in SUBSET Actions
  <2>1. PICK w \in Pivots(Deduped(p, prior), prior) : \E d \in Downgrades(w) :
               v \in SafetyNet(Collapsed(d, prior) \ {"orderless"}, prior)
    BY <1>2 DEF Validated
  <2>1a. PICK d \in Downgrades(w) : v \in SafetyNet(Collapsed(d, prior) \ {"orderless"}, prior)
    BY <2>1
  <2>2. w \subseteq Actions \cup Incomplete
    BY <2>1 DEF Pivots, Deduped, Proposals, Actions
  <2>3. d \subseteq Actions \cup Incomplete
    BY <2>1a, <2>2 DEF Downgrades, Actions
  <2>4. Collapsed(d, prior) \subseteq Actions \cup Incomplete
    BY <2>3 DEF Collapsed, Actions
  <2>5. v \subseteq Actions \cup {"shapeless"}
    BY <2>1a, <2>4 DEF SafetyNet, Incomplete, Actions
  <2> QED BY <1>2, <2>5 DEF Shaped
<1> QED BY <1>1, <1>2 DEF Replies

\* Stage 2: once dropped, no later rule brings a claim of the history back.
LEMMA RepliesAreNew ==
    ASSUME NEW prior, NEW acts \in Replies(prior)
    PROVE  acts \cap Claims \cap prior = {}
<1>1. CASE acts = {"close"}
  BY <1>1, ClaimsApart
<1>2. ASSUME NEW p \in Proposals, NEW v \in Validated(Deduped(p, prior), prior), acts = Shaped(v)
      PROVE  acts \cap Claims \cap prior = {}
  <2>1. PICK w \in Pivots(Deduped(p, prior), prior) : \E d \in Downgrades(w) :
               v \in SafetyNet(Collapsed(d, prior) \ {"orderless"}, prior)
    BY <1>2 DEF Validated
  <2>1a. PICK d \in Downgrades(w) : v \in SafetyNet(Collapsed(d, prior) \ {"orderless"}, prior)
    BY <2>1
  <2>2. w \cap Claims \cap prior = {}
    BY <2>1, ClaimsApart DEF Pivots, Deduped
  <2>3. d \cap Claims \cap prior = {}
    BY <2>1a, <2>2, ClaimsApart DEF Downgrades
  <2>4. Collapsed(d, prior) \cap Claims \cap prior = {}
    BY <2>3, ClaimsApart DEF Collapsed
  <2>5. v \cap Claims \cap prior = {}
    BY <2>1a, <2>4, ClaimsApart DEF SafetyNet
  <2> QED BY <1>2, <2>5 DEF Shaped
<1> QED BY <1>1, <1>2 DEF Replies

\* Append, spelled out for the transcript.
LEMMA OneMoreTurn ==
    ASSUME turns \in Seq(Turn), NEW t \in Turn, turns' = Append(turns, t)
    PROVE  /\ turns' \in Seq(Turn)
           /\ Len(turns) \in Nat /\ Len(turns') = Len(turns) + 1
           /\ DOMAIN turns = 1 .. Len(turns) /\ DOMAIN turns' = 1 .. Len(turns) + 1
           /\ \A i \in DOMAIN turns : turns'[i] = turns[i]
           /\ turns'[Len(turns) + 1] = t
  OBVIOUS

-----------------------------------------------------------------------------
(* Types.                                                                  *)

\* The steps of a request that change nothing but the request and the lock.
Quiet(c) ==
    \/ \E m \in Messages : ChatLoad(c, m)
    \/ SetTitle(c) \/ TitleFails(c) \/ Lookup(c) \/ FindSession(c) \/ CreateFails(c)
    \/ ReadHistory(c) \/ Dispatch(c) \/ StageFails(c) \/ RowGone(c) \/ QueryFails(c)

Replied(c) == PersistReplay(c) \/ PersistReply(c) \/ PersistFallback(c)

\* The actions sorted by what they do to the transcript.
LEMMA NextCases ==
    ASSUME Next
    PROVE  \/ \E c \in Chats : Quiet(c) \/ Reject(c) \/ Evaluate(c) \/ CreateSession(c)
                                 \/ PersistQuestion(c) \/ Replied(c)
           \/ \E m \in Messages : Expire(m)
           \/ \E p \in Taps : TapRead(p) \/ TapCommit(p) \/ TapFails(p)
           \/ DeleteLoad \/ DeleteCommit \/ Restart
  BY DEF Next, ChatStep, Quiet, Replied

\* Numbers of turns are numbers, and what prior turns emitted is a set of actions.
LEMMA ReadTyped ==
    ASSUME turns \in Seq(Turn)
    PROVE  Numbers \subseteq Nat /\ PriorActions \subseteq Actions /\ Len(turns) \in Nat
<1>1. \A i \in DOMAIN turns : turns[i] \in Turn
  OBVIOUS
<1>2. \A i \in DOMAIN turns : turns[i].no \in Nat /\ turns[i].acts \in SUBSET Actions
  BY <1>1 DEF Turn
<1>3. Numbers \subseteq Nat
  BY <1>2 DEF Numbers
<1>4. PriorActions \subseteq Actions
  BY <1>2 DEF PriorActions
<1>5. Len(turns) \in Nat
  OBVIOUS
<1> QED BY <1>3, <1>4, <1>5

\* A request that was sent has a message.
Sent == \A c \in Chats : chat[c].step # "idle" => chat[c].msg \in Messages

\* A request at another step is a request.
LEMMA AtStep ==
    ASSUME TypeOK, NEW c \in Chats, NEW s \in ChatSteps, Go(c, s)
    PROVE  chat' \in [Chats -> Chat]
<1>1. chat[c] \in Chat
  BY DEF TypeOK
<1>2. [chat[c] EXCEPT !.step = s] \in Chat
  BY <1>1 DEF Chat
<1> QED BY <1>2 DEF Go, TypeOK

\* A step of a request that writes nothing leaves its types.
LEMMA QuietTyped ==
    ASSUME TypeOK, Sent, NEW c \in Chats, Quiet(c)
    PROVE  chat' \in [Chats -> Chat] /\ locker' \in Chats \cup {None}
<1>0. chat[c] \in Chat
  BY DEF TypeOK
<1>1. CASE ReadHistory(c)
  <2>1. PICK n \in Numbers \cup {0} :
          chat' = [chat EXCEPT ![c].step = "read", ![c].no = n + 1,
                               ![c].seen = Len(turns), ![c].prior = PriorActions]
    BY <1>1 DEF ReadHistory
  <2>2. n + 1 \in Nat /\ Len(turns) \in Nat /\ PriorActions \in SUBSET Actions
    BY ReadTyped DEF TypeOK
  <2>3. ASSUME NEW m \in Nat, NEW k \in Nat, NEW A \in SUBSET Actions
        PROVE  [chat[c] EXCEPT !.step = "read", !.no = m, !.seen = k, !.prior = A] \in Chat
    BY <1>0 DEF Chat, ChatSteps
  <2>4. [chat[c] EXCEPT !.step = "read", !.no = n + 1, !.seen = Len(turns), !.prior = PriorActions] \in Chat
    BY <2>2, <2>3
  <2>5. chat' \in [Chats -> Chat]
    BY <2>1, <2>4 DEF TypeOK
  <2> QED BY <1>1, <2>5 DEF ReadHistory, TypeOK
<1>2. ASSUME NEW m \in Messages, ChatLoad(c, m)
      PROVE  chat' \in [Chats -> Chat] /\ locker' \in Chats \cup {None}
  <2>1. [NoChat EXCEPT !.step = IF titled THEN "started" ELSE "untitled", !.msg = m] \in Chat
    BY DEF NoChat, Chat, ChatSteps
  <2> QED BY <1>2, <2>1 DEF ChatLoad, TypeOK
<1>3. CASE Lookup(c)
  <2>1. chat[c].msg \in Messages
    BY <1>3 DEF Lookup, Sent
  <2> DEFINE reply == cache[chat[c].msg]
             hits == reply # None
             acts == IF hits THEN reply ELSE {}
  <2>2. hits \in BOOLEAN
    OBVIOUS
  <2>3. acts \in SUBSET Actions
    BY <2>1 DEF TypeOK
  <2>4. [chat[c] EXCEPT !.step = "looked", !.hit = hits, !.acts = acts] \in Chat
    BY <1>0, <2>2, <2>3 DEF Chat, ChatSteps
  <2>5. chat' = [chat EXCEPT ![c].step = "looked", ![c].hit = hits, ![c].acts = acts]
    BY <1>3 DEF Lookup
  <2> QED BY <1>3, <2>4, <2>5 DEF Lookup, TypeOK
<1>4. CASE SetTitle(c) \/ TitleFails(c) \/ FindSession(c) \/ CreateFails(c)
           \/ Dispatch(c) \/ StageFails(c) \/ RowGone(c) \/ QueryFails(c)
  <2>1. PICK s \in ChatSteps : Go(c, s)
    BY <1>4 DEF SetTitle, TitleFails, FindSession, CreateFails, Dispatch, StageFails, RowGone,
                QueryFails, Fails, ChatSteps
  <2>2. locker' \in Chats \cup {None}
    BY <1>4 DEF SetTitle, TitleFails, FindSession, CreateFails, Dispatch, StageFails, RowGone,
                QueryFails, Fails, Unlocked, TypeOK
  <2> QED BY <2>1, <2>2, AtStep
<1> QED BY <1>1, <1>2, <1>3, <1>4 DEF Quiet

\* No step leaves the types; a reply's actions come from RepliesTyped.
LEMMA TypeStep ==
    ASSUME TypeOK, Sent, [Next]_vars
    PROVE  TypeOK'
<1>1. ASSUME NEW c \in Chats, Quiet(c) PROVE TypeOK'
  <2>1. chat' \in [Chats -> Chat] /\ locker' \in Chats \cup {None}
    BY <1>1, QuietTyped
  <2>2. UNCHANGED <<row, titled, turns, cache, tap, deletion, restarts>>
    BY <1>1 DEF Quiet, ChatLoad, SetTitle, TitleFails, Lookup, FindSession, CreateFails, ReadHistory,
                Dispatch, StageFails, RowGone, QueryFails, Fails
  <2> QED BY <2>1, <2>2 DEF TypeOK
<1>2. ASSUME NEW c \in Chats, Reject(c) \/ CreateSession(c) PROVE TypeOK'
  <2>1. PICK s \in ChatSteps : Go(c, s)
    BY <1>2 DEF Reject, CreateSession, ChatSteps
  <2>2. chat' \in [Chats -> Chat]
    BY <2>1, AtStep
  <2>3. CASE Reject(c)
    BY <2>2, <2>3 DEF Reject, Unlocked, TypeOK
  <2>4. CASE CreateSession(c)
    BY <2>2, <2>4 DEF CreateSession, Unlocked, TypeOK
  <2> QED BY <1>2, <2>3, <2>4
<1>3. ASSUME NEW c \in Chats, Evaluate(c) PROVE TypeOK'
  <2>1. PICK acts \in Replies(chat[c].prior) :
          /\ chat' = [chat EXCEPT ![c].step = "ready", ![c].acts = acts]
          /\ cache' = [cache EXCEPT ![chat[c].msg] = acts]
    BY <1>3 DEF Evaluate
  <2>2. acts \in SUBSET Actions
    BY RepliesTyped
  <2>3. chat[c] \in Chat
    BY DEF TypeOK
  <2>4. [chat[c] EXCEPT !.step = "ready", !.acts = acts] \in Chat
    BY <2>2, <2>3 DEF Chat, ChatSteps
  <2>5. chat' \in [Chats -> Chat]
    BY <2>1, <2>4 DEF TypeOK
  <2>6. cache' \in [Messages -> (SUBSET Actions) \cup {None}]
    BY <2>1, <2>2 DEF TypeOK
  <2> QED BY <1>3, <2>5, <2>6 DEF Evaluate, TypeOK
<1>4. ASSUME NEW c \in Chats, PersistQuestion(c) \/ Replied(c) PROVE TypeOK'
  <2>1. chat[c] \in Chat
    BY DEF TypeOK
  <2>2. chat[c].no \in Nat /\ chat[c].seen \in Nat /\ chat[c].acts \in SUBSET Actions
    BY <2>1 DEF Chat
  <2>3. PICK kind \in {"question", "fresh", "replay", "fallback"}, acts \in SUBSET Actions :
          Persist(c, kind, acts)
    BY <1>4, <2>2 DEF PersistQuestion, Replied, PersistReplay, PersistReply, PersistFallback,
                Fallback, Actions
  <2>4. [no |-> chat[c].no, kind |-> kind, by |-> c, seen |-> chat[c].seen, acts |-> acts] \in Turn
    BY <2>2 DEF Turn
  <2>5. turns' \in Seq(Turn)
    BY <2>3, <2>4, OneMoreTurn DEF Persist, TypeOK
  <2>6. PICK s \in ChatSteps : Go(c, s)
    BY <1>4 DEF PersistQuestion, Replied, PersistReplay, PersistReply, PersistFallback, ChatSteps
  <2>7. chat' \in [Chats -> Chat]
    BY <2>6, AtStep
  <2> QED BY <2>3, <2>5, <2>7 DEF Persist, Unlocked, TypeOK
<1>5. ASSUME NEW m \in Messages, Expire(m) PROVE TypeOK'
  BY <1>5 DEF Expire, TypeOK
<1>6. ASSUME NEW p \in Taps, TapRead(p) PROVE TypeOK'
  <2>1. PICK n \in Numbers \cup {0} : tap' = [tap EXCEPT ![p] = [step |-> "read", no |-> n + 1]]
    BY <1>6 DEF TapRead
  <2>2. n + 1 \in Nat
    BY ReadTyped DEF TypeOK
  <2>3. ASSUME NEW m \in Nat
        PROVE  [step |-> "read", no |-> m] \in [step : {"idle", "read", "done", "failed", "lost"}, no : Nat]
    OBVIOUS
  <2> QED BY <1>6, <2>1, <2>2, <2>3 DEF TapRead, TypeOK
<1>7. ASSUME NEW p \in Taps, TapCommit(p) PROVE TypeOK'
  <2>1. tap[p].no \in Nat
    BY DEF TypeOK
  <2>2. [no |-> tap[p].no, kind |-> "ack", by |-> p, seen |-> 0, acts |-> {}] \in Turn
    BY <2>1 DEF Turn
  <2>3. turns' \in Seq(Turn)
    BY <1>7, <2>2, OneMoreTurn DEF TapCommit, TypeOK
  <2> QED BY <1>7, <2>3 DEF TapCommit, TypeOK
<1>8. ASSUME NEW p \in Taps, TapFails(p) PROVE TypeOK'
  BY <1>8 DEF TapFails, TypeOK
<1>9. CASE DeleteLoad
  BY <1>9 DEF DeleteLoad, TypeOK
<1>10. CASE DeleteCommit
  <2>1. turns' \in Seq(Turn)
    BY <1>10 DEF DeleteCommit
  <2> QED BY <1>10, <2>1 DEF DeleteCommit, TypeOK
<1>11. CASE Restart
  <2>1. ASSUME NEW c \in Chats
        PROVE  chat[c] \in Chat /\ [chat[c] EXCEPT !.step = "lost"] \in Chat
    BY DEF TypeOK, Chat, ChatSteps
  <2>2. chat' \in [Chats -> Chat]
    BY <1>11, <2>1 DEF Restart
  <2>3. restarts' \in 0 .. MaxRestarts
    BY <1>11, MaxRestartsNat DEF Restart, TypeOK
  <2>4. tap' \in [Taps -> [step : {"idle", "read", "done", "failed", "lost"}, no : Nat]]
    BY <1>11 DEF Restart, TypeOK
  <2> QED BY <1>11, <2>2, <2>3, <2>4 DEF Restart, TypeOK
<1>12. CASE UNCHANGED vars
  BY <1>12 DEF vars, TypeOK
<1> QED BY <1>1, <1>2, <1>3, <1>4, <1>5, <1>6, <1>7, <1>8, <1>9, <1>10, <1>11, <1>12, NextCases

\* What a step does to the request that takes it, and to the others nothing.
LEMMA Going ==
    ASSUME TypeOK, NEW c \in Chats, NEW s \in ChatSteps, Go(c, s)
    PROVE  /\ chat'[c].step = s
           /\ chat'[c].msg = chat[c].msg /\ chat'[c].no = chat[c].no
           /\ chat'[c].seen = chat[c].seen /\ chat'[c].prior = chat[c].prior
           /\ chat'[c].acts = chat[c].acts
           /\ \A d \in Chats \ {c} : chat'[d] = chat[d]
<1>1. chat[c] \in Chat /\ chat' = [chat EXCEPT ![c].step = s] /\ chat \in [Chats -> Chat]
  BY DEF TypeOK, Go
<1> QED BY <1>1 DEF Chat

\* Where ChatLoad takes its request.
LEMMA Loading ==
    ASSUME TypeOK, NEW c \in Chats, NEW m \in Messages, ChatLoad(c, m)
    PROVE  /\ chat'[c].step \in {"started", "untitled"} /\ chat'[c].msg = m
           /\ \A d \in Chats \ {c} : chat'[d] = chat[d]
<1>1. chat' = [chat EXCEPT ![c] =
          [NoChat EXCEPT !.step = IF titled THEN "started" ELSE "untitled", !.msg = m]]
  BY DEF ChatLoad
<1>2. chat \in [Chats -> Chat]
  BY DEF TypeOK
<1> QED BY <1>1, <1>2 DEF NoChat

\* Where Lookup takes its request.
LEMMA Looking ==
    ASSUME TypeOK, NEW c \in Chats, Lookup(c)
    PROVE  /\ chat'[c].step = "looked" /\ chat'[c].msg = chat[c].msg
           /\ \A d \in Chats \ {c} : chat'[d] = chat[d]
<1> DEFINE reply == cache[chat[c].msg]
           hits == reply # None
           acts == IF hits THEN reply ELSE {}
<1>1. chat[c] \in Chat /\ chat \in [Chats -> Chat]
  BY DEF TypeOK
<1>2. chat' = [chat EXCEPT ![c].step = "looked", ![c].hit = hits, ![c].acts = acts]
  BY DEF Lookup
<1> HIDE DEF hits, acts
<1> QED BY <1>1, <1>2 DEF Chat

\* What a request takes from the turns when it reads the history.
LEMMA Reading ==
    ASSUME TypeOK, NEW c \in Chats, ReadHistory(c)
    PROVE  /\ chat'[c].step = "read" /\ chat'[c].msg = chat[c].msg
           /\ chat'[c].seen = Len(turns) /\ chat'[c].prior = PriorActions
           /\ \E n \in Numbers \cup {0} : chat'[c].no = n + 1
           /\ \A d \in Chats \ {c} : chat'[d] = chat[d]
<1>1. PICK n \in Numbers \cup {0} :
        chat' = [chat EXCEPT ![c].step = "read", ![c].no = n + 1,
                             ![c].seen = Len(turns), ![c].prior = PriorActions]
  BY DEF ReadHistory
<1>2. chat[c] \in Chat /\ chat \in [Chats -> Chat]
  BY DEF TypeOK
<1>3. ASSUME NEW k, NEW l, NEW A,
             chat' = [chat EXCEPT ![c].step = "read", ![c].no = k, ![c].seen = l, ![c].prior = A]
      PROVE  /\ chat'[c].step = "read" /\ chat'[c].msg = chat[c].msg
             /\ chat'[c].seen = l /\ chat'[c].prior = A /\ chat'[c].no = k
             /\ \A d \in Chats \ {c} : chat'[d] = chat[d]
  BY <1>2, <1>3 DEF Chat
<1> QED BY <1>1, <1>3

\* Stages 2 and 3 give the request its reply, and keep what it read.
LEMMA Evaluating ==
    ASSUME TypeOK, NEW c \in Chats, Evaluate(c)
    PROVE  /\ chat'[c].step = "ready" /\ chat'[c].msg = chat[c].msg /\ chat'[c].no = chat[c].no
           /\ chat'[c].seen = chat[c].seen /\ chat'[c].prior = chat[c].prior
           /\ chat'[c].acts \in Replies(chat[c].prior)
           /\ \A d \in Chats \ {c} : chat'[d] = chat[d]
<1>1. PICK acts \in Replies(chat[c].prior) : chat' = [chat EXCEPT ![c].step = "ready", ![c].acts = acts]
  BY DEF Evaluate
<1>2. chat[c] \in Chat /\ chat \in [Chats -> Chat]
  BY DEF TypeOK
<1>3. /\ chat'[c].step = "ready" /\ chat'[c].msg = chat[c].msg /\ chat'[c].no = chat[c].no
      /\ chat'[c].seen = chat[c].seen /\ chat'[c].prior = chat[c].prior
      /\ chat'[c].acts = acts
      /\ \A d \in Chats \ {c} : chat'[d] = chat[d]
  BY <1>1, <1>2 DEF Chat
<1> QED BY <1>3

\* The steps that only move a request on, from where to where.
Moved(c) ==
    \/ chat[c].step = "untitled" /\ Go(c, "started")
    \/ chat[c].step = "looked" /\ (Go(c, "missing") \/ Go(c, "found"))
    \/ chat[c].step = "asked" /\ Go(c, "dispatched")
    \/ chat[c].step \in {"asked", "dispatched"} /\ Go(c, "excused")
    \/ chat[c].step # "idle" /\ (Go(c, "failed") \/ Go(c, "rejected"))

\* A quiet step moves its request on, or is one of the three that also set
\* other fields of it.
LEMMA MoveCases ==
    ASSUME NEW c \in Chats, Quiet(c) \/ Reject(c)
    PROVE  Moved(c) \/ Lookup(c) \/ ReadHistory(c) \/ \E m \in Messages : ChatLoad(c, m)
  BY DEF Quiet, Moved, SetTitle, TitleFails, FindSession, CreateFails, Dispatch, StageFails, RowGone,
         QueryFails, Fails, Reject

\* No step takes the message from a request that was sent.
LEMMA SentStep ==
    ASSUME TypeOK, Sent, [Next]_vars
    PROVE  Sent'
<1>1. ASSUME NEW c \in Chats, Moved(c) PROVE Sent'
  <2>1. PICK s \in ChatSteps : Go(c, s) /\ chat[c].step # "idle"
    BY <1>1 DEF Moved, ChatSteps
  <2> QED BY <2>1, Going DEF Sent
<1>2. ASSUME NEW c \in Chats, NEW m \in Messages, ChatLoad(c, m) PROVE Sent'
  BY <1>2, Loading DEF Sent
<1>3. ASSUME NEW c \in Chats, Lookup(c) PROVE Sent'
  <2>1. chat[c].step = "started"
    BY <1>3 DEF Lookup
  <2> QED BY <1>3, <2>1, Looking DEF Sent
<1>4. ASSUME NEW c \in Chats, ReadHistory(c) PROVE Sent'
  <2>1. chat[c].step = "found"
    BY <1>4 DEF ReadHistory
  <2> QED BY <1>4, <2>1, Reading DEF Sent
<1>5. ASSUME NEW c \in Chats, Evaluate(c) PROVE Sent'
  <2>1. chat[c].step = "dispatched"
    BY <1>5 DEF Evaluate
  <2> QED BY <1>5, <2>1, Evaluating DEF Sent
<1>6. ASSUME NEW c \in Chats, CreateSession(c) \/ PersistQuestion(c) \/ Replied(c) PROVE Sent'
  <2>1. PICK s \in ChatSteps : Go(c, s) /\ chat[c].step # "idle"
    BY <1>6 DEF CreateSession, PersistQuestion, Replied, PersistReplay, PersistReply, PersistFallback,
                ChatSteps
  <2> QED BY <2>1, Going DEF Sent
<1>7. CASE Restart
  <2>1. ASSUME NEW c \in Chats
        PROVE  chat'[c].msg = chat[c].msg /\ (chat[c].step = "idle" => chat'[c].step = "idle")
    <3>1. chat[c] \in Chat
      BY DEF TypeOK
    <3>2. chat'[c] = IF chat[c].step \in Ended \cup {"idle"} THEN chat[c] ELSE [chat[c] EXCEPT !.step = "lost"]
      BY <1>7 DEF Restart
    <3> QED BY <3>1, <3>2 DEF Chat, Ended
  <2> QED BY <2>1 DEF Sent
<1>8. CASE UNCHANGED chat
  BY <1>8 DEF Sent
<1> QED BY <1>1, <1>2, <1>3, <1>4, <1>5, <1>6, <1>7, <1>8, NextCases, MoveCases
        DEF Expire, TapRead, TapCommit, TapFails, DeleteLoad, DeleteCommit, vars

\* Every reachable state of a chat session is well typed.
THEOREM ChatTyped == Spec => [](TypeOK /\ Sent)
<1>1. Init => TypeOK
  <2>1. NoChat \in Chat
    BY DEF NoChat, Chat, ChatSteps
  <2> SUFFICES ASSUME Init PROVE TypeOK
    OBVIOUS
  <2>2. chat \in [Chats -> Chat]
    BY <2>1 DEF Init
  <2>3. tap \in [Taps -> [step : {"idle", "read", "done", "failed", "lost"}, no : Nat]]
    BY DEF Init
  <2>4. turns \in Seq(Turn) /\ restarts \in 0 .. MaxRestarts
    BY MaxRestartsNat DEF Init
  <2> QED BY <2>2, <2>3, <2>4 DEF Init, TypeOK
<1>2. Init => Sent
  BY DEF Init, Sent, NoChat
<1>3. TypeOK /\ Sent /\ [Next]_vars => (TypeOK /\ Sent)'
  BY TypeStep, SentStep
<1> QED BY <1>1, <1>2, <1>3, PTL DEF Spec

\* A session its user deleted never comes back to him.
THEOREM DeletionIsFinal == Spec => []DeletedStaysHidden
<1>1. Init => DeletedStaysHidden
  BY DEF Init, DeletedStaysHidden
<1>2. DeletedStaysHidden /\ [Next]_vars => DeletedStaysHidden'
  <2> SUFFICES ASSUME DeletedStaysHidden, [Next]_vars PROVE DeletedStaysHidden'
    OBVIOUS
  <2>1. ASSUME NEW c \in Chats, Quiet(c) \/ Reject(c) \/ Evaluate(c)
        PROVE  UNCHANGED <<row, deletion>>
    BY <2>1 DEF Quiet, ChatLoad, SetTitle, TitleFails, Lookup, FindSession, CreateFails, ReadHistory,
                Dispatch, StageFails, RowGone, QueryFails, Fails, Reject, Evaluate
  <2>2. ASSUME NEW c \in Chats, PersistQuestion(c) \/ Replied(c) PROVE UNCHANGED <<row, deletion>>
    BY <2>2 DEF PersistQuestion, Replied, PersistReplay, PersistReply, PersistFallback, Persist
  <2>3. ASSUME NEW p \in Taps, TapRead(p) \/ TapCommit(p) \/ TapFails(p) PROVE UNCHANGED <<row, deletion>>
    BY <2>3 DEF TapRead, TapCommit, TapFails
  <2> QED BY <2>1, <2>2, <2>3, NextCases
        DEF DeletedStaysHidden, CreateSession, Expire, DeleteLoad, DeleteCommit, Restart, vars
<1> QED BY <1>1, <1>2, PTL DEF Spec

-----------------------------------------------------------------------------
(* The transcript of an owned session.                                     *)

\* The steps of a request that write no turn.
Talked(c) ==
    \/ Moved(c) \/ Lookup(c) \/ ReadHistory(c) \/ Evaluate(c)
    \/ \E m \in Messages : ChatLoad(c, m)

\* A session that is owned after a step was owned before it: only the steps
\* below were taken, and each appends one turn or none.
LEMMA OwnedCases ==
    ASSUME [Next]_vars, row' = "owned"
    PROVE  /\ row = "owned"
           /\ \/ \E c \in Chats : Talked(c) /\ UNCHANGED <<turns, tap>>
              \/ \E c \in Chats : PersistQuestion(c) \/ Replied(c)
              \/ \E p \in Taps : TapRead(p) \/ TapCommit(p) \/ TapFails(p)
              \/ Restart
              \/ UNCHANGED <<turns, chat, tap>>
<1>1. ASSUME NEW c \in Chats, Quiet(c) \/ Reject(c) \/ Evaluate(c)
      PROVE  Talked(c) /\ UNCHANGED <<row, turns, tap>>
  <2>1. UNCHANGED <<row, turns, tap>>
    BY <1>1 DEF Quiet, ChatLoad, SetTitle, TitleFails, Lookup, FindSession, CreateFails, ReadHistory,
                Dispatch, StageFails, RowGone, QueryFails, Fails, Reject, Evaluate
  <2> QED BY <1>1, <2>1, MoveCases DEF Talked
<1>2. ASSUME NEW c \in Chats, PersistQuestion(c) \/ Replied(c) PROVE UNCHANGED row
  BY <1>2 DEF PersistQuestion, Replied, PersistReplay, PersistReply, PersistFallback, Persist
<1>3. ASSUME NEW p \in Taps, TapRead(p) \/ TapCommit(p) \/ TapFails(p) PROVE UNCHANGED row
  BY <1>3 DEF TapRead, TapCommit, TapFails
<1> QED BY <1>1, <1>2, <1>3, NextCases
        DEF CreateSession, Expire, DeleteLoad, DeleteCommit, Restart, vars

\* One turn more, at the end.
Grown(t) ==
    /\ Len(turns) \in Nat /\ Len(turns') = Len(turns) + 1
    /\ DOMAIN turns = 1 .. Len(turns) /\ DOMAIN turns' = 1 .. Len(turns) + 1
    /\ \A i \in DOMAIN turns : turns'[i] = turns[i]
    /\ turns'[Len(turns) + 1] = t

\* The turn of a request, and that of a tap.
TurnOf(c, kind, acts) ==
    [no |-> chat[c].no, kind |-> kind, by |-> c, seen |-> chat[c].seen, acts |-> acts]
AckOf(p) == [no |-> tap[p].no, kind |-> "ack", by |-> p, seen |-> 0, acts |-> {}]

\* Persist appends the turn of its request.
LEMMA Persisting ==
    ASSUME TypeOK, NEW c \in Chats, NEW acts \in SUBSET Actions,
           NEW kind, kind \in {"question", "fresh", "replay", "fallback"},
           Persist(c, kind, acts)
    PROVE  Grown(TurnOf(c, kind, acts)) /\ UNCHANGED tap
<1>1. chat[c].no \in Nat /\ chat[c].seen \in Nat
  BY DEF TypeOK, Chat
<1>2. TurnOf(c, kind, acts) \in Turn
  BY <1>1 DEF Turn, TurnOf
<1>3. turns \in Seq(Turn) /\ turns' = Append(turns, TurnOf(c, kind, acts)) /\ UNCHANGED tap
  BY DEF Persist, TypeOK, TurnOf
<1> QED BY <1>2, <1>3, OneMoreTurn DEF Grown

\* A tap's commit appends the acknowledgment.
LEMMA Tapping ==
    ASSUME TypeOK, NEW p \in Taps, TapCommit(p)
    PROVE  Grown(AckOf(p)) /\ UNCHANGED chat
<1>1. tap[p].no \in Nat
  BY DEF TypeOK
<1>2. AckOf(p) \in Turn
  BY <1>1 DEF Turn, AckOf
<1>3. turns \in Seq(Turn) /\ turns' = Append(turns, AckOf(p)) /\ UNCHANGED chat
  BY DEF TapCommit, TypeOK, AckOf
<1> QED BY <1>2, <1>3, OneMoreTurn DEF Grown

\* A reply is what its request holds, or the fallback, and ends the request.
LEMMA Replying ==
    ASSUME TypeOK, NEW c \in Chats, Replied(c)
    PROVE  /\ chat[c].step \in Asked /\ chat'[c].step = "done"
           /\ \A d \in Chats \ {c} : chat'[d] = chat[d]
           /\ \E kind \in {"fresh", "replay", "fallback"}, acts \in SUBSET Actions :
                 /\ Persist(c, kind, acts)
                 /\ kind = "fresh" => chat[c].step = "ready" /\ acts = chat[c].acts
<1>1. Go(c, "done") /\ chat[c].step \in Asked
  BY DEF Replied, PersistReplay, PersistReply, PersistFallback, Asked
<1>2. chat[c].acts \in SUBSET Actions
  BY DEF TypeOK, Chat
<1>3. \E kind \in {"fresh", "replay", "fallback"}, acts \in SUBSET Actions :
        /\ Persist(c, kind, acts)
        /\ kind = "fresh" => chat[c].step = "ready" /\ acts = chat[c].acts
  BY <1>2 DEF Replied, PersistReplay, PersistReply, PersistFallback, Fallback, Actions
<1> QED BY <1>1, <1>3, Going DEF ChatSteps

\* The turn a reply appends.
LEMMA ReplyGrows ==
    ASSUME TypeOK, NEW c \in Chats, Replied(c)
    PROVE  \E t : /\ Grown(t) /\ UNCHANGED tap
                  /\ t.by = c /\ t.no = chat[c].no /\ t.seen = chat[c].seen
                  /\ t.kind \in {"fresh", "replay", "fallback"}
                  /\ t.kind = "fresh" => chat[c].step = "ready" /\ t.acts = chat[c].acts
<1>1. PICK kind \in {"fresh", "replay", "fallback"}, acts \in SUBSET Actions :
        /\ Persist(c, kind, acts)
        /\ kind = "fresh" => chat[c].step = "ready" /\ acts = chat[c].acts
  BY Replying
<1>2. kind \in {"question", "fresh", "replay", "fallback"}
  OBVIOUS
<1>3. Grown(TurnOf(c, kind, acts)) /\ UNCHANGED tap
  BY <1>1, <1>2, Persisting
<1>4. /\ TurnOf(c, kind, acts).by = c /\ TurnOf(c, kind, acts).no = chat[c].no
      /\ TurnOf(c, kind, acts).seen = chat[c].seen /\ TurnOf(c, kind, acts).kind = kind
      /\ TurnOf(c, kind, acts).acts = acts
  BY DEF TurnOf
<1> QED BY <1>1, <1>3, <1>4

\* The question takes its request from "read" to "asked".
LEMMA Asking ==
    ASSUME TypeOK, NEW c \in Chats, PersistQuestion(c)
    PROVE  /\ chat[c].step = "read" /\ chat'[c].step = "asked" /\ Persist(c, "question", {})
           /\ chat'[c].no = chat[c].no /\ chat'[c].seen = chat[c].seen /\ chat'[c].prior = chat[c].prior
           /\ \A d \in Chats \ {c} : chat'[d] = chat[d]
  BY Going DEF PersistQuestion, ChatSteps

\* The turn a question appends.
LEMMA AskGrows ==
    ASSUME TypeOK, NEW c \in Chats, PersistQuestion(c)
    PROVE  Grown(TurnOf(c, "question", {})) /\ UNCHANGED tap
<1>1. Persist(c, "question", {}) /\ {} \in SUBSET Actions
  BY Asking
<1> QED BY <1>1, Persisting

\* A restart loses a request or leaves it.
LEMMA Restarting ==
    ASSUME TypeOK, Restart, NEW c \in Chats
    PROVE  chat'[c] = chat[c] \/ chat'[c].step = "lost"
<1>1. chat[c] \in Chat
  BY DEF TypeOK
<1>2. chat'[c] = IF chat[c].step \in Ended \cup {"idle"} THEN chat[c] ELSE [chat[c] EXCEPT !.step = "lost"]
  BY DEF Restart
<1> QED BY <1>1, <1>2 DEF Chat

\* Where a step that writes nothing takes a request.
LEMMA Talking ==
    ASSUME TypeOK, NEW c \in Chats, Talked(c)
    PROVE  /\ chat'[c].step \in Unasked => chat[c].step \in Unasked
           /\ chat'[c].step \in Asked => chat[c].step \in Asked /\ chat'[c].no = chat[c].no
           /\ \A d \in Chats \ {c} : chat'[d] = chat[d]
<1>1. CASE Moved(c)
  <2>1. PICK s \in ChatSteps : Go(c, s) /\ (s \in Unasked => chat[c].step \in Unasked)
                               /\ (s \in Asked => chat[c].step \in Asked)
    BY <1>1 DEF Moved, ChatSteps, Unasked, Asked
  <2> QED BY <2>1, Going
<1>2. CASE \E m \in Messages : ChatLoad(c, m)
  <2>1. chat[c].step = "idle"
    BY <1>2 DEF ChatLoad
  <2> QED BY <1>2, <2>1, Loading DEF Unasked, Asked
<1>3. CASE Lookup(c)
  <2>1. chat[c].step = "started"
    BY <1>3 DEF Lookup
  <2> QED BY <1>3, <2>1, Looking DEF Unasked, Asked
<1>4. CASE ReadHistory(c)
  <2>1. chat[c].step = "found"
    BY <1>4 DEF ReadHistory
  <2> QED BY <1>4, <2>1, Reading DEF Unasked, Asked
<1>5. CASE Evaluate(c)
  <2>1. chat[c].step = "dispatched"
    BY <1>5 DEF Evaluate
  <2> QED BY <1>5, <2>1, Evaluating DEF Unasked, Asked
<1> QED BY <1>1, <1>2, <1>3, <1>4, <1>5 DEF Talked

\* Steps keep to Wrote: a question is written once, a reply ends its request.
LEMMA WroteStep ==
    ASSUME TypeOK, Wrote, [Next]_vars
    PROVE  Wrote'
<1> SUFFICES ASSUME row' = "owned" PROVE Wrote'
  BY DEF Wrote
<1>0. row = "owned"
  BY OwnedCases
<1>1. ASSUME NEW c \in Chats, Talked(c), UNCHANGED turns PROVE Wrote'
  BY <1>0, <1>1, Talking DEF Wrote
<1>2. ASSUME NEW c \in Chats, PersistQuestion(c) PROVE Wrote'
  <2>1. /\ chat[c].step \in Unasked /\ chat'[c].step \in Asked /\ chat'[c].step \notin Unasked
        /\ chat'[c].no = chat[c].no
        /\ \A d \in Chats \ {c} : chat'[d] = chat[d]
    BY <1>2, Asking DEF Unasked, Asked
  <2>2. Grown(TurnOf(c, "question", {}))
    BY <1>2, AskGrows
  <2> QED BY <1>0, <2>1, <2>2 DEF Wrote, Grown, TurnOf
<1>3. ASSUME NEW c \in Chats, Replied(c) PROVE Wrote'
  <2>1. PICK t : Grown(t) /\ t.by = c
    BY <1>3, ReplyGrows
  <2>2. chat'[c].step \notin Unasked \cup Asked /\ \A d \in Chats \ {c} : chat'[d] = chat[d]
    BY <1>3, Replying DEF Unasked, Asked
  <2> QED BY <1>0, <2>1, <2>2 DEF Wrote, Grown
<1>4. ASSUME NEW p \in Taps, TapCommit(p) PROVE Wrote'
  <2>1. Grown(AckOf(p)) /\ UNCHANGED chat
    BY <1>4, Tapping
  <2>2. p \notin Chats
    BY ChatsNotTaps
  <2> QED BY <1>0, <2>1, <2>2 DEF Wrote, Grown, AckOf
<1>5. CASE Restart
  <2>1. UNCHANGED turns
    BY <1>5 DEF Restart
  <2>2. ASSUME NEW c \in Chats PROVE chat'[c] = chat[c] \/ chat'[c].step \notin Unasked \cup Asked
    BY <1>5, Restarting DEF Unasked, Asked
  <2> QED BY <1>0, <2>1, <2>2 DEF Wrote
<1>6. CASE UNCHANGED <<turns, chat>>
  BY <1>0, <1>6 DEF Wrote
<1> QED BY <1>1, <1>2, <1>3, <1>4, <1>5, <1>6, OwnedCases DEF TapRead, TapFails

\* The number and the history of a request come from its read of the turns.
LEMMA Keeping ==
    ASSUME TypeOK, NEW c \in Chats, Talked(c), chat'[c].step \in Numbered
    PROVE  \/ /\ chat'[c].seen = Len(turns) /\ chat'[c].prior = PriorActions
              /\ \E n \in Numbers \cup {0} : chat'[c].no = n + 1
           \/ /\ chat[c].step \in Numbered /\ chat'[c].no = chat[c].no
              /\ chat'[c].seen = chat[c].seen /\ chat'[c].prior = chat[c].prior
<1>1. CASE Moved(c)
  <2>1. PICK s \in ChatSteps : Go(c, s) /\ (s \in Numbered => chat[c].step \in Numbered)
    BY <1>1 DEF Moved, ChatSteps, Numbered, Asked
  <2> QED BY <2>1, Going
<1>2. CASE \E m \in Messages : ChatLoad(c, m)
  BY <1>2, Loading DEF Numbered, Asked
<1>3. CASE Lookup(c)
  BY <1>3, Looking DEF Numbered, Asked
<1>4. CASE ReadHistory(c)
  BY <1>4, Reading
<1>5. CASE Evaluate(c)
  <2>1. chat[c].step = "dispatched"
    BY <1>5 DEF Evaluate
  <2> QED BY <1>5, <2>1, Evaluating DEF Numbered, Asked
<1> QED BY <1>1, <1>2, <1>3, <1>4, <1>5 DEF Talked

\* A turn more takes no number away.
LEMMA FollowsStays ==
    ASSUME NEW t, Grown(t)
    PROVE  \A n : Follows(n) => (n > 1 => \E i \in DOMAIN turns' : turns'[i].no = n - 1)
  BY DEF Grown, Follows

\* Steps keep to NumbersFollow: a number is read off the turns, and they stay.
LEMMA NumbersStep ==
    ASSUME TypeOK, NumbersFollow, [Next]_vars
    PROVE  NumbersFollow'
<1> SUFFICES ASSUME row' = "owned" PROVE NumbersFollow'
  BY DEF NumbersFollow
<1>0. row = "owned"
  BY OwnedCases
<1>n. Numbers \subseteq Nat
  BY ReadTyped DEF TypeOK
<1>p. \A n \in Numbers \cup {0} : Follows(n + 1)
  BY <1>n DEF Numbers, Follows
<1>1. ASSUME NEW c \in Chats, Talked(c), UNCHANGED <<turns, tap>> PROVE NumbersFollow'
  <2>1. chat'[c].step \in Numbered => Follows(chat'[c].no)
    BY <1>0, <1>1, <1>p, Keeping DEF NumbersFollow
  <2>2. \A d \in Chats \ {c} : chat'[d] = chat[d]
    BY <1>1, Talking
  <2> QED BY <1>0, <1>1, <2>1, <2>2 DEF NumbersFollow, Follows
<1>2. ASSUME NEW c \in Chats, PersistQuestion(c) \/ Replied(c) PROVE NumbersFollow'
  <2>1. PICK t : Grown(t) /\ UNCHANGED tap
    BY <1>2, AskGrows, ReplyGrows
  <2>2. chat'[c].step \in Numbered => chat[c].step \in Numbered /\ chat'[c].no = chat[c].no
    BY <1>2, Asking, Replying DEF Numbered, Asked
  <2>3. \A d \in Chats \ {c} : chat'[d] = chat[d]
    BY <1>2, Asking, Replying
  <2>4. \A n : Follows(n) => (n > 1 => \E i \in DOMAIN turns' : turns'[i].no = n - 1)
    BY <2>1, FollowsStays
  <2>5. ASSUME NEW d \in Chats, chat'[d].step \in Numbered PROVE Follows(chat'[d].no)
    BY <1>0, <2>2, <2>3, <2>5 DEF NumbersFollow
  <2>6. ASSUME NEW q \in Taps, tap'[q].step = "read" PROVE Follows(tap'[q].no)
    BY <1>0, <2>1, <2>6 DEF NumbersFollow
  <2>7. /\ \A d \in Chats : chat'[d].step \in Numbered =>
              (chat'[d].no > 1 => \E i \in DOMAIN turns' : turns'[i].no = chat'[d].no - 1)
        /\ \A q \in Taps : tap'[q].step = "read" =>
              (tap'[q].no > 1 => \E i \in DOMAIN turns' : turns'[i].no = tap'[q].no - 1)
    BY <2>4, <2>5, <2>6
  <2> QED BY <2>7 DEF NumbersFollow, Follows
<1>3. ASSUME NEW p \in Taps, TapRead(p) PROVE NumbersFollow'
  <2>1. PICK n \in Numbers \cup {0} : tap' = [tap EXCEPT ![p] = [step |-> "read", no |-> n + 1]]
    BY <1>3 DEF TapRead
  <2>2. Follows(n + 1) /\ tap'[p].no = n + 1
    BY <1>p, <2>1 DEF TypeOK
  <2>3. \A q \in Taps \ {p} : tap'[q] = tap[q]
    BY <2>1 DEF TypeOK
  <2>4. UNCHANGED <<turns, chat>>
    BY <1>3 DEF TapRead
  <2>5. \A q \in Taps : tap'[q].step = "read" => Follows(tap'[q].no)
    BY <1>0, <2>2, <2>3 DEF NumbersFollow
  <2> QED BY <1>0, <2>4, <2>5 DEF NumbersFollow, Follows
<1>4. ASSUME NEW p \in Taps, TapCommit(p) PROVE NumbersFollow'
  <2>1. Grown(AckOf(p)) /\ UNCHANGED chat
    BY <1>4, Tapping
  <2>2. tap'[p].step = "done" /\ \A q \in Taps \ {p} : tap'[q] = tap[q]
    BY <1>4 DEF TapCommit, TypeOK
  <2>4. \A n : Follows(n) => (n > 1 => \E i \in DOMAIN turns' : turns'[i].no = n - 1)
    BY <2>1, FollowsStays
  <2>5. ASSUME NEW d \in Chats, chat'[d].step \in Numbered PROVE Follows(chat'[d].no)
    BY <1>0, <2>1, <2>5 DEF NumbersFollow
  <2>6. ASSUME NEW q \in Taps, tap'[q].step = "read" PROVE Follows(tap'[q].no)
    BY <1>0, <2>2, <2>6 DEF NumbersFollow
  <2>7. /\ \A d \in Chats : chat'[d].step \in Numbered =>
              (chat'[d].no > 1 => \E i \in DOMAIN turns' : turns'[i].no = chat'[d].no - 1)
        /\ \A q \in Taps : tap'[q].step = "read" =>
              (tap'[q].no > 1 => \E i \in DOMAIN turns' : turns'[i].no = tap'[q].no - 1)
    BY <2>4, <2>5, <2>6
  <2> QED BY <2>7 DEF NumbersFollow, Follows
<1>5. ASSUME NEW p \in Taps, TapFails(p) PROVE NumbersFollow'
  <2>1. tap'[p].step = "failed" /\ \A q \in Taps \ {p} : tap'[q] = tap[q]
    BY <1>5 DEF TapFails, TypeOK
  <2> QED BY <1>0, <1>5, <2>1 DEF TapFails, NumbersFollow, Follows
<1>6. CASE Restart
  <2>1. ASSUME NEW c \in Chats PROVE chat'[c] = chat[c] \/ chat'[c].step \notin Numbered
    BY <1>6, Restarting DEF Numbered, Asked
  <2>2. ASSUME NEW p \in Taps PROVE tap'[p] = tap[p] \/ tap'[p].step = "lost"
    BY <1>6 DEF Restart, TypeOK
  <2>3. UNCHANGED turns
    BY <1>6 DEF Restart
  <2> QED BY <1>0, <2>1, <2>2, <2>3 DEF NumbersFollow, Follows
<1>7. CASE UNCHANGED <<turns, chat, tap>>
  BY <1>0, <1>7 DEF NumbersFollow, Follows
<1> QED BY <1>1, <1>2, <1>3, <1>4, <1>5, <1>6, <1>7, OwnedCases

\* A turn whose number follows one that is there leaves no gap.
LEMMA GaplessStep ==
    ASSUME TypeOK, NumbersFollow, NoGaps, [Next]_vars
    PROVE  NoGaps'
<1> SUFFICES ASSUME row' = "owned" PROVE NoGaps'
  BY DEF NoGaps
<1>0. row = "owned"
  BY OwnedCases
<1>1. ASSUME NEW t, Grown(t), Follows(t.no) PROVE NoGaps'
  <2>1. ASSUME NEW i \in DOMAIN turns', turns'[i].no > 1
        PROVE  \E j \in 1 .. i : turns'[j].no = turns'[i].no - 1
    <3>1. CASE i \in DOMAIN turns
      <4>1. PICK j \in 1 .. i : turns[j].no = turns[i].no - 1
        BY <1>0, <1>1, <2>1, <3>1 DEF NoGaps, Grown
      <4>2. j \in DOMAIN turns
        BY <1>1, <3>1 DEF Grown
      <4> QED BY <1>1, <3>1, <4>1, <4>2 DEF Grown
    <3>2. CASE i = Len(turns) + 1
      <4>1. PICK j \in DOMAIN turns : turns[j].no = t.no - 1
        BY <1>1, <2>1, <3>2 DEF Grown, Follows
      <4> QED BY <1>1, <3>2, <4>1 DEF Grown
    <3> QED BY <1>1, <3>1, <3>2 DEF Grown
  <2> QED BY <2>1 DEF NoGaps
<1>2. ASSUME NEW c \in Chats, PersistQuestion(c) PROVE NoGaps'
  <2>1. Follows(chat[c].no)
    BY <1>0, <1>2, Asking DEF NumbersFollow, Numbered
  <2>2. Grown(TurnOf(c, "question", {})) /\ TurnOf(c, "question", {}).no = chat[c].no
    BY <1>2, AskGrows DEF TurnOf
  <2> QED BY <1>1, <2>1, <2>2
<1>3. ASSUME NEW c \in Chats, Replied(c) PROVE NoGaps'
  <2>1. Follows(chat[c].no)
    BY <1>0, <1>3, Replying DEF NumbersFollow, Numbered
  <2>2. PICK t : Grown(t) /\ t.no = chat[c].no
    BY <1>3, ReplyGrows
  <2> QED BY <1>1, <2>1, <2>2
<1>4. ASSUME NEW p \in Taps, TapCommit(p) PROVE NoGaps'
  <2>1. Follows(tap[p].no)
    BY <1>0, <1>4 DEF NumbersFollow, TapCommit
  <2>2. Grown(AckOf(p)) /\ AckOf(p).no = tap[p].no
    BY <1>4, Tapping DEF AckOf
  <2> QED BY <1>1, <2>1, <2>2
<1>5. CASE UNCHANGED turns
  BY <1>0, <1>5 DEF NoGaps
<1> QED BY <1>2, <1>3, <1>4, <1>5, OwnedCases DEF TapRead, TapFails, Restart

\* A reply finds its question, and no other reply of its request.
LEMMA AnswersStep ==
    ASSUME TypeOK, Wrote, RepliesAnswerQuestions, [Next]_vars
    PROVE  RepliesAnswerQuestions'
<1> DEFINE kinds == {"fresh", "replay", "fallback"}
<1> SUFFICES ASSUME row' = "owned" PROVE RepliesAnswerQuestions'
  BY DEF RepliesAnswerQuestions
<1>0. row = "owned"
  BY OwnedCases
<1>1. ASSUME NEW t, Grown(t),
             t.kind \in kinds =>
                /\ \E j \in DOMAIN turns :
                      turns[j].kind = "question" /\ turns[j].by = t.by /\ turns[j].no = t.no
                /\ \A j \in DOMAIN turns : turns[j].by = t.by => turns[j].kind = "question"
      PROVE  RepliesAnswerQuestions'
  <2>1. ASSUME NEW i \in DOMAIN turns', turns'[i].kind \in kinds
        PROVE  /\ \E j \in 1 .. i - 1 :
                     turns'[j].kind = "question" /\ turns'[j].by = turns'[i].by
                         /\ turns'[j].no = turns'[i].no
               /\ \A j \in 1 .. i - 1 : turns'[j].by = turns'[i].by => turns'[j].kind = "question"
    <3>1. CASE i \in DOMAIN turns
      <4>1. \A j \in 1 .. i - 1 : turns'[j] = turns[j]
        BY <1>1, <3>1 DEF Grown
      <4>2. turns'[i] = turns[i]
        BY <1>1, <3>1 DEF Grown
      <4> QED BY <1>0, <2>1, <3>1, <4>1, <4>2 DEF RepliesAnswerQuestions
    <3>2. CASE i = Len(turns) + 1
      <4>1. turns'[i] = t /\ 1 .. i - 1 = DOMAIN turns
        BY <1>1, <3>2 DEF Grown
      <4>2. \A j \in DOMAIN turns : turns'[j] = turns[j]
        BY <1>1 DEF Grown
      <4>3. /\ \E j \in DOMAIN turns :
                  turns[j].kind = "question" /\ turns[j].by = t.by /\ turns[j].no = t.no
            /\ \A j \in DOMAIN turns : turns[j].by = t.by => turns[j].kind = "question"
        BY <1>1, <2>1, <4>1
      <4>4. /\ \E j \in DOMAIN turns :
                  turns'[j].kind = "question" /\ turns'[j].by = t.by /\ turns'[j].no = t.no
            /\ \A j \in DOMAIN turns : turns'[j].by = t.by => turns'[j].kind = "question"
        BY <4>2, <4>3, Zenon
      <4> QED BY <4>1, <4>4, Zenon
    <3> QED BY <1>1, <3>1, <3>2 DEF Grown
  <2> QED BY <2>1 DEF RepliesAnswerQuestions
<1>2. ASSUME NEW c \in Chats, PersistQuestion(c) PROVE RepliesAnswerQuestions'
  <2>1. Grown(TurnOf(c, "question", {})) /\ TurnOf(c, "question", {}).kind = "question"
    BY <1>2, AskGrows DEF TurnOf
  <2> QED BY <1>1, <2>1
<1>3. ASSUME NEW c \in Chats, Replied(c) PROVE RepliesAnswerQuestions'
  <2>1. PICK t : Grown(t) /\ t.by = c /\ t.no = chat[c].no
    BY <1>3, ReplyGrows
  <2>2. /\ \E i \in DOMAIN turns :
              turns[i].kind = "question" /\ turns[i].by = c /\ turns[i].no = chat[c].no
        /\ \A i \in DOMAIN turns : turns[i].by = c => turns[i].kind = "question"
    BY <1>0, <1>3, Replying DEF Wrote
  <2> QED BY <1>1, <2>1, <2>2
<1>4. ASSUME NEW p \in Taps, TapCommit(p) PROVE RepliesAnswerQuestions'
  <2>1. Grown(AckOf(p)) /\ AckOf(p).kind = "ack"
    BY <1>4, Tapping DEF AckOf
  <2> QED BY <1>1, <2>1
<1>5. CASE UNCHANGED turns
  BY <1>0, <1>5 DEF RepliesAnswerQuestions
<1> QED BY <1>2, <1>3, <1>4, <1>5, OwnedCases DEF TapRead, TapFails, Restart

\* Only Stages 2 and 3 make a reply, and it is new to the history read.
LEMMA NewStep ==
    ASSUME TypeOK, NothingRepeated, [Next]_vars
    PROVE  NothingRepeated'
<1>1. ASSUME NEW c \in Chats, NEW s \in ChatSteps, s # "ready", Go(c, s) PROVE NothingRepeated'
  BY <1>1, Going DEF NothingRepeated
<1>2. ASSUME NEW c \in Chats, Evaluate(c) PROVE NothingRepeated'
  <2>1. chat'[c].acts \in Replies(chat[c].prior) /\ chat'[c].prior = chat[c].prior
    BY <1>2, Evaluating
  <2>2. chat'[c].acts \cap Claims \cap chat'[c].prior = {}
    BY <2>1, RepliesAreNew
  <2>3. \A d \in Chats \ {c} : chat'[d] = chat[d]
    BY <1>2, Evaluating
  <2> QED BY <2>2, <2>3 DEF NothingRepeated
<1>3. ASSUME NEW c \in Chats, Lookup(c) \/ ReadHistory(c) \/ \E m \in Messages : ChatLoad(c, m)
      PROVE  NothingRepeated'
  <2>1. chat'[c].step # "ready" /\ \A d \in Chats \ {c} : chat'[d] = chat[d]
    BY <1>3, Looking, Reading, Loading
  <2> QED BY <2>1 DEF NothingRepeated
<1>4. ASSUME NEW c \in Chats, Moved(c) \/ CreateSession(c) \/ PersistQuestion(c) \/ Replied(c)
      PROVE  NothingRepeated'
  <2>1. PICK s \in ChatSteps : s # "ready" /\ Go(c, s)
    BY <1>4 DEF Moved, CreateSession, PersistQuestion, Replied, PersistReplay, PersistReply,
                PersistFallback, ChatSteps
  <2> QED BY <1>1, <2>1
<1>5. CASE Restart
  <2>1. ASSUME NEW c \in Chats PROVE chat'[c] = chat[c] \/ chat'[c].step = "lost"
    BY <1>5, Restarting
  <2> QED BY <2>1 DEF NothingRepeated
<1>6. CASE UNCHANGED chat
  BY <1>6 DEF NothingRepeated
<1> QED BY <1>2, <1>3, <1>4, <1>5, <1>6, NextCases, MoveCases
        DEF Expire, TapRead, TapCommit, TapFails, DeleteLoad, DeleteCommit, vars

\* What the first turns said is not changed by one turn more.
LEMMA SaidStays ==
    ASSUME NEW t, Grown(t)
    PROVE  \A n \in Nat : n <= Len(turns) =>
              UNION {turns'[i].acts : i \in 1 .. n} = SaidIn(n)
<1> SUFFICES ASSUME NEW n \in Nat, n <= Len(turns)
             PROVE  UNION {turns'[i].acts : i \in 1 .. n} = SaidIn(n)
  OBVIOUS
<1>1. \A i \in 1 .. n : turns'[i] = turns[i]
  BY DEF Grown
<1>2. {turns'[i].acts : i \in 1 .. n} = {turns[i].acts : i \in 1 .. n}
  BY <1>1
<1> QED BY <1>2 DEF SaidIn

\* The turns' own numbers.
LEMMA SeenTyped ==
    ASSUME TypeOK
    PROVE  /\ Len(turns) \in Nat /\ DOMAIN turns = 1 .. Len(turns)
           /\ \A c \in Chats : chat[c].seen \in Nat
           /\ \A i \in DOMAIN turns : turns[i].seen \in Nat
<1>1. turns \in Seq(Turn)
  BY DEF TypeOK
<1>2. \A i \in DOMAIN turns : turns[i] \in Turn
  BY <1>1
<1>3. \A i \in DOMAIN turns : turns[i].seen \in Nat
  BY <1>2 DEF Turn
<1>4. ASSUME NEW c \in Chats PROVE chat[c].seen \in Nat
  BY DEF TypeOK, Chat
<1> QED BY <1>1, <1>3, <1>4

\* A turn more keeps what requests know of the history, if it knows it itself.
LEMMA HistoryGrows ==
    ASSUME TypeOK, HistoryRead, row = "owned",
           NEW t, Grown(t), t.seen \in Nat, t.kind = "fresh" => t.seen <= Len(turns),
           \A c \in Chats : chat'[c].step \in Numbered =>
              /\ chat[c].step \in Numbered
              /\ chat'[c].seen = chat[c].seen /\ chat'[c].prior = chat[c].prior
    PROVE  HistoryRead'
<1>1. ASSUME NEW c \in Chats, chat'[c].step \in Numbered
      PROVE  /\ chat'[c].seen <= Len(turns')
             /\ chat'[c].prior = UNION {turns'[i].acts : i \in 1 .. chat'[c].seen}
  <2>1. chat[c].seen \in Nat /\ chat[c].seen <= Len(turns) /\ chat[c].prior = SaidIn(chat[c].seen)
    BY <1>1, SeenTyped DEF HistoryRead
  <2>2. UNION {turns'[i].acts : i \in 1 .. chat[c].seen} = SaidIn(chat[c].seen)
    BY <2>1, SaidStays
  <2>3. chat'[c].seen = chat[c].seen /\ chat'[c].prior = chat[c].prior
    BY <1>1
  <2>4. chat'[c].seen <= Len(turns')
    BY <2>1, <2>3 DEF Grown
  <2> QED BY <2>1, <2>2, <2>3, <2>4
<1>2. ASSUME NEW i \in DOMAIN turns', turns'[i].kind = "fresh"
      PROVE  turns'[i].seen <= Len(turns')
  <2>1. CASE i \in DOMAIN turns
    <3>1. turns'[i] = turns[i] /\ Len(turns') = Len(turns) + 1 /\ Len(turns) \in Nat
      BY <2>1 DEF Grown
    <3>2. turns[i].seen <= Len(turns) /\ turns[i].seen \in Nat
      BY <1>2, <2>1, <3>1, SeenTyped DEF HistoryRead
    <3> QED BY <3>1, <3>2
  <2>2. CASE i = Len(turns) + 1
    <3>1. turns'[i] = t /\ Len(turns') = Len(turns) + 1 /\ Len(turns) \in Nat
      BY <2>2 DEF Grown
    <3>2. t.seen <= Len(turns)
      BY <1>2, <3>1
    <3> QED BY <3>1, <3>2
  <2> QED BY <2>1, <2>2 DEF Grown
<1> QED BY <1>1, <1>2 DEF HistoryRead, SaidIn

\* Steps keep to HistoryRead: a history read is a prefix of the turns and stays one.
LEMMA HistoryStep ==
    ASSUME TypeOK, HistoryRead, [Next]_vars
    PROVE  HistoryRead'
<1> SUFFICES ASSUME row' = "owned" PROVE HistoryRead'
  BY DEF HistoryRead
<1>0. row = "owned"
  BY OwnedCases
<1>1. ASSUME NEW c \in Chats, Talked(c), UNCHANGED turns PROVE HistoryRead'
  <2>1. PriorActions = SaidIn(Len(turns)) /\ Len(turns) \in Nat
    BY SeenTyped DEF PriorActions, SaidIn
  <2>2. chat'[c].step \in Numbered =>
            chat'[c].seen <= Len(turns) /\ chat'[c].prior = SaidIn(chat'[c].seen)
    BY <1>0, <1>1, <2>1, Keeping DEF HistoryRead
  <2>3. \A d \in Chats \ {c} : chat'[d] = chat[d]
    BY <1>1, Talking
  <2>4. \A d \in Chats : chat'[d].step \in Numbered =>
            chat'[d].seen <= Len(turns) /\ chat'[d].prior = SaidIn(chat'[d].seen)
    BY <1>0, <2>2, <2>3 DEF HistoryRead
  <2> QED BY <1>0, <1>1, <2>4 DEF HistoryRead, SaidIn
<1>2. ASSUME NEW c \in Chats, PersistQuestion(c) PROVE HistoryRead'
  <2>1. /\ Grown(TurnOf(c, "question", {})) /\ TurnOf(c, "question", {}).kind = "question"
        /\ TurnOf(c, "question", {}).seen \in Nat
    BY <1>2, AskGrows, SeenTyped DEF TurnOf
  <2>2. \A d \in Chats : chat'[d].step \in Numbered =>
            /\ chat[d].step \in Numbered
            /\ chat'[d].seen = chat[d].seen /\ chat'[d].prior = chat[d].prior
    BY <1>2, Asking DEF Numbered, Asked
  <2> QED BY <1>0, <2>1, <2>2, HistoryGrows
<1>3. ASSUME NEW c \in Chats, Replied(c) PROVE HistoryRead'
  <2>1. PICK t : Grown(t) /\ t.seen = chat[c].seen
    BY <1>3, ReplyGrows
  <2>2. chat[c].seen <= Len(turns) /\ chat[c].seen \in Nat
    BY <1>0, <1>3, Replying, SeenTyped DEF HistoryRead, Numbered
  <2>3. \A d \in Chats : chat'[d].step \in Numbered =>
            /\ chat[d].step \in Numbered
            /\ chat'[d].seen = chat[d].seen /\ chat'[d].prior = chat[d].prior
    BY <1>3, Replying DEF Numbered, Asked
  <2> QED BY <1>0, <2>1, <2>2, <2>3, HistoryGrows
<1>4. ASSUME NEW p \in Taps, TapCommit(p) PROVE HistoryRead'
  <2>1. Grown(AckOf(p)) /\ UNCHANGED chat /\ AckOf(p).kind = "ack" /\ AckOf(p).seen = 0
    BY <1>4, Tapping DEF AckOf
  <2> QED BY <1>0, <2>1, HistoryGrows
<1>5. CASE Restart
  <2>1. UNCHANGED turns
    BY <1>5 DEF Restart
  <2>2. ASSUME NEW c \in Chats PROVE chat'[c] = chat[c] \/ chat'[c].step \notin Numbered
    BY <1>5, Restarting DEF Numbered, Asked
  <2> QED BY <1>0, <2>1, <2>2 DEF HistoryRead, SaidIn
<1>6. CASE UNCHANGED <<turns, chat>>
  BY <1>0, <1>6 DEF HistoryRead, SaidIn
<1> QED BY <1>1, <1>2, <1>3, <1>4, <1>5, <1>6, OwnedCases DEF TapRead, TapFails

\* A computed reply is new to the history its request read, which is the
\* history its turn names.
LEMMA RespectStep ==
    ASSUME TypeOK, HistoryRead, NothingRepeated, HistoryIsRespected, [Next]_vars
    PROVE  HistoryIsRespected'
<1> SUFFICES ASSUME row' = "owned" PROVE HistoryIsRespected'
  BY DEF HistoryIsRespected
<1>0. row = "owned"
  BY OwnedCases
<1>1. ASSUME NEW t, Grown(t), t.kind = "fresh" =>
                /\ t.seen \in Nat /\ t.seen <= Len(turns)
                /\ t.acts \cap Claims \cap SaidIn(t.seen) = {}
      PROVE  HistoryIsRespected'
  <2>1. ASSUME NEW i \in DOMAIN turns', turns'[i].kind = "fresh"
        PROVE  turns'[i].acts \cap Claims \cap UNION {turns'[j].acts : j \in 1 .. turns'[i].seen} = {}
    <3>1. CASE i \in DOMAIN turns
      <4>1. turns'[i] = turns[i]
        BY <1>1, <3>1 DEF Grown
      <4>2. turns[i].seen \in Nat /\ turns[i].seen <= Len(turns)
        BY <1>0, <2>1, <3>1, <4>1, SeenTyped DEF HistoryRead
      <4>3. UNION {turns'[j].acts : j \in 1 .. turns[i].seen} = SaidIn(turns[i].seen)
        BY <1>1, <4>2, SaidStays
      <4>4. turns[i].acts \cap Claims \cap SaidIn(turns[i].seen) = {}
        BY <1>0, <2>1, <3>1, <4>1 DEF HistoryIsRespected, Earlier, SaidIn
      <4> QED BY <4>1, <4>3, <4>4
    <3>2. CASE i = Len(turns) + 1
      <4>1. turns'[i] = t
        BY <1>1, <3>2 DEF Grown
      <4>2. /\ t.seen \in Nat /\ t.seen <= Len(turns)
            /\ t.acts \cap Claims \cap SaidIn(t.seen) = {}
        BY <1>1, <2>1, <4>1
      <4>3. UNION {turns'[j].acts : j \in 1 .. t.seen} = SaidIn(t.seen)
        BY <1>1, <4>2, SaidStays
      <4> QED BY <4>1, <4>2, <4>3
    <3> QED BY <1>1, <3>1, <3>2 DEF Grown
  <2> QED BY <2>1 DEF HistoryIsRespected, Earlier
<1>2. ASSUME NEW c \in Chats, PersistQuestion(c) PROVE HistoryIsRespected'
  <2>1. Grown(TurnOf(c, "question", {})) /\ TurnOf(c, "question", {}).kind = "question"
    BY <1>2, AskGrows DEF TurnOf
  <2> QED BY <1>1, <2>1
<1>3. ASSUME NEW c \in Chats, Replied(c) PROVE HistoryIsRespected'
  <2>1. PICK t : /\ Grown(t) /\ t.seen = chat[c].seen
                 /\ t.kind = "fresh" => chat[c].step = "ready" /\ t.acts = chat[c].acts
    BY <1>3, ReplyGrows
  <2>2. /\ chat[c].seen \in Nat /\ chat[c].seen <= Len(turns)
        /\ chat[c].prior = SaidIn(chat[c].seen)
    BY <1>0, <1>3, Replying, SeenTyped DEF HistoryRead, Numbered
  <2>3. t.kind = "fresh" => t.acts \cap Claims \cap SaidIn(t.seen) = {}
    BY <2>1, <2>2 DEF NothingRepeated
  <2> QED BY <1>1, <2>1, <2>2, <2>3
<1>4. ASSUME NEW p \in Taps, TapCommit(p) PROVE HistoryIsRespected'
  <2>1. Grown(AckOf(p)) /\ AckOf(p).kind = "ack"
    BY <1>4, Tapping DEF AckOf
  <2> QED BY <1>1, <2>1
<1>5. CASE UNCHANGED turns
  BY <1>0, <1>5 DEF HistoryIsRespected, Earlier
<1> QED BY <1>2, <1>3, <1>4, <1>5, OwnedCases DEF TapRead, TapFails, Restart

-----------------------------------------------------------------------------
(* Theorems about the transcript.                                          *)

\* The transcript of a session that was not deleted has every turn number up
\* to its last one, whatever messages and taps interleave.
THEOREM TranscriptHasNoGaps == Spec => []NoGaps
<1>1. Init => NumbersFollow /\ NoGaps
  BY DEF Init, NumbersFollow, NoGaps, NoChat, Numbered, Asked
<1>2. TypeOK /\ NumbersFollow /\ NoGaps /\ [Next]_vars => (NumbersFollow /\ NoGaps)'
  BY NumbersStep, GaplessStep
<1> QED BY <1>1, <1>2, ChatTyped, PTL DEF Spec

\* Every reply stands after the question it answers, under the same number,
\* and no question has two replies.
THEOREM RepliesAnswer == Spec => []RepliesAnswerQuestions
<1>1. Init => Wrote /\ RepliesAnswerQuestions
  BY DEF Init, Wrote, RepliesAnswerQuestions, NoChat, Asked
<1>2. TypeOK /\ Wrote /\ RepliesAnswerQuestions /\ [Next]_vars => (Wrote /\ RepliesAnswerQuestions)'
  BY WroteStep, AnswersStep
<1> QED BY <1>1, <1>2, ChatTyped, PTL DEF Spec

\* A computed reply repeats no refund and no complaint of the turns that were
\* there when its request read the history.
THEOREM RepliesRespectHistory == Spec => []HistoryIsRespected
<1>1. Init => HistoryRead /\ NothingRepeated /\ HistoryIsRespected
  BY DEF Init, HistoryRead, NothingRepeated, HistoryIsRespected, NoChat, Numbered, Asked
<1>2. TypeOK /\ HistoryRead /\ NothingRepeated /\ HistoryIsRespected /\ [Next]_vars
         => (HistoryRead /\ NothingRepeated /\ HistoryIsRespected)'
  BY HistoryStep, NewStep, RespectStep
<1> QED BY <1>1, <1>2, ChatTyped, PTL DEF Spec
=============================================================================
