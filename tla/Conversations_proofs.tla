----------------------- MODULE Conversations_proofs ------------------------
(***************************************************************************)
(* Proofs about Conversations, for any turns, requests, readers, clients   *)
(* and limits.  Messages are only appended (Grows); what remains is where  *)
(* a message is attached and what each turn knows of its question.         *)
(***************************************************************************)
EXTENDS Conversations, FiniteSetTheorems, TLAPS

TurnState == [pc : TurnPcs, request : Request \cup {NoOne},
              parent : 0..MaxMessages, refused : BOOLEAN, summary : Summary,
              facts : Facts, rows : SUBSET Number, known : SUBSET Number]
ReaderState == [pc : {"idle", "load", "store", "done"}, rows : SUBSET Number]

TypedRows == messages \in Seq(Row) /\ Len(messages) <= MaxMessages /\ head \in 0..Len(messages)
TypedSettings ==
    /\ summary \in Summary /\ constraints \in Facts /\ deleted \in BOOLEAN
    /\ cache \in {NoOne} \cup SUBSET Number
TypedClients ==
    /\ reader \in [Reader -> ReaderState] /\ client \in [Client -> {"idle", "invalidate", "done"}]
TypedTurns == turn \in [Turn -> TurnState]

LEMMA TypedIsTypeOK == TypeOK <=> TypedRows /\ TypedSettings /\ TypedClients /\ TypedTurns
  BY DEF TypeOK, TypedRows, TypedSettings, TypedClients, TypedTurns, TurnState, ReaderState

LEMMA TypedIsTypeOKNext == TypeOK' <=> TypedRows' /\ TypedSettings' /\ TypedClients' /\ TypedTurns'
  BY DEF TypeOK, TypedRows, TypedSettings, TypedClients, TypedTurns, TurnState, ReaderState

(* What the invariant says of the messages, and of one turn.               *)
Tree == TypedRows /\ OneRoot /\ AnswersHaveParents /\ AnswersItsQuestion
TurnOK(t) ==
    /\ turn[t].parent \in 0..Len(messages)
    /\ HasQuestion(t) =>
          /\ turn[t].parent # 0
          /\ messages[turn[t].parent].kind = "question"
          /\ messages[turn[t].parent].request = turn[t].request

Good ==
    /\ Tree /\ TypedSettings /\ TypedClients /\ TypedTurns
    /\ \A t \in Turn : TurnOK(t)

LEMMA Split == IInv <=> Good
  BY TypedIsTypeOK DEF IInv, Good, Tree, TurnsKnowTheirQuestion, TurnOK

LEMMA SplitNext == IInv' <=> Good'
  BY TypedIsTypeOKNext DEF IInv, Good, Tree, TurnsKnowTheirQuestion, TurnOK, HasQuestion

-----------------------------------------------------------------------------
(* Numbers.                                                                *)

LEMMA Limits == MaxMessages \in Nat /\ MaxHistory \in 0..MaxMessages
  BY ConversationsAssumption

LEMMA DomainIs == ASSUME TypedRows PROVE DOMAIN messages = 1..Len(messages) /\ Len(messages) \in Nat
  BY DEF TypedRows

LEMMA VisibleNumbers == ASSUME TypedRows PROVE Visible \subseteq Number /\ Recent \subseteq Number
<1>1. DOMAIN messages \subseteq Number /\ 1..head \subseteq Number
  BY DomainIs, Limits DEF TypedRows, Number
<1>2. Visible = {} \/ Visible = 1..head \/ Visible = Ancestors(head)
  BY DEF Visible
<1>3. Ancestors(head) \subseteq DOMAIN messages
  BY DEF Ancestors
<1>4. Recent \subseteq Visible
  BY DEF Recent, Newest
<1> QED BY <1>1, <1>2, <1>3, <1>4

(* A set of numbers that is not empty has a greatest one.                  *)
LEMMA MaxIsGreatest ==
    ASSUME NEW S \in SUBSET Number, S # {}
    PROVE  Max(S) \in S /\ \A x \in S : Max(S) >= x
<1> DEFINE Rest == {MaxMessages - x : x \in S}
           Less == OpToRel(<, Nat)
<1>1. Rest \subseteq Nat /\ Rest # {}
  <2>1. \A x \in S : MaxMessages - x \in Nat
    BY Limits DEF Number
  <2> QED BY <2>1
<1>2. \A y, r \in Nat : y < r => <<y, r>> \in Less
  BY DEF OpToRel
<1>3. IsWellFoundedOn(Less, Nat)
  BY NatLessThanWellFounded
<1> HIDE DEF Less
<1>4. PICK r \in Rest : \A y \in Rest : <<y, r>> \notin Less
  BY <1>1, <1>3, WFMin
<1>5. ASSUME NEW y \in Rest PROVE r <= y
  <2>1. y \in Nat /\ r \in Nat
    BY <1>1
  <2>2. ~(y < r)
    BY <1>2, <1>4, <2>1
  <2> QED BY <2>1, <2>2
<1>6. PICK x \in S : r = MaxMessages - x
  BY <1>4
<1>7. \A y \in S : x >= y
  BY <1>5, <1>6, Limits DEF Number
<1> QED BY <1>6, <1>7 DEF Max

LEMMA MaxIsMember == ASSUME NEW S \in SUBSET Number, S # {} PROVE Max(S) \in S
  BY MaxIsGreatest

-----------------------------------------------------------------------------
(* The messages.                                                           *)

Grows == \A n \in DOMAIN messages : n \in DOMAIN messages' /\ messages'[n] = messages[n]

(* Where a message may be attached: an answer under its question, once.    *)
Fits(parent, request, kind) ==
    kind = "answer" =>
        /\ parent # 0 /\ messages[parent].kind = "question" /\ messages[parent].request = request
        /\ \A n \in DOMAIN messages :
              messages[n].kind = "answer" => messages[n].request # request

LEMMA AppendKeeps ==
    ASSUME Tree, NEW parent \in 0..Len(messages), NEW request \in Request \cup {NoOne},
           NEW kind \in Kind, Fits(parent, request, kind), AppendRow(parent, request, kind)
    PROVE  /\ Tree' /\ Grows
           /\ Len(messages') = Len(messages) + 1
           /\ messages'[Len(messages')].kind = kind
           /\ messages'[Len(messages')].request = request
<1> DEFINE under == IF parent # 0 THEN parent ELSE head
           row == [parent |-> under, request |-> request, kind |-> kind]
           new == Len(messages) + 1
<1>1. /\ messages \in Seq(Row) /\ Len(messages) \in Nat /\ head \in 0..Len(messages)
      /\ DOMAIN messages = 1..Len(messages) /\ MaxMessages \in Nat
  BY DomainIs, Limits DEF Tree, TypedRows
<1>2. /\ messages' = Append(messages, row) /\ head' = new /\ Len(messages) < MaxMessages
  BY DEF AppendRow
<1>3. under \in 0..Len(messages) /\ under \in 0..MaxMessages
  BY <1>1, <1>2
<1>4. row \in Row /\ row.parent = under /\ row.request = request /\ row.kind = kind
  BY <1>3 DEF Row
<1>5. under = 0 <=> new = 1
  BY <1>1 DEF Tree, OneRoot
<1>6. kind = "answer" => under = parent /\ under # 0
  BY DEF Fits
<1> HIDE DEF row, under
<1>7. /\ messages' \in Seq(Row) /\ Len(messages') = new /\ DOMAIN messages' = 1..new
      /\ messages'[new] = row
      /\ \A n \in 1..Len(messages) : messages'[n] = messages[n]
  BY <1>1, <1>2, <1>4
<1>8. TypedRows'
  BY <1>1, <1>2, <1>7 DEF TypedRows
<1>9. OneRoot'
  BY <1>1, <1>2, <1>3, <1>4, <1>5, <1>7 DEF Tree, OneRoot
<1>10. AnswersHaveParents'
  BY <1>1, <1>4, <1>6, <1>7 DEF Tree, AnswersHaveParents
<1>11. AnswersItsQuestion'
  <2>1. ASSUME NEW n \in 1..new, messages'[n].kind = "answer"
        PROVE  /\ messages'[n].parent \in 1..Len(messages)
               /\ messages'[messages'[n].parent].kind = "question"
               /\ messages'[messages'[n].parent].request = messages'[n].request
    <3>1. CASE n = new
      BY <1>1, <1>3, <1>4, <1>6, <1>7, <2>1, <3>1 DEF Fits
    <3>2. CASE n # new
      <4>1. n \in 1..Len(messages) /\ messages[n].kind = "answer" /\ messages'[n] = messages[n]
        BY <1>1, <1>7, <2>1, <3>2
      <4>2. messages[n] \in Row
        BY <1>1, <4>1
      <4>3. messages[n].parent \in 1..Len(messages)
        BY <1>1, <4>1, <4>2 DEF Tree, OneRoot, AnswersHaveParents, Row
      <4> QED BY <1>1, <1>7, <4>1, <4>3 DEF Tree, AnswersItsQuestion
    <3> QED BY <3>1, <3>2
  <2>2. ASSUME NEW n \in 1..new, NEW k \in 1..new, messages'[n].kind = "answer",
               messages'[k].kind = "answer", messages'[k].request = messages'[n].request
        PROVE  k = n
    <3>1. CASE n # new /\ k # new
      BY <1>1, <1>7, <2>2, <3>1 DEF Tree, AnswersItsQuestion
    <3>2. CASE n = new /\ k # new
      BY <1>1, <1>4, <1>7, <2>2, <3>2 DEF Fits
    <3>3. CASE n # new /\ k = new
      BY <1>1, <1>4, <1>7, <2>2, <3>3 DEF Fits
    <3> QED BY <3>1, <3>2, <3>3
  <2> QED BY <1>7, <2>1, <2>2 DEF AnswersItsQuestion
<1> QED BY <1>1, <1>4, <1>7, <1>8, <1>9, <1>10, <1>11 DEF Tree, Grows

LEMMA TreeStays == ASSUME Tree, UNCHANGED <<messages, head>> PROVE Tree' /\ Grows
  BY DEF Tree, TypedRows, OneRoot, AnswersHaveParents, AnswersItsQuestion, Grows

(* Turns that the step is not about.                                       *)
LEMMA TurnStays ==
    ASSUME Tree, Tree', Grows, NEW t \in Turn, TurnOK(t), turn'[t].parent = turn[t].parent,
           turn'[t].request = turn[t].request, HasQuestion(t)' => HasQuestion(t)
    PROVE  TurnOK(t)'
<1>1. /\ DOMAIN messages = 1..Len(messages) /\ Len(messages) \in Nat
      /\ DOMAIN messages' = 1..Len(messages') /\ Len(messages') \in Nat
  BY DomainIs DEF Tree, TypedRows
<1>2. Len(messages) <= Len(messages')
  BY <1>1 DEF Grows
<1> QED BY <1>1, <1>2 DEF TurnOK, Grows

LEMMA OthersKeep ==
    ASSUME Good, Tree', Grows, TypedSettings', TypedClients', UNCHANGED turn
    PROVE  IInv'
<1>1. ASSUME NEW t \in Turn PROVE TurnOK(t)'
  BY TurnStays DEF Good, HasQuestion
<1>2. TypedTurns'
  BY DEF Good, TypedTurns
<1> QED BY <1>1, <1>2, SplitNext DEF Good

(* Turn t goes from one state to another.                                  *)
KnowsQuestion(rows, new) ==
    /\ new.parent \in 0..Len(rows)
    /\ new.pc \notin {"idle", "ask", "end", "done"} /\ (new.pc = "answer" => ~new.refused) =>
          /\ new.parent # 0
          /\ rows[new.parent].kind = "question"
          /\ rows[new.parent].request = new.request

LEMMA TurnKeeps ==
    ASSUME Good, Tree', Grows, TypedSettings', UNCHANGED <<reader, client>>,
           NEW t \in Turn, NEW new \in TurnState, turn' = [turn EXCEPT ![t] = new],
           KnowsQuestion(messages', new)
    PROVE  IInv'
<1>1. turn' \in [Turn -> TurnState] /\ turn'[t] = new /\ \A u \in Turn : u # t => turn'[u] = turn[u]
  BY DEF Good, TypedTurns
<1>2. TurnOK(t)'
  BY <1>1 DEF TurnOK, HasQuestion, KnowsQuestion
<1>3. ASSUME NEW u \in Turn, u # t PROVE TurnOK(u)'
  BY <1>1, <1>3, TurnStays DEF Good, HasQuestion
<1>4. TypedTurns' /\ TypedClients'
  BY <1>1 DEF Good, TypedTurns, TypedClients
<1> QED BY <1>2, <1>3, <1>4, SplitNext DEF Good

(* It reads, writes a setting or the cache, and goes on.                   *)
LEMMA TurnGoesOn ==
    ASSUME Good, UNCHANGED <<messages, head, reader, client>>, TypedSettings',
           NEW t \in Turn, NEW new \in TurnState, turn' = [turn EXCEPT ![t] = new],
           new.parent = turn[t].parent, new.request = turn[t].request,
           \/ new.pc \in {"end", "done"}
           \/ new.pc = "answer" /\ new.refused
           \/ turn[t].pc \notin {"idle", "ask", "answer", "end", "done"} /\ new.refused = turn[t].refused
    PROVE  IInv'
<1>1. Tree' /\ Grows
  BY TreeStays DEF Good
<1>2. KnowsQuestion(messages', new)
  BY DEF Good, TurnOK, HasQuestion, KnowsQuestion
<1> QED BY <1>1, <1>2, TurnKeeps

LEMMA IdleTurnIs == IdleTurn \in TurnState /\ IdleTurn.parent = 0 /\ IdleTurn.request = NoOne
  BY Limits DEF IdleTurn, TurnState, TurnPcs, Summary, NoSummary, Facts

LEMMA SettingsStay ==
    ASSUME Good, UNCHANGED <<settings, deleted>>, cache' \in {NoOne, cache} \/ cache' \in SUBSET Number
    PROVE  TypedSettings'
  BY DEF Good, TypedSettings, settings

-----------------------------------------------------------------------------
(* Requests and readers.                                                   *)

LEMMA PostKeeps == ASSUME Good, NEW c \in Client, PostMessage(c) PROVE IInv'
<1>1. Tree' /\ Grows
  <2>1. CASE UNCHANGED <<messages, head>>
    BY <2>1, TreeStays DEF Good
  <2>2. ASSUME NEW parent \in 0..Len(messages), AppendRow(parent, NoOne, "message")
        PROVE  Tree' /\ Grows
    BY <2>2, AppendKeeps DEF Good, Fits, Kind
  <2> QED BY <2>1, <2>2 DEF PostMessage
<1>2. TypedSettings' /\ TypedClients'
  BY DEF PostMessage, Wrote, Good, TypedSettings, TypedClients, settings
<1> QED BY <1>1, <1>2, OthersKeep DEF PostMessage

LEMMA TruncateKeeps == ASSUME Good, NEW c \in Client, NEW n \in Number, Truncate(c, n) PROVE IInv'
<1>1. n \in 1..Len(messages) /\ Len(messages) \in Nat
  BY DomainIs DEF Truncate, Good, Tree
<1>2. TypedRows' /\ OneRoot' /\ AnswersHaveParents' /\ AnswersItsQuestion' /\ Grows
  BY <1>1 DEF Truncate, Good, Tree, TypedRows, OneRoot, AnswersHaveParents, AnswersItsQuestion, Grows
<1>3. NoSummary \in Summary /\ NoOne \in Facts
  BY Limits DEF NoSummary, Summary, Facts
<1>4. TypedSettings' /\ TypedClients'
  BY <1>3 DEF Truncate, Wrote, Good, TypedSettings, TypedClients
<1> QED BY <1>2, <1>4, OthersKeep DEF Truncate, Tree

LEMMA QuietKeeps ==
    ASSUME Good,
           \/ \E c \in Client : DeleteConversation(c) \/ Invalidate(c)
           \/ CacheExpires
           \/ \E r \in Reader : MissCache(r) \/ ReadRecent(r) \/ StoreCache(r)
           \/ UNCHANGED vars
    PROVE  IInv'
<1>1. UNCHANGED <<messages, head, settings, turn>>
  BY DEF DeleteConversation, Invalidate, CacheExpires, MissCache, ReadRecent, StoreCache, vars, settings
<1>2. Tree' /\ Grows
  BY <1>1, TreeStays DEF Good
<1>3. Recent \in SUBSET Number
  BY VisibleNumbers DEF Good, Tree
<1>4. \A r \in Reader : reader[r] \in ReaderState /\ reader[r].rows \in SUBSET Number
  BY DEF Good, TypedClients, ReaderState
<1>5. TypedSettings'
  BY <1>1, <1>4 DEF DeleteConversation, Invalidate, Invalidated, CacheExpires, MissCache, ReadRecent,
     StoreCache, vars, settings, Good, TypedSettings
<1>6. reader' \in [Reader -> ReaderState]
  <2>1. CASE UNCHANGED reader
    BY <2>1 DEF Good, TypedClients
  <2>2. ASSUME NEW r \in Reader, MissCache(r) PROVE reader' \in [Reader -> ReaderState]
    BY <2>2 DEF MissCache, Good, TypedClients, ReaderState
  <2>3. ASSUME NEW r \in Reader, ReadRecent(r) \/ StoreCache(r) PROVE reader' \in [Reader -> ReaderState]
    <3>1. \E new \in ReaderState : reader' = [reader EXCEPT ![r] = new]
      BY <1>3, <2>3 DEF ReadRecent, StoreCache, ReaderState
    <3> QED BY <3>1 DEF Good, TypedClients
  <2> QED BY <2>1, <2>2, <2>3 DEF DeleteConversation, Invalidate, CacheExpires, vars
<1>7. client' \in [Client -> {"idle", "invalidate", "done"}]
  BY DEF DeleteConversation, Wrote, Invalidate, CacheExpires, MissCache, ReadRecent, StoreCache, vars,
     Good, TypedClients
<1> QED BY <1>1, <1>2, <1>5, <1>6, <1>7, OthersKeep DEF TypedClients

-----------------------------------------------------------------------------
(* The turns.                                                              *)

LEMMA TurnIs ==
    ASSUME Good, NEW t \in Turn
    PROVE  /\ turn \in [Turn -> TurnState] /\ turn[t] \in TurnState /\ TurnOK(t)
           /\ turn[t].request \in Request \cup {NoOne} /\ turn[t].parent \in 0..Len(messages)
           /\ Tree /\ Len(messages) \in Nat /\ DOMAIN messages = 1..Len(messages)
  BY DomainIs DEF Good, TypedTurns, TurnState, TurnOK, Tree

LEMMA StartKeeps == ASSUME Good, NEW t \in Turn, NEW q \in Request, StartTurn(t, q) PROVE IInv'
<1> DEFINE new == [IdleTurn EXCEPT !.pc = "ask", !.request = q, !.parent = head]
<1>1. head \in 0..MaxMessages /\ head \in 0..Len(messages)
  BY TurnIs, Limits DEF Tree, TypedRows
<1>2. new \in TurnState /\ new.pc = "ask" /\ new.parent = head
  BY <1>1, IdleTurnIs DEF TurnState, TurnPcs
<1>3. turn' = [turn EXCEPT ![t] = new]
  BY DEF StartTurn
<1> HIDE DEF new
<1>4. Tree' /\ Grows /\ TypedSettings'
  BY TreeStays, SettingsStay DEF StartTurn, Good
<1>5. KnowsQuestion(messages', new)
  BY <1>1, <1>2 DEF StartTurn, KnowsQuestion
<1> QED BY <1>2, <1>3, <1>4, <1>5, TurnKeeps DEF StartTurn

(* The turn's parent becomes its question, a new one or the one there is.  *)
LEMMA AskKeeps == ASSUME Good, NEW t \in Turn, AskQuestion(t) PROVE IInv'
<1>1. ASSUME NEW n \in DOMAIN messages', Tree', Grows, messages'[n].kind = "question",
             messages'[n].request = turn[t].request,
             turn' = [turn EXCEPT ![t].pc = "invalidate", ![t].parent = n]
      PROVE  IInv'
  <2> DEFINE new == [turn[t] EXCEPT !.pc = "invalidate", !.parent = n]
  <2>1. n \in 0..Len(messages') /\ n \in 0..MaxMessages /\ n # 0
    BY <1>1, Limits DEF Tree, TypedRows
  <2>2. new \in TurnState /\ new.parent = n /\ new.request = turn[t].request
    BY <2>1, TurnIs DEF TurnState, TurnPcs
  <2>3. turn' = [turn EXCEPT ![t] = new]
    BY <1>1, TurnIs DEF TurnState
  <2> HIDE DEF new
  <2>4. KnowsQuestion(messages', new)
    BY <1>1, <2>1, <2>2 DEF KnowsQuestion
  <2>5. TypedSettings' /\ UNCHANGED <<reader, client>>
    BY SettingsStay DEF AskQuestion
  <2> QED BY <1>1, <2>2, <2>3, <2>4, <2>5, TurnKeeps
<1>2. CASE \E n \in Stored(turn[t].request, {"question"}) :
              /\ turn' = [turn EXCEPT ![t].pc = "invalidate", ![t].parent = n]
              /\ UNCHANGED <<messages, head>>
  BY <1>1, <1>2, TreeStays, TurnIs DEF Stored
<1>3. CASE /\ AppendRow(turn[t].parent, turn[t].request, "question")
           /\ turn' = [turn EXCEPT ![t].pc = "invalidate", ![t].parent = Len(messages) + 1]
  <2>1. /\ Tree' /\ Grows /\ Len(messages') = Len(messages) + 1
        /\ messages'[Len(messages')].kind = "question"
        /\ messages'[Len(messages')].request = turn[t].request
    BY <1>3, TurnIs, AppendKeeps DEF Fits, Kind
  <2>2. Len(messages) + 1 \in DOMAIN messages'
    BY <2>1, TurnIs, DomainIs DEF Tree, TypedRows
  <2> QED BY <1>1, <1>3, <2>1, <2>2
<1> QED BY <1>2, <1>3 DEF AskQuestion

(* The answer fits: no other one of its request is stored.                 *)
LEMMA AnswerKeeps == ASSUME Good, NEW t \in Turn, PersistAnswer(t) PROVE IInv'
<1> DEFINE kind == IF turn[t].refused THEN "refusal" ELSE "answer"
           pc == IF turn[t].refused THEN "end" ELSE "constraints"
           new == [turn[t] EXCEPT !.pc = pc, !.known = {}]
<1>1. /\ turn[t].pc = "answer" /\ turn' = [turn EXCEPT ![t].pc = pc, ![t].known = {}]
      /\ UNCHANGED <<settings, deleted, cache, reader, client>>
  BY DEF PersistAnswer
<1>2. /\ new \in TurnState /\ new.parent = turn[t].parent /\ new.request = turn[t].request
      /\ new.pc = pc /\ new.refused = turn[t].refused /\ turn' = [turn EXCEPT ![t] = new]
  BY <1>1, TurnIs DEF TurnState, TurnPcs
<1>3. Tree' /\ Grows
  <2>1. CASE UNCHANGED <<messages, head>>
    BY <2>1, TurnIs, TreeStays
  <2>2. CASE /\ Stored(turn[t].request, {"answer", "refusal"}) = {}
             /\ AppendRow(turn[t].parent, turn[t].request, kind)
    <3>1. Fits(turn[t].parent, turn[t].request, kind)
      BY <1>1, <2>2, TurnIs DEF Fits, Stored, TurnOK, HasQuestion
    <3>2. kind \in Kind
      BY DEF Kind
    <3> HIDE DEF kind
    <3> QED BY <2>2, <3>1, <3>2, TurnIs, AppendKeeps
  <2> QED BY <2>1, <2>2 DEF PersistAnswer
<1> HIDE DEF new
<1>4. KnowsQuestion(messages', new)
  <2>1. KnowsQuestion(messages, new)
    BY <1>1, <1>2, TurnIs DEF KnowsQuestion, TurnOK, HasQuestion
  <2>2. Len(messages) <= Len(messages') /\ Len(messages') \in Nat
    BY <1>3, TurnIs, DomainIs DEF Grows, Tree, TypedRows
  <2> QED BY <1>3, <2>1, <2>2, TurnIs DEF KnowsQuestion, Grows
<1>5. TypedSettings'
  BY <1>1, SettingsStay
<1> QED BY <1>1, <1>2, <1>3, <1>4, <1>5, TurnKeeps

(* A turn that goes on, with other rows or other facts.                    *)
Answering == TurnPcs \ {"idle", "ask", "end", "done"}
Reading == Answering \ {"answer"}

LEMMA MemoryKeeps ==
    ASSUME Good, NEW t \in Turn, turn[t].pc \in Reading, NEW pc \in Answering,
           NEW rows \in SUBSET Number, NEW known \in SUBSET Number,
           NEW s \in Summary, NEW facts \in Facts,
           turn' = [turn EXCEPT ![t] = [turn[t] EXCEPT !.pc = pc, !.rows = rows, !.known = known,
                                                       !.summary = s, !.facts = facts]],
           UNCHANGED <<messages, head, reader, client>>, TypedSettings'
    PROVE  IInv'
<1> DEFINE new == [turn[t] EXCEPT !.pc = pc, !.rows = rows, !.known = known,
                                  !.summary = s, !.facts = facts]
<1>1. /\ new \in TurnState /\ new.parent = turn[t].parent /\ new.request = turn[t].request
      /\ new.refused = turn[t].refused /\ turn' = [turn EXCEPT ![t] = new]
  BY TurnIs DEF TurnState, Answering
<1>2. turn[t].pc \notin {"idle", "ask", "answer", "end", "done"}
  BY DEF Answering, Reading
<1> HIDE DEF new
<1> QED BY <1>1, <1>2, TurnGoesOn

(* The same, spelled as the actions do.                                    *)
LEMMA RowsKeep ==
    ASSUME Good, NEW t \in Turn, turn[t].pc \in Reading, NEW pc \in Answering,
           NEW rows \in SUBSET Number,
           \/ turn' = [turn EXCEPT ![t].pc = pc, ![t].rows = rows]
           \/ Goto(t, pc) /\ rows = turn[t].rows,
           UNCHANGED <<messages, head, reader, client>>, TypedSettings'
    PROVE  IInv'
<1>1. /\ turn[t].known \in SUBSET Number /\ turn[t].summary \in Summary
      /\ turn[t].facts \in Facts
  BY TurnIs DEF TurnState
<1>2. turn' = [turn EXCEPT ![t] = [turn[t] EXCEPT !.pc = pc, !.rows = rows, !.known = turn[t].known,
                                     !.summary = turn[t].summary, !.facts = turn[t].facts]]
  BY TurnIs DEF Goto, TurnState
<1> QED BY <1>1, <1>2, MemoryKeeps

LEMMA HaveHotKeeps ==
    ASSUME Good, NEW t \in Turn, turn[t].pc \in Reading, NEW rows \in SUBSET Number,
           HaveHot(t, rows), UNCHANGED <<messages, head, reader, client>>, TypedSettings'
    PROVE  IInv'
<1>1. CASE turn' = [turn EXCEPT ![t].pc = "summary", ![t].rows = rows]
  BY <1>1, RowsKeep DEF Answering, TurnPcs
<1>2. CASE turn' = [turn EXCEPT ![t].pc = "page", ![t].rows = {}]
  <2>1. {} \in SUBSET Number /\ "page" \in Answering
    BY DEF Answering, TurnPcs
  <2> QED BY <1>2, <2>1, RowsKeep
<1> QED BY <1>1, <1>2 DEF HaveHot

LEMMA ReadingKeeps ==
    ASSUME Good, NEW t \in Turn,
           InvalidateQuestion(t) \/ ReadHot(t) \/ LoadRecent(t) \/ StoreHot(t) \/ ReadPage(t)
    PROVE  IInv'
<1>1. turn[t].pc \in Reading /\ UNCHANGED <<messages, head, settings, deleted, reader, client>>
  BY DEF InvalidateQuestion, ReadHot, LoadRecent, StoreHot, ReadPage, Reading, Answering, TurnPcs
<1>2. turn[t].rows \in SUBSET Number /\ Visible \in SUBSET Number /\ Recent \in SUBSET Number
  <2>1. TypedRows
    BY DEF Good, Tree
  <2> QED BY <2>1, TurnIs, VisibleNumbers DEF TurnState
<1>3. TypedSettings'
  BY <1>1, <1>2, SettingsStay DEF InvalidateQuestion, Invalidated, ReadHot, LoadRecent, StoreHot, ReadPage
<1>4. CASE InvalidateQuestion(t)
  BY <1>1, <1>2, <1>3, <1>4, RowsKeep DEF InvalidateQuestion, Answering, TurnPcs
<1>5. CASE ReadHot(t) /\ cache # NoOne
  <2>1. cache \in SUBSET Number
    BY <1>5 DEF Good, TypedSettings
  <2> QED BY <1>1, <1>3, <1>5, <2>1, HaveHotKeeps DEF ReadHot
<1>6. CASE ReadHot(t) /\ cache = NoOne
  BY <1>1, <1>2, <1>3, <1>6, RowsKeep DEF ReadHot, Answering, TurnPcs
<1>7. CASE LoadRecent(t)
  BY <1>1, <1>2, <1>3, <1>7, RowsKeep DEF LoadRecent, Answering, TurnPcs
<1>8. CASE StoreHot(t)
  BY <1>1, <1>2, <1>3, <1>8, HaveHotKeeps DEF StoreHot
<1>9. CASE ReadPage(t)
  <2> DEFINE page == Oldest(PageSize, {n \in Visible : n > Max({0} \cup turn[t].rows)})
             pc == IF Cardinality(page) < PageSize THEN "summary" ELSE "page"
             rows == turn[t].rows \cup page
  <2>1. turn' = [turn EXCEPT ![t].pc = pc, ![t].rows = rows]
    BY <1>9, TurnIs DEF ReadPage, TurnState
  <2>2. page \subseteq Visible
    BY DEF Oldest
  <2>3. rows \in SUBSET Number /\ pc \in Answering
    BY <1>2, <2>2 DEF Answering, TurnPcs
  <2> HIDE DEF rows, pc
  <2> QED BY <1>1, <1>3, <2>1, <2>3, RowsKeep
<1> QED BY <1>4, <1>5, <1>6, <1>7, <1>8, <1>9

LEMMA RestoreKeeps == ASSUME Good, NEW t \in Turn, RestoreMemory(t) PROVE IInv'
<1>1. summary \in Summary /\ constraints \in Facts
  BY DEF Good, TypedSettings
<1>2. turn[t].rows \in SUBSET Number /\ turn[t].known \in SUBSET Number
  BY TurnIs DEF TurnState
<1>3. turn' = [turn EXCEPT ![t] = [turn[t] EXCEPT !.pc = "hot", !.rows = turn[t].rows,
                                    !.known = turn[t].known, !.summary = summary, !.facts = constraints]]
  BY TurnIs DEF RestoreMemory, TurnState
<1>4. TypedSettings' /\ UNCHANGED <<messages, head, reader, client>>
  BY SettingsStay DEF RestoreMemory
<1>5. turn[t].pc \in Reading /\ "hot" \in Answering
  BY DEF RestoreMemory, Reading, Answering, TurnPcs
<1> QED BY <1>1, <1>2, <1>3, <1>4, <1>5, MemoryKeeps

LEMMA SummaryKeeps == ASSUME Good, NEW t \in Turn, SummarisePrefix(t) PROVE IInv'
<1> DEFINE rows == turn[t].rows
<1>1. PICK k \in 1..Context :
        LET kept == Newest(k, rows)
            prefix == rows \ kept
            made == Summarised(turn[t].summary, prefix)
        IN /\ turn' = [turn EXCEPT
                 ![t].pc = "answer", ![t].rows = {}, ![t].summary = NoSummary,
                 ![t].known = kept \cup IF prefix = {} THEN {} ELSE made.covers]
           /\ IF prefix = {} \/ turn[t].summary.through = Max(prefix)
              THEN UNCHANGED summary
              ELSE ~deleted /\ summary' = made
  BY DEF SummarisePrefix
<1> DEFINE kept == Newest(k, rows)
           prefix == rows \ kept
           made == Summarised(turn[t].summary, prefix)
           known == kept \cup IF prefix = {} THEN {} ELSE made.covers
<1>2. rows \in SUBSET Number /\ turn[t].summary \in Summary /\ turn[t].facts \in Facts
  BY TurnIs DEF TurnState
<1>3. kept \in SUBSET Number /\ prefix \in SUBSET Number
  BY <1>2 DEF Newest
<1>4. prefix # {} => made \in Summary
  <2>1. turn[t].summary.covers \in SUBSET Number
    BY <1>2 DEF Summary
  <2>2. prefix # {} => Max(prefix) \in 0..MaxMessages
    BY <1>3, MaxIsMember, Limits DEF Number
  <2> HIDE DEF prefix
  <2> QED BY <1>3, <2>1, <2>2 DEF Summarised, Summary
<1>5. known \in SUBSET Number
  <2>1. prefix # {} => made.covers \in SUBSET Number
    BY <1>4 DEF Summary
  <2> HIDE DEF prefix, made, kept
  <2> QED BY <1>3, <2>1
<1>6. summary' \in Summary
  <2>1. summary \in Summary /\ (summary' = summary \/ (prefix # {} /\ summary' = made))
    BY <1>1 DEF Good, TypedSettings
  <2> HIDE DEF prefix, made
  <2> QED BY <1>4, <2>1
<1>7. TypedSettings' /\ UNCHANGED <<messages, head, reader, client>>
  BY <1>6 DEF SummarisePrefix, Good, TypedSettings
<1>8. turn' = [turn EXCEPT ![t] = [turn[t] EXCEPT !.pc = "answer", !.rows = {}, !.known = known,
                                    !.summary = NoSummary, !.facts = turn[t].facts]]
  <2>1. turn' = [turn EXCEPT ![t].pc = "answer", ![t].rows = {}, ![t].summary = NoSummary,
                             ![t].known = known]
    BY <1>1
  <2> HIDE DEF known
  <2> QED BY <2>1, TurnIs DEF TurnState
<1>9. turn[t].pc \in Reading /\ "answer" \in Answering /\ NoSummary \in Summary
  BY Limits DEF SummarisePrefix, Reading, Answering, TurnPcs, NoSummary, Summary
<1> HIDE DEF known
<1> QED BY <1>2, <1>5, <1>7, <1>8, <1>9, MemoryKeeps

LEMMA EndKeeps ==
    ASSUME Good, NEW t \in Turn, Ends(t), UNCHANGED <<messages, head, reader, client>>, TypedSettings'
    PROVE  IInv'
<1> DEFINE new == [IdleTurn EXCEPT !.pc = "done"]
<1>1. new \in TurnState /\ new.pc = "done" /\ new.parent = 0 /\ turn' = [turn EXCEPT ![t] = new]
  BY IdleTurnIs DEF Ends, TurnState, TurnPcs
<1>2. Tree' /\ Grows
  BY TreeStays DEF Good
<1>3. KnowsQuestion(messages', new)
  <2>1. Len(messages') \in Nat
    BY <1>2, DomainIs DEF Tree, TypedRows
  <2> QED BY <1>1, <2>1 DEF KnowsQuestion
<1> HIDE DEF new
<1> QED BY <1>1, <1>2, <1>3, TurnKeeps

LEMMA ConstraintsKeep == ASSUME Good, NEW t \in Turn, StoreConstraints(t) PROVE IInv'
<1> DEFINE new == [IdleTurn EXCEPT !.pc = "end"]
<1>1. new \in TurnState /\ new.pc = "end" /\ new.parent = 0 /\ turn' = [turn EXCEPT ![t] = new]
  BY IdleTurnIs DEF StoreConstraints, TurnState, TurnPcs
<1>2. turn[t].facts \in Facts /\ turn[t].parent \in Number
  BY TurnIs, Limits DEF StoreConstraints, TurnState, TurnOK, HasQuestion, Number
<1>3. TypedSettings'
  BY <1>2 DEF StoreConstraints, Good, TypedSettings, Facts
<1>4. Tree' /\ Grows
  BY TreeStays DEF StoreConstraints, Good
<1>5. KnowsQuestion(messages', new)
  <2>1. Len(messages') \in Nat
    BY <1>4, DomainIs DEF Tree, TypedRows
  <2> QED BY <1>1, <2>1 DEF KnowsQuestion
<1> HIDE DEF new
<1> QED BY <1>1, <1>3, <1>4, <1>5, TurnKeeps DEF StoreConstraints

LEMMA RefuseKeeps == ASSUME Good, NEW t \in Turn, RefuseInput(t) PROVE IInv'
<1> DEFINE new == [turn[t] EXCEPT !.pc = "answer", !.refused = TRUE]
<1>1. /\ new \in TurnState /\ new.pc = "answer" /\ new.refused
      /\ new.parent = turn[t].parent /\ new.request = turn[t].request
  BY TurnIs DEF TurnState, TurnPcs
<1>2. turn' = [turn EXCEPT ![t] = new]
  BY TurnIs DEF RefuseInput, TurnState
<1>3. TypedSettings' /\ UNCHANGED <<messages, head, reader, client>>
  BY SettingsStay DEF RefuseInput
<1> HIDE DEF new
<1> QED BY <1>1, <1>2, <1>3, TurnGoesOn

LEMMA TurnStepKeeps == ASSUME Good, NEW t \in Turn, TurnStep(t) PROVE IInv'
<1>1. CASE EndTurn(t) \/ AbortTurn(t)
  <2>1. Ends(t) /\ UNCHANGED <<messages, head, reader, client>> /\ TypedSettings'
    BY <1>1, SettingsStay DEF EndTurn, Invalidated, AbortTurn
  <2> QED BY <2>1, EndKeeps
<1> QED BY <1>1, AskKeeps, RefuseKeeps, ReadingKeeps, RestoreKeeps, SummaryKeeps, AnswerKeeps,
           ConstraintsKeep DEF TurnStep

-----------------------------------------------------------------------------

LEMMA StartsGood == Init => IInv
<1> SUFFICES ASSUME Init PROVE Good
  BY Split
<1>1. PICK k \in 0..MaxHistory :
        messages = [n \in 1..k |-> [parent |-> n - 1, request |-> NoOne, kind |-> "message"]]
  BY DEF Init
<1>2. k \in Nat /\ k <= MaxMessages
  BY Limits
<1>3. ASSUME NEW n \in 1..k
      PROVE  [parent |-> n - 1, request |-> NoOne, kind |-> "message"] \in Row
  BY <1>2, Limits DEF Row, Kind
<1>4. messages \in Seq(Row) /\ Len(messages) = k /\ DOMAIN messages = 1..k
  BY <1>1, <1>2, <1>3
<1>5. \A n \in 1..k : messages[n].parent = n - 1 /\ messages[n].kind = "message"
  BY <1>1
<1>6. TypedRows
  BY <1>2, <1>4 DEF Init, TypedRows
<1>7. OneRoot
  BY <1>2, <1>4, <1>5 DEF Init, OneRoot
<1>8. AnswersHaveParents /\ AnswersItsQuestion
  BY <1>4, <1>5 DEF AnswersHaveParents, AnswersItsQuestion
<1>9. TypedSettings
  <2>1. NoSummary \in Summary /\ {} \in Facts
    BY Limits DEF NoSummary, Summary, Facts
  <2> QED BY <2>1 DEF Init, TypedSettings
<1>10. TypedClients /\ TypedTurns
  BY IdleTurnIs DEF Init, TypedClients, TypedTurns, ReaderState
<1>11. \A t \in Turn : TurnOK(t)
  <2>1. \A t \in Turn : turn[t].pc = "idle" /\ turn[t].parent = 0
    BY DEF Init, IdleTurn
  <2> QED BY <1>2, <1>4, <2>1 DEF TurnOK, HasQuestion
<1> QED BY <1>6, <1>7, <1>8, <1>9, <1>10, <1>11 DEF Good, Tree

LEMMA StepKeeps == IInv /\ [Next]_vars => IInv'
<1> SUFFICES ASSUME Good, [Next]_vars PROVE IInv'
  BY Split
<1>1. ASSUME NEW c \in Client,
             PostMessage(c) \/ DeleteConversation(c) \/ Invalidate(c) \/ \E n \in Number : Truncate(c, n)
      PROVE  IInv'
  BY <1>1, PostKeeps, TruncateKeeps, QuietKeeps
<1>2. CASE CacheExpires \/ UNCHANGED vars
  BY <1>2, QuietKeeps
<1>3. CASE \E r \in Reader : MissCache(r) \/ ReadRecent(r) \/ StoreCache(r)
  BY <1>3, QuietKeeps
<1>4. CASE \E t \in Turn : TurnStep(t) \/ \E q \in Request : StartTurn(t, q)
  BY <1>4, TurnStepKeeps, StartKeeps
<1> QED BY <1>1, <1>2, <1>3, <1>4 DEF Next

(* Whatever turns, truncations and lost invalidations come between, the    *)
(* messages form one tree and each turn knows its question.                *)
THEOREM ConversationInvariance == Spec => []IInv
<1>1. Init => IInv
  BY StartsGood
<1>2. IInv /\ [Next]_vars => IInv'
  BY StepKeeps
<1> QED BY <1>1, <1>2, PTL DEF Spec

(* Each question has one answer, stored right under it (_input_guard,      *)
(* _persist, append_message).                                              *)
THEOREM AnswersAreUnderTheirQuestions == Spec => []AnswersItsQuestion
<1>1. IInv => AnswersItsQuestion
  BY DEF IInv
<1> QED BY <1>1, ConversationInvariance, PTL

-----------------------------------------------------------------------------
(* The branch.  IsAncestor is defined by recursion on earlier messages:    *)
(* the least number up to which no such function exists cannot be.         *)

Climbs(f, n, a) == f = [m \in 0..n |-> m = a \/ (m # 0 /\ f[messages[m].parent])]

LEMMA ClimbExtends ==
    ASSUME TypedRows, OneRoot, NEW a, NEW n \in 1..Len(messages), NEW g, Climbs(g, n - 1, a)
    PROVE  \E f : Climbs(f, n, a)
<1> DEFINE Value(m, h) == m = a \/ (m # 0 /\ h[messages[m].parent])
           f == [m \in 0..n |-> IF m = n THEN Value(n, g) ELSE g[m]]
<1>1. \A m \in 1..n : messages[m].parent \in 0..(m - 1)
  <2>1. Len(messages) \in Nat /\ DOMAIN messages = 1..Len(messages)
    BY DomainIs
  <2>2. \A m \in 1..n : messages[m] \in Row /\ messages[m].parent < m
    BY <2>1 DEF TypedRows, OneRoot
  <2>3. \A m \in 1..n : messages[m].parent \in 0..MaxMessages
    BY <2>2 DEF Row
  <2> QED BY <2>1, <2>2, <2>3, Limits
<1>2. n \in Nat /\ n # 0 /\ Len(messages) \in Nat
  BY DomainIs
<1>3. ASSUME NEW m \in 0..n PROVE f[m] = Value(m, f)
  <2>1. m # 0 => f[messages[m].parent] = g[messages[m].parent]
    <3> SUFFICES ASSUME m # 0 PROVE messages[m].parent \in 0..n /\ messages[m].parent # n
      OBVIOUS
    <3>1. messages[m].parent \in 0..(m - 1)
      BY <1>1, <1>2
    <3> QED BY <1>2, <3>1
  <2>2. Value(m, f) = Value(m, g)
    BY <2>1
  <2>3. CASE m = n
    BY <2>2, <2>3
  <2>4. CASE m # n
    <3>1. m \in 0..(n - 1)
      BY <1>2, <2>4
    <3>2. g[m] = Value(m, g)
      BY <3>1 DEF Climbs
    <3>3. f[m] = g[m]
      BY <2>4
    <3> HIDE DEF Value, f
    <3> QED BY <2>2, <3>2, <3>3
  <2> QED BY <2>3, <2>4
<1>4. Climbs(f, n, a)
  <2>1. f = [m \in 0..n |-> f[m]]
    OBVIOUS
  <2>2. [m \in 0..n |-> f[m]] = [m \in 0..n |-> Value(m, f)]
    <3> HIDE DEF f, Value
    <3> QED BY <1>3
  <2> HIDE DEF f
  <2> QED BY <2>1, <2>2 DEF Climbs
<1> HIDE DEF f
<1> QED BY <1>4

LEMMA ClimbExists ==
    ASSUME TypedRows, OneRoot, NEW a
    PROVE  \E f : Climbs(f, Len(messages), a)
<1> DEFINE Bad == {n \in 0..Len(messages) : ~ \E f : Climbs(f, n, a)}
           Less == OpToRel(<, Nat)
<1> SUFFICES ASSUME Bad # {} PROVE FALSE
  BY DomainIs
<1>1. Len(messages) \in Nat /\ Bad \subseteq Nat
  BY DomainIs
<1>2. \A y, r \in Nat : y < r => <<y, r>> \in Less
  BY DEF OpToRel
<1>3. IsWellFoundedOn(Less, Nat)
  BY NatLessThanWellFounded
<1> HIDE DEF Less
<1>4. PICK n \in Bad : \A y \in Bad : <<y, n>> \notin Less
  BY <1>1, <1>3, WFMin
<1>5. n \in 0..Len(messages) /\ ~ \E f : Climbs(f, n, a)
  OBVIOUS
<1>6. CASE n = 0
  <2> DEFINE f == [m \in 0..0 |-> m = a]
  <2>1. \A m \in 0..0 : (m = a) = (m = a \/ (m # 0 /\ f[messages[m].parent]))
    OBVIOUS
  <2>2. Climbs(f, 0, a)
    BY <2>1 DEF Climbs
  <2> QED BY <1>5, <1>6, <2>2
<1>7. CASE n # 0
  <2>1. n - 1 \in 0..Len(messages) /\ n - 1 \in Nat /\ n \in Nat /\ n - 1 < n /\ n \in 1..Len(messages)
    BY <1>1, <1>5, <1>7
  <2>2. n - 1 \notin Bad
    BY <1>2, <1>4, <2>1
  <2>3. \E g : Climbs(g, n - 1, a)
    BY <2>1, <2>2
  <2> QED BY <1>5, <2>1, <2>3, ClimbExtends
<1> QED BY <1>6, <1>7

LEMMA AncestorsOfFirst ==
    ASSUME TypedRows, OneRoot, Len(messages) # 0
    PROVE  Ancestors(1) = {1}
<1>1. Len(messages) \in Nat /\ DOMAIN messages = 1..Len(messages) /\ 1 \in DOMAIN messages
  BY DomainIs
<1>2. messages[1].parent = 0
  BY <1>1 DEF OneRoot
<1>3. ASSUME NEW a \in DOMAIN messages PROVE IsAncestor(a, 1) <=> a = 1
  <2> DEFINE up == CHOOSE f : Climbs(f, Len(messages), a)
  <2>1. Climbs(up, Len(messages), a)
    BY ClimbExists
  <2>2. IsAncestor(a, 1) = up[1]
    BY Zenon DEF IsAncestor, Climbs
  <2> HIDE DEF up
  <2>3. up[0] = (0 = a \/ (0 # 0 /\ up[messages[0].parent]))
    BY <1>1, <2>1 DEF Climbs
  <2>4. up[1] = (1 = a \/ (1 # 0 /\ up[messages[1].parent]))
    BY <1>1, <2>1 DEF Climbs
  <2>5. a # 0
    BY <1>1
  <2> QED BY <1>2, <2>2, <2>3, <2>4, <2>5
<1> QED BY <1>1, <1>3 DEF Ancestors

(* What is shown is the path from the first message to the head, whichever *)
(* turns began on an empty conversation (_visible_branch_rows).            *)
THEOREM VisibleIsTheBranch == Spec => []VisibleIsThePath
<1>1. IInv => VisibleIsThePath
  <2> SUFFICES ASSUME Good, head # 0 PROVE Visible = Ancestors(head)
    BY Split DEF VisibleIsThePath
  <2>1. TypedRows /\ OneRoot /\ Len(messages) # 0 /\ head \in DOMAIN messages
    BY DomainIs DEF Good, Tree, TypedRows, OneRoot
  <2>2. CASE messages[head].parent = 0
    <3>1. head = 1
      BY <2>1, <2>2 DEF OneRoot
    <3>2. Ancestors(1) = {1} /\ Visible = 1..1
      BY <2>1, <2>2, <3>1, AncestorsOfFirst DEF Visible
    <3> QED BY <3>1, <3>2
  <2>3. CASE messages[head].parent # 0
    BY <2>3 DEF Visible
  <2> QED BY <2>2, <2>3
<1> QED BY <1>1, ConversationInvariance, PTL

-----------------------------------------------------------------------------
(* Branches.  A message is its own ancestor and has those of its parent.   *)

LEMMA LeastNumber ==
    ASSUME NEW Bad \in SUBSET Nat, Bad # {}
    PROVE  \E n \in Bad : \A m \in Nat : m < n => m \notin Bad
<1> DEFINE Less == OpToRel(<, Nat)
<1>1. \A m, n \in Nat : m < n => <<m, n>> \in Less
  BY DEF OpToRel
<1>2. IsWellFoundedOn(Less, Nat)
  BY NatLessThanWellFounded
<1> HIDE DEF Less
<1>3. PICK n \in Bad : \A m \in Bad : <<m, n>> \notin Less
  BY <1>2, WFMin
<1> QED BY <1>1, <1>3

Parents ==
    \A n \in DOMAIN messages : messages[n].parent \in 0..(n - 1)

LEMMA ParentsAre == TypedRows /\ OneRoot => Parents
<1> SUFFICES ASSUME TypedRows, OneRoot, NEW n \in DOMAIN messages
             PROVE  messages[n].parent \in 0..(n - 1)
  BY DEF Parents
<1>1. n \in 1..Len(messages) /\ Len(messages) \in Nat /\ messages[n] \in Row
  BY DomainIs DEF TypedRows
<1> QED BY <1>1, Limits DEF OneRoot, Row

LEMMA AncestorsAre ==
    TypedRows /\ OneRoot =>
        /\ \A a : IsAncestor(a, 0) <=> a = 0
        /\ \A a : \A n \in DOMAIN messages :
              IsAncestor(a, n) <=> a = n \/ IsAncestor(a, messages[n].parent)
<1> SUFFICES ASSUME TypedRows, OneRoot, NEW a
             PROVE  /\ IsAncestor(a, 0) <=> a = 0
                    /\ \A n \in DOMAIN messages :
                          IsAncestor(a, n) <=> a = n \/ IsAncestor(a, messages[n].parent)
  OBVIOUS
<1> DEFINE up == CHOOSE f : Climbs(f, Len(messages), a)
<1>1. Climbs(up, Len(messages), a)
  BY ClimbExists
<1>2. \A n : IsAncestor(a, n) = up[n]
  BY Zenon DEF IsAncestor, Climbs
<1> HIDE DEF up
<1>3. DOMAIN messages = 1..Len(messages) /\ Len(messages) \in Nat
  BY DomainIs
<1>4. up[0] = (0 = a \/ (0 # 0 /\ up[messages[0].parent]))
  BY <1>1, <1>3 DEF Climbs
<1>5. ASSUME NEW n \in DOMAIN messages PROVE up[n] = (n = a \/ (n # 0 /\ up[messages[n].parent]))
  BY <1>1, <1>3 DEF Climbs
<1>6. IsAncestor(a, 0) <=> a = 0
  BY <1>2, <1>4
<1>7. ASSUME NEW n \in DOMAIN messages
      PROVE  IsAncestor(a, n) <=> a = n \/ IsAncestor(a, messages[n].parent)
  <2>1. n # 0 /\ IsAncestor(a, n) = up[n] /\ IsAncestor(a, messages[n].parent) = up[messages[n].parent]
    BY <1>2, <1>3
  <2> QED BY <1>5, <2>1
<1> QED BY <1>6, <1>7

LEMMA AncestorsAreNext ==
    (TypedRows /\ OneRoot)' =>
        (/\ \A a : IsAncestor(a, 0) <=> a = 0
         /\ \A a : \A n \in DOMAIN messages :
               IsAncestor(a, n) <=> a = n \/ IsAncestor(a, messages[n].parent))'
  BY AncestorsAre, PTL

(* Only messages are on a branch, and none that is later than its end.     *)
LEMMA AncestorsAreEarlier ==
    ASSUME TypedRows, OneRoot, NEW n \in 0..Len(messages), NEW a \in Ancestors(n)
    PROVE  a \in DOMAIN messages /\ a <= n
<1>1. DOMAIN messages = 1..Len(messages) /\ Len(messages) \in Nat
  BY DomainIs
<1> DEFINE Bad == {k \in 0..Len(messages) : IsAncestor(a, k) /\ ~(a <= k)}
<1>2. a \in DOMAIN messages /\ IsAncestor(a, n)
  BY DEF Ancestors
<1> SUFFICES ASSUME Bad # {} PROVE FALSE
  BY <1>2
<1>3. Bad \in SUBSET Nat
  BY <1>1
<1>4. PICK k \in Bad : \A m \in Nat : m < k => m \notin Bad
  BY <1>3, LeastNumber
<1>5. k # 0
  BY <1>1, <1>2, AncestorsAre
<1>6. k \in DOMAIN messages /\ a # k
  BY <1>1, <1>2, <1>5
<1>7. IsAncestor(a, messages[k].parent) /\ messages[k].parent \in 0..(k - 1)
  BY <1>6, AncestorsAre, ParentsAre DEF Parents
<1>8. messages[k].parent \in Bad
  BY <1>1, <1>2, <1>6, <1>7
<1> QED BY <1>1, <1>4, <1>6, <1>7, <1>8

LEMMA AncestorsAreEarlierNext ==
    (TypedRows /\ OneRoot)' =>
        (\A n : n \in 0..Len(messages) => \A a \in Ancestors(n) : a <= n)'
<1>1. TypedRows /\ OneRoot => \A n : n \in 0..Len(messages) => \A a \in Ancestors(n) : a <= n
  BY AncestorsAreEarlier
<1> QED BY <1>1, PTL

LEMMA BranchOf ==
    ASSUME TypedRows, OneRoot
    PROVE  /\ Ancestors(0) = {}
           /\ \A n \in DOMAIN messages :
                 n \in Ancestors(n) /\ Ancestors(n) = {n} \cup Ancestors(messages[n].parent)
<1>1. DOMAIN messages = 1..Len(messages) /\ Len(messages) \in Nat
  BY DomainIs
<1> QED BY <1>1, AncestorsAre DEF Ancestors

(* The part of a branch that ends at one of its messages is its branch.    *)
LEMMA BranchUpTo ==
    ASSUME TypedRows, OneRoot, NEW n \in 0..Len(messages), NEW a \in Ancestors(n)
    PROVE  Ancestors(a) = {x \in Ancestors(n) : x <= a}
<1>1. DOMAIN messages = 1..Len(messages) /\ Len(messages) \in Nat
  BY DomainIs
<1> DEFINE Part(k) == {x \in Ancestors(k) : x <= a}
           Bad == {k \in 0..Len(messages) : a \in Ancestors(k) /\ Ancestors(a) # Part(k)}
<1> SUFFICES ASSUME Bad # {} PROVE FALSE
  OBVIOUS
<1>2. Bad \in SUBSET Nat
  BY <1>1
<1>3. PICK k \in Bad : \A m \in Nat : m < k => m \notin Bad
  BY <1>2, LeastNumber
<1>4. a \in Ancestors(k) /\ Ancestors(a) # Part(k) /\ k \in 0..Len(messages)
  OBVIOUS
<1>5. k \in DOMAIN messages /\ a \in DOMAIN messages
  BY <1>1, <1>4, BranchOf, AncestorsAreEarlier
<1>6. CASE a = k
  <2>1. \A x \in Ancestors(k) : x <= a
    BY <1>4, <1>6, AncestorsAreEarlier
  <2> QED BY <1>4, <1>6, <2>1
<1>7. CASE a # k
  <2> DEFINE p == messages[k].parent
  <2>1. p \in 0..(k - 1) /\ p \in 0..Len(messages) /\ p \in Nat /\ p < k
    BY <1>1, <1>5, ParentsAre DEF Parents
  <2>2. Ancestors(k) = {k} \cup Ancestors(p) /\ a \in Ancestors(p)
    BY <1>4, <1>5, <1>7, BranchOf
  <2>3. Ancestors(a) = Part(p)
    BY <1>3, <2>1, <2>2
  <2>4. ~(k <= a)
    <3>1. a <= p
      BY <2>1, <2>2, AncestorsAreEarlier
    <3> QED BY <1>1, <1>5, <2>1, <3>1
  <2>5. Part(k) = Part(p)
    BY <2>2, <2>4
  <2> QED BY <1>4, <2>3, <2>5
<1> QED BY <1>6, <1>7

(* A branch is there for good.                                             *)
LEMMA BranchesStay ==
    ASSUME TypedRows, OneRoot, TypedRows', OneRoot', Grows
    PROVE  /\ \A n \in 0..Len(messages) : n \in 0..Len(messages') /\ Ancestors(n)' = Ancestors(n)
           /\ \A B \in Branches : B \in Branches'
           /\ \A W \in Windows : W \in Windows'
<1>1. /\ DOMAIN messages = 1..Len(messages) /\ Len(messages) \in Nat
      /\ DOMAIN messages' = 1..Len(messages') /\ Len(messages') \in Nat
  BY DomainIs DEF TypedRows
<1>2. Len(messages) <= Len(messages')
  BY <1>1 DEF Grows
<1>3. ASSUME NEW a, NEW n \in 0..Len(messages) PROVE IsAncestor(a, n)' <=> IsAncestor(a, n)
  <2> DEFINE Bad == {k \in 0..Len(messages) : ~(IsAncestor(a, k)' <=> IsAncestor(a, k))}
  <2> SUFFICES ASSUME Bad # {} PROVE FALSE
    OBVIOUS
  <2>1. Bad \in SUBSET Nat
    BY <1>1
  <2>2. PICK k \in Bad : \A m \in Nat : m < k => m \notin Bad
    BY <2>1, LeastNumber
  <2>3. k # 0
    BY AncestorsAre, AncestorsAreNext
  <2>4. k \in DOMAIN messages /\ k \in DOMAIN messages' /\ messages'[k] = messages[k]
    BY <1>1, <1>2, <2>3 DEF Grows
  <2>5. messages[k].parent \in 0..(k - 1)
    BY <2>4, ParentsAre DEF Parents
  <2>6. IsAncestor(a, messages[k].parent)' <=> IsAncestor(a, messages[k].parent)
    BY <1>1, <2>2, <2>4, <2>5
  <2> QED BY <2>4, <2>6, AncestorsAre, AncestorsAreNext
<1>4. ASSUME NEW n \in 0..Len(messages)
      PROVE  n \in 0..Len(messages') /\ Ancestors(n)' = Ancestors(n)
  <2>1. n \in 0..Len(messages')
    BY <1>1, <1>2
  <2>2. \A a \in DOMAIN messages' : IsAncestor(a, n)' => a \in DOMAIN messages
    <3>1. \A a \in Ancestors(n)' : a <= n
      BY <2>1, AncestorsAreEarlierNext
    <3>2. Ancestors(n)' = {a \in DOMAIN messages' : IsAncestor(a, n)'}
      BY DEF Ancestors
    <3> QED BY <1>1, <3>1, <3>2
  <2>3. DOMAIN messages \subseteq DOMAIN messages'
    BY DEF Grows
  <2> QED BY <1>3, <2>1, <2>2, <2>3 DEF Ancestors
<1>5. \A B \in Branches : B \in Branches'
  <2>1. Branches' = {Ancestors(n)' : n \in 0..Len(messages')}
    BY DEF Branches
  <2> QED BY <1>4, <2>1 DEF Branches
<1>6. \A W \in Windows : W \in Windows'
  BY <1>5 DEF Windows, Newest
<1> QED BY <1>4, <1>5, <1>6

-----------------------------------------------------------------------------
(* Newest and oldest messages.                                             *)

LEMMA NumbersAreFinite ==
    ASSUME NEW S \in SUBSET Number
    PROVE  IsFiniteSet(S) /\ Cardinality(S) \in Nat /\ Cardinality(S) <= MaxMessages
<1>1. IsFiniteSet(Number) /\ Cardinality(Number) = MaxMessages
  BY Limits, FS_Interval DEF Number
<1> QED BY <1>1, FS_Subset, FS_CardinalityType

LEMMA AreNumbers == ASSUME NEW S \in SUBSET Number PROVE \A x \in S : x \in Nat /\ x \in Number
  BY Limits DEF Number

LEMMA NewestIsEnd ==
    ASSUME NEW S \in SUBSET Number, NEW k \in Nat, NEW x \in Newest(k, S), NEW y \in S, y >= x
    PROVE  y \in Newest(k, S)
<1> DEFINE After(n) == {z \in S : z > n}
<1>1. After(y) \subseteq After(x) /\ After(x) \in SUBSET Number /\ After(y) \in SUBSET Number /\ x \in S
  BY AreNumbers DEF Newest
<1> HIDE DEF After
<1>2. Cardinality(After(y)) <= Cardinality(After(x))
  BY <1>1, NumbersAreFinite, FS_Subset
<1>3. Cardinality(After(x)) < k
  BY DEF Newest, After
<1>4. Cardinality(After(y)) < k
  BY <1>1, <1>2, <1>3, NumbersAreFinite
<1> QED BY <1>4 DEF Newest, After

(* Fewer newest messages than were asked for are all that there are.       *)
LEMMA FewAreAll ==
    ASSUME NEW S \in SUBSET Number, NEW k \in Nat, Cardinality(Newest(k, S)) < k
    PROVE  Newest(k, S) = S
<1> DEFINE Left == S \ Newest(k, S)
<1> SUFFICES ASSUME Left # {} PROVE FALSE
  BY DEF Newest
<1>1. Left \in SUBSET Number /\ Newest(k, S) \in SUBSET Number
  BY DEF Newest
<1>2. Max(Left) \in Left /\ \A x \in Left : Max(Left) >= x
  BY <1>1, MaxIsGreatest
<1> DEFINE m == Max(Left)
           After == {z \in S : z > m}
<1>3. m \in S /\ m \notin Newest(k, S) /\ m \in Nat
  BY <1>2, AreNumbers
<1>4. After \subseteq Newest(k, S)
  BY <1>2, <1>3, AreNumbers
<1>5. ~(Cardinality(After) < k)
  BY <1>3 DEF Newest
<1> HIDE DEF After
<1>6. Cardinality(After) <= Cardinality(Newest(k, S))
  BY <1>1, <1>4, NumbersAreFinite, FS_Subset
<1>7. Cardinality(After) \in Nat /\ Cardinality(Newest(k, S)) \in Nat
  BY <1>1, <1>4, NumbersAreFinite
<1> QED BY <1>5, <1>6, <1>7

(* All messages are among the oldest of one page.                          *)
LEMMA PageHasAll ==
    ASSUME OnePage, NEW S \in SUBSET Number
    PROVE  Oldest(PageSize, S) = S
<1> SUFFICES ASSUME NEW x \in S PROVE Cardinality({y \in S : y < x}) < PageSize
  BY DEF Oldest
<1> DEFINE Before == {y \in S : y < x}
<1>1. IsFiniteSet(Number) /\ Cardinality(Number) = MaxMessages /\ x \in Number
  BY Limits, FS_Interval DEF Number
<1>2. IsFiniteSet(Number \ {x}) /\ Cardinality(Number \ {x}) = MaxMessages - 1
  BY <1>1, FS_RemoveElement
<1>3. Before \subseteq Number \ {x}
  BY <1>1, AreNumbers
<1> HIDE DEF Before
<1>4. Cardinality(Before) <= MaxMessages - 1 /\ Cardinality(Before) \in Nat
  BY <1>2, <1>3, FS_Subset, FS_CardinalityType
<1>5. Cardinality(Before) < PageSize
  BY <1>4, Limits, ConversationsAssumption DEF OnePage
<1> QED BY <1>5 DEF Before

-----------------------------------------------------------------------------
(* What is read of a branch, and what is summarised of it.                 *)

LEMMA BranchNumbers ==
    ASSUME TypedRows, OneRoot
    PROVE  \A B \in Branches : B \in SUBSET Number /\ B \in SUBSET DOMAIN messages
<1>1. DOMAIN messages \subseteq Number
  BY DomainIs, Limits DEF TypedRows, Number
<1> QED BY <1>1 DEF Branches, Ancestors

LEMMA VisibleIsBranch ==
    ASSUME TypedRows, OneRoot
    PROVE  Visible = Ancestors(head) /\ Visible \in Branches /\ Recent \in Windows
<1>1. Visible = Ancestors(head)
  <2>1. CASE head = 0
    BY <2>1, BranchOf DEF Visible
  <2>2. CASE head # 0 /\ messages[head].parent = 0
    <3>1. head = 1 /\ Len(messages) # 0
      BY <2>2, DomainIs DEF TypedRows, OneRoot
    <3>2. Ancestors(1) = {1} /\ Visible = 1..1
      BY <2>2, <3>1, AncestorsOfFirst DEF Visible
    <3> QED BY <3>1, <3>2
  <2>3. CASE head # 0 /\ messages[head].parent # 0
    BY <2>3 DEF Visible
  <2> QED BY <2>1, <2>2, <2>3
<1>2. Visible \in Branches
  BY <1>1 DEF Branches, TypedRows
<1> QED BY <1>1, <1>2 DEF Windows, Recent

LEMMA ShortIsBranch ==
    ASSUME TypedRows, OneRoot, NEW rows \in Windows, IsShort(rows)
    PROVE  rows \in Branches
<1>1. PICK B \in Branches : rows = Newest(Window, B)
  BY DEF Windows
<1>2. B \in SUBSET Number /\ rows \in SUBSET Number
  BY <1>1, BranchNumbers DEF Newest
<1>3. Cardinality(rows) < Window
  BY <1>2, NumbersAreFinite, ConversationsAssumption DEF IsShort
<1> QED BY <1>1, <1>2, <1>3, FewAreAll, ConversationsAssumption

LEMMA SummaryOfBranch ==
    ASSUME TypedRows, OneRoot, NEW rows \in Branches, NEW k \in Nat,
           NEW s \in Summary, IsOfBranch(s), rows \ Newest(k, rows) # {}
    PROVE  LET prefix == rows \ Newest(k, rows)
               made == Summarised(s, prefix)
           IN made.covers = prefix /\ IsOfBranch(made) /\ made.through = Max(prefix)
<1> DEFINE prefix == rows \ Newest(k, rows)
           made == Summarised(s, prefix)
           m == Max(prefix)
<1>1. PICK n \in 0..Len(messages) : rows = Ancestors(n)
  BY DEF Branches
<1>2. rows \in SUBSET Number /\ prefix \in SUBSET Number /\ rows \in SUBSET DOMAIN messages
  BY BranchNumbers
<1>3. m \in prefix /\ \A x \in prefix : m >= x
  BY <1>2, MaxIsGreatest
<1>4. prefix = {x \in rows : x <= m}
  <2>1. ASSUME NEW x \in rows, x <= m PROVE x \notin Newest(k, rows)
    BY <1>2, <1>3, <2>1, NewestIsEnd DEF Number
  <2> QED BY <1>2, <1>3, <2>1 DEF Number
<1>5. prefix = Ancestors(m) /\ m \in DOMAIN messages
  BY <1>1, <1>2, <1>3, <1>4, BranchUpTo
<1> HIDE DEF prefix, m
<1>6. CASE s.through \in prefix
  <2>1. s.through # 0 /\ s.covers = Ancestors(s.through)
    BY <1>2, <1>6 DEF IsOfBranch, Number
  <2>2. s.covers = {x \in prefix : x <= s.through}
    <3>1. m \in 0..Len(messages)
      BY <1>5, DomainIs
    <3> QED BY <1>5, <1>6, <2>1, <3>1, BranchUpTo
  <2>3. s.covers \cup {x \in prefix : x > s.through} = prefix
    BY <1>2, <1>6, <2>2, AreNumbers
  <2>4. made.covers = prefix /\ made.through = m
    BY <1>6, <2>3 DEF Summarised, m
  <2> QED BY <1>5, <2>4 DEF IsOfBranch, prefix, m
<1>7. CASE s.through \notin prefix
  <2>1. made.covers = prefix /\ made.through = m
    BY <1>7 DEF Summarised, m
  <2> QED BY <1>5, <2>1 DEF IsOfBranch, prefix, m
<1> QED BY <1>6, <1>7

-----------------------------------------------------------------------------
(* Memory.                                                                 *)

RecordOK(new) ==
    /\ new.pc = "store" => new.rows \in Windows
    /\ new.pc = "page" => new.rows \in {{}, Number} \cap Branches
    /\ new.pc = "summary" => new.rows \in Branches
    /\ new.known \in Branches
    /\ IsOfBranch(new.summary)

LEMMA RecordsAre == \A t : RemembersOneBranch(t) <=> RecordOK(turn[t])
  BY DEF RemembersOneBranch, RecordOK

LEMMA EmptyIsBranch == ASSUME TypedRows, OneRoot PROVE {} \in Branches
<1>1. Ancestors(0) = {} /\ 0 \in 0..Len(messages)
  BY BranchOf, DomainIs
<1> QED BY <1>1 DEF Branches

LEMMA StepGrows == ASSUME Good, [Next]_vars PROVE Grows
<1>1. UNCHANGED messages \/ \E parent, request, kind : AppendRow(parent, request, kind)
  <2>1. ASSUME NEW c \in Client PROVE PostMessage(c) =>
            UNCHANGED messages \/ \E parent, request, kind : AppendRow(parent, request, kind)
    BY DEF PostMessage
  <2>2. ASSUME NEW c \in Client,
               DeleteConversation(c) \/ Invalidate(c) \/ \E n \in Number : Truncate(c, n)
        PROVE  UNCHANGED messages
    BY <2>2 DEF DeleteConversation, Invalidate, Truncate
  <2>3. CASE CacheExpires \/ UNCHANGED vars
    BY <2>3 DEF CacheExpires, vars
  <2>4. ASSUME NEW r \in Reader, MissCache(r) \/ ReadRecent(r) \/ StoreCache(r) PROVE UNCHANGED messages
    BY <2>4 DEF MissCache, ReadRecent, StoreCache
  <2>5. ASSUME NEW t \in Turn, NEW q \in Request, StartTurn(t, q) PROVE UNCHANGED messages
    BY <2>5 DEF StartTurn
  <2>6. ASSUME NEW t \in Turn, AskQuestion(t) \/ PersistAnswer(t)
        PROVE  UNCHANGED messages \/ \E parent, request, kind : AppendRow(parent, request, kind)
    BY <2>6 DEF AskQuestion, PersistAnswer
  <2>7. ASSUME NEW t \in Turn,
               \/ RefuseInput(t) \/ InvalidateQuestion(t) \/ RestoreMemory(t) \/ ReadHot(t)
               \/ LoadRecent(t) \/ StoreHot(t) \/ ReadPage(t) \/ SummarisePrefix(t)
               \/ StoreConstraints(t) \/ EndTurn(t) \/ AbortTurn(t)
        PROVE  UNCHANGED messages
    BY <2>7 DEF RefuseInput, InvalidateQuestion, RestoreMemory, ReadHot, LoadRecent, StoreHot, ReadPage,
       SummarisePrefix, StoreConstraints, EndTurn, AbortTurn
  <2> QED BY <2>1, <2>2, <2>3, <2>4, <2>5, <2>6, <2>7 DEF Next, TurnStep
<1>2. messages \in Seq(Row)
  BY DEF Good, Tree, TypedRows
<1>3. ASSUME NEW row, messages' = Append(messages, row) PROVE Grows
  BY <1>2, <1>3 DEF Grows
<1>4. ASSUME NEW parent, NEW request, NEW kind, AppendRow(parent, request, kind) PROVE Grows
  BY <1>3, <1>4 DEF AppendRow
<1>5. CASE UNCHANGED messages
  BY <1>5 DEF Grows
<1> QED BY <1>1, <1>4, <1>5

(* What a step writes is of one branch: so is then all that is remembered. *)
LEMMA MemoryStays ==
    ASSUME MemoryInv, IInv', Grows,
           cache' \in {NoOne, cache} \/ cache' \in Windows,
           summary' = summary \/ IsOfBranch(summary'),
           \A r \in Reader : \/ reader'[r] = reader[r]
                             \/ reader'[r].pc = "store" => reader'[r].rows \in Windows,
           \A t \in Turn : turn'[t] = turn[t] \/ RecordOK(turn'[t])
    PROVE  MemoryInv'
<1>1. TypedRows /\ OneRoot /\ TypedRows' /\ OneRoot' /\ \A t \in Turn : RecordOK(turn[t])
  BY Split, SplitNext, RecordsAre DEF MemoryInv, Good, Tree
<1>2. /\ \A n \in 0..Len(messages) : n \in 0..Len(messages') /\ Ancestors(n)' = Ancestors(n)
      /\ \A B \in Branches : B \in Branches'
      /\ \A W \in Windows : W \in Windows'
  BY <1>1, BranchesStay
<1>3. cache' # NoOne => cache' \in Windows'
  BY <1>2 DEF MemoryInv
<1>4. \A r \in Reader : reader'[r].pc = "store" => reader'[r].rows \in Windows'
  BY <1>2 DEF MemoryInv
<1>5. ASSUME NEW s, IsOfBranch(s)
      PROVE  s.through # 0 => s.through \in DOMAIN messages' /\ s.covers = Ancestors(s.through)'
  BY <1>1, <1>2, <1>5, DomainIs DEF IsOfBranch, Grows
<1>6. IsOfBranch(summary)'
  BY <1>5 DEF MemoryInv, IsOfBranch
<1>7. ASSUME NEW t \in Turn PROVE RemembersOneBranch(t)'
  <2>1. RecordOK(turn'[t])
    BY <1>1
  <2>2. IsOfBranch(turn[t].summary)'
    BY <1>5, <2>1 DEF RecordOK, IsOfBranch
  <2> QED BY <1>2, <2>1, <2>2 DEF RecordOK, RemembersOneBranch
<1> QED BY <1>3, <1>4, <1>6, <1>7 DEF MemoryInv
Remembering == /\ TypedRows /\ OneRoot /\ {} \in Branches /\ IsOfBranch(NoSummary)
               /\ \A t \in Turn : RecordOK(turn[t]) /\ turn[t] \in TurnState
               /\ turn \in [Turn -> TurnState]

LEMMA MemoryHas == ASSUME MemoryInv PROVE Remembering
<1>1. Good /\ \A t \in Turn : RecordOK(turn[t])
  BY Split, RecordsAre DEF MemoryInv
<1>2. TypedRows /\ OneRoot
  BY <1>1 DEF Good, Tree
<1>3. {} \in Branches
  BY <1>2, EmptyIsBranch
<1>4. IsOfBranch(NoSummary)
  BY DEF IsOfBranch, NoSummary
<1>5. turn \in [Turn -> TurnState]
  BY <1>1 DEF Good, TypedTurns
<1> QED BY <1>1, <1>2, <1>3, <1>4, <1>5 DEF Remembering

(* Turn t goes on.                                                         *)
LEMMA TurnRemembers ==
    ASSUME MemoryInv, IInv', Grows, UNCHANGED reader,
           cache' \in {NoOne, cache} \/ cache' \in Windows,
           summary' = summary \/ IsOfBranch(summary'),
           NEW t \in Turn, NEW new, turn' = [turn EXCEPT ![t] = new], RecordOK(new)
    PROVE  MemoryInv'
<1>1. turn'[t] = new /\ \A u \in Turn : u # t => turn'[u] = turn[u]
  BY MemoryHas DEF Remembering
<1> QED BY <1>1, MemoryStays

LEMMA RequestsRemember ==
    ASSUME MemoryInv, IInv', Grows,
           \/ \E c \in Client : \/ PostMessage(c) \/ DeleteConversation(c) \/ Invalidate(c)
                                \/ \E n \in Number : Truncate(c, n)
           \/ CacheExpires
           \/ UNCHANGED vars
    PROVE  MemoryInv'
<1>1. UNCHANGED <<turn, reader>> /\ cache' \in {NoOne, cache}
  BY DEF PostMessage, DeleteConversation, Invalidate, Invalidated, Truncate, CacheExpires, vars
<1>2. summary' = summary \/ summary' = NoSummary
  BY DEF PostMessage, DeleteConversation, Invalidate, Truncate, CacheExpires, vars, settings
<1> QED BY <1>1, <1>2, MemoryHas, MemoryStays DEF Remembering

LEMMA ReadersRemember ==
    ASSUME MemoryInv, IInv', Grows, NEW r \in Reader, MissCache(r) \/ ReadRecent(r) \/ StoreCache(r)
    PROVE  MemoryInv'
<1>1. UNCHANGED <<turn, summary>>
  BY DEF MissCache, ReadRecent, StoreCache, settings
<1>2. reader \in [Reader -> ReaderState] /\ Recent \in Windows
  BY Split, MemoryHas, VisibleIsBranch DEF MemoryInv, Good, TypedClients, Remembering
<1>3. cache' = cache \/ cache' \in Windows
  BY DEF MemoryInv, MissCache, ReadRecent, StoreCache
<1>4. \A q \in Reader : \/ reader'[q] = reader[q]
                        \/ reader'[q].pc = "store" => reader'[q].rows \in Windows
  BY <1>2 DEF MissCache, ReadRecent, StoreCache, ReaderState
<1> QED BY <1>1, <1>3, <1>4, MemoryStays

LEMMA IdleRemembers ==
    ASSUME Remembering, NEW new, new.summary = NoSummary, new.known = {},
           new.pc \notin {"store", "page", "summary"}
    PROVE  RecordOK(new)
  BY DEF Remembering, RecordOK

LEMMA HotRemembers ==
    ASSUME MemoryInv, IInv', Grows, UNCHANGED <<reader, summary>>,
           cache' \in {NoOne, cache} \/ cache' \in Windows,
           NEW t \in Turn, NEW rows \in Windows, HaveHot(t, rows)
    PROVE  MemoryInv'
<1>1. Remembering /\ turn[t] \in TurnState /\ RecordOK(turn[t])
  BY MemoryHas DEF Remembering
<1>2. CASE IsShort(rows)
  <2> DEFINE new == [turn[t] EXCEPT !.pc = "summary", !.rows = rows]
  <2>1. turn' = [turn EXCEPT ![t] = new]
    BY <1>1, <1>2 DEF HaveHot, TurnState, Remembering
  <2>2. /\ new.pc = "summary" /\ new.rows = rows /\ new.known = turn[t].known
        /\ new.summary = turn[t].summary
    BY <1>1 DEF TurnState
  <2>3. rows \in Branches
    BY <1>1, <1>2, ShortIsBranch DEF Remembering
  <2> HIDE DEF new
  <2>4. RecordOK(new)
    BY <1>1, <2>2, <2>3 DEF RecordOK
  <2> QED BY <2>1, <2>4, TurnRemembers
<1>3. CASE ~IsShort(rows)
  <2> DEFINE new == [turn[t] EXCEPT !.pc = "page", !.rows = {}]
  <2>1. turn' = [turn EXCEPT ![t] = new]
    BY <1>1, <1>3 DEF HaveHot, TurnState, Remembering
  <2>2. /\ new.pc = "page" /\ new.rows = {} /\ new.known = turn[t].known
        /\ new.summary = turn[t].summary
    BY <1>1 DEF TurnState
  <2> HIDE DEF new
  <2>3. RecordOK(new)
    BY <1>1, <2>2 DEF RecordOK, Remembering
  <2> QED BY <2>1, <2>3, TurnRemembers
<1> QED BY <1>2, <1>3

(* A page is the whole branch; when it is full, the next one is empty.     *)
LEMMA PageRemembers ==
    ASSUME OnePage, MemoryInv, IInv', Grows, NEW t \in Turn, ReadPage(t)
    PROVE  MemoryInv'
<1> DEFINE after == Max({0} \cup turn[t].rows)
           page == Oldest(PageSize, {n \in Visible : n > after})
           rows == turn[t].rows \cup page
           pc == IF Cardinality(page) < PageSize THEN "summary" ELSE "page"
           new == [turn[t] EXCEPT !.rows = rows, !.pc = pc]
<1>1. Remembering /\ turn[t] \in TurnState /\ RecordOK(turn[t]) /\ turn[t].pc = "page"
  BY MemoryHas DEF Remembering, ReadPage
<1>2. turn' = [turn EXCEPT ![t] = new] /\ UNCHANGED <<reader, cache, summary>>
  BY <1>1 DEF ReadPage, TurnState, Remembering, settings
<1>3. Visible \in Branches /\ Visible \in SUBSET Number
  BY <1>1, VisibleIsBranch, BranchNumbers DEF Remembering
<1>4. CASE turn[t].rows = {}
  <2>1. Max({0}) = 0
    BY DEF Max
  <2>2. {n \in Visible : n > after} = Visible
    <3>1. after = 0
      BY <1>4, <2>1
    <3>2. \A n \in Visible : n \in Nat /\ n \in 1..MaxMessages
      BY <1>3, AreNumbers DEF Number
    <3> QED BY <3>1, <3>2, Limits
  <2>3. page = Visible
    BY <1>3, <2>2, PageHasAll
  <2>4. rows = Visible
    BY <1>4, <2>3
  <2>5. pc = "page" => Visible = Number
    <3> SUFFICES ASSUME ~(Cardinality(Visible) < PageSize) PROVE Visible = Number
      BY <2>3
    <3>1. IsFiniteSet(Number) /\ Cardinality(Number) = MaxMessages
      BY Limits, FS_Interval DEF Number
    <3>2. Cardinality(Visible) \in Nat /\ Cardinality(Visible) <= MaxMessages
      BY <1>3, NumbersAreFinite
    <3>3. Cardinality(Visible) = MaxMessages
      BY <3>2, Limits, ConversationsAssumption DEF OnePage
    <3> QED BY <1>3, <3>1, <3>3, FS_Subset
  <2>6. /\ new.rows = Visible /\ new.pc = pc /\ new.known = turn[t].known
        /\ new.summary = turn[t].summary
    BY <1>1, <2>4 DEF TurnState
  <2>7. pc \in {"summary", "page"}
    OBVIOUS
  <2> HIDE DEF new, pc
  <2>8. RecordOK(new)
    BY <1>1, <1>3, <2>5, <2>6, <2>7 DEF RecordOK
  <2> QED BY <1>2, <2>8, TurnRemembers
<1>5. CASE turn[t].rows = Number /\ Number # {}
  <2>1. {n \in Visible : n > after} = {}
    <3>1. after = MaxMessages
      <4>1. MaxMessages \in {0} \cup Number /\ \A n \in {0} \cup Number : MaxMessages >= n /\ n \in Nat
        BY <1>5, Limits DEF Number
      <4>2. after = Max({0} \cup Number)
        BY <1>5
      <4>3. \A n \in {0} \cup Number : (\A y \in {0} \cup Number : n >= y) => n = MaxMessages
        BY <4>1, Limits
      <4> HIDE DEF after
      <4> QED BY <4>1, <4>2, <4>3 DEF Max
    <3>2. \A n \in Visible : n \in Nat /\ n \in 1..MaxMessages
      BY <1>3, AreNumbers DEF Number
    <3> QED BY <3>1, <3>2, Limits
  <2>2. page = {}
    BY <2>1 DEF Oldest
  <2>3. pc = "summary"
    <3>1. Cardinality({}) = 0 /\ 0 < PageSize
      BY FS_EmptySet, ConversationsAssumption
    <3> HIDE DEF page
    <3> QED BY <2>2, <3>1
  <2>4. rows = Number /\ Number \in Branches
    BY <1>1, <1>5, <2>2 DEF RecordOK
  <2>5. /\ new.rows = Number /\ new.pc = "summary" /\ new.known = turn[t].known
        /\ new.summary = turn[t].summary
    BY <1>1, <2>3, <2>4 DEF TurnState
  <2> HIDE DEF new
  <2>6. RecordOK(new)
    BY <1>1, <2>4, <2>5 DEF RecordOK
  <2> QED BY <1>2, <2>6, TurnRemembers
<1>6. turn[t].rows \in {{}, Number}
  BY <1>1 DEF RecordOK
<1> QED BY <1>4, <1>5, <1>6
(* The summary that is written and what the model is given.                *)
LEMMA SummaryRemembers ==
    ASSUME MemoryInv, IInv', Grows, NEW t \in Turn, SummarisePrefix(t)
    PROVE  MemoryInv'
<1> DEFINE rows == turn[t].rows
<1>1. /\ Remembering /\ turn[t] \in TurnState /\ RecordOK(turn[t])
      /\ rows \in Branches /\ IsOfBranch(turn[t].summary) /\ turn[t].summary \in Summary
  BY MemoryHas DEF Remembering, SummarisePrefix, RecordOK, TurnState
<1>2. PICK k \in 1..Context :
        LET kept == Newest(k, rows)
            prefix == rows \ kept
            made == Summarised(turn[t].summary, prefix)
        IN /\ turn' = [turn EXCEPT
                 ![t].pc = "answer", ![t].rows = {}, ![t].summary = NoSummary,
                 ![t].known = kept \cup IF prefix = {} THEN {} ELSE made.covers]
           /\ IF prefix = {} \/ turn[t].summary.through = Max(prefix)
              THEN UNCHANGED summary
              ELSE ~deleted /\ summary' = made
  BY DEF SummarisePrefix
<1> DEFINE kept == Newest(k, rows)
           prefix == rows \ kept
           made == Summarised(turn[t].summary, prefix)
           known == kept \cup IF prefix = {} THEN {} ELSE made.covers
           new == [turn[t] EXCEPT !.pc = "answer", !.rows = {}, !.summary = NoSummary, !.known = known]
<1>3. k \in Nat /\ kept \subseteq rows
  BY DEF Newest
<1>4. prefix # {} => made.covers = prefix /\ IsOfBranch(made)
  <2>1. TypedRows /\ OneRoot
    BY <1>1 DEF Remembering
  <2> QED BY <1>1, <1>3, <2>1, SummaryOfBranch
<1>5. summary' = summary \/ (prefix # {} /\ summary' = made)
  BY <1>2
<1>6. turn' = [turn EXCEPT ![t].pc = "answer", ![t].rows = {}, ![t].summary = NoSummary,
                          ![t].known = known]
  BY <1>2
<1> HIDE DEF made, kept
<1>7. known = rows
  BY <1>3, <1>4
<1> HIDE DEF known, prefix
<1>8. turn' = [turn EXCEPT ![t] = new]
  BY <1>1, <1>6 DEF Remembering, TurnState
<1>9. new.pc = "answer" /\ new.known = known /\ new.summary = NoSummary
  BY <1>1 DEF TurnState
<1> HIDE DEF new, rows
<1>10. RecordOK(new)
  BY <1>1, <1>7, <1>9 DEF RecordOK, Remembering
<1>11. summary' = summary \/ IsOfBranch(summary')
  BY <1>4, <1>5
<1>12. UNCHANGED <<reader, cache>>
  BY DEF SummarisePrefix
<1> QED BY <1>8, <1>10, <1>11, <1>12, TurnRemembers

(* A turn that begins, ends, or goes on with what it remembers.            *)
LEMMA SameRemembers ==
    ASSUME MemoryInv, IInv', Grows, UNCHANGED <<reader, summary>>, cache' \in {NoOne, cache},
           NEW t \in Turn, NEW new \in TurnState, turn' = [turn EXCEPT ![t] = new],
           new.pc \notin {"store", "page", "summary"},
           new.summary = turn[t].summary \/ new.summary = NoSummary \/ new.summary = summary,
           new.known = turn[t].known \/ new.known = {}
    PROVE  MemoryInv'
<1>1. Remembering /\ RecordOK(turn[t]) /\ IsOfBranch(summary)
  BY MemoryHas DEF Remembering, MemoryInv
<1>2. RecordOK(new)
  BY <1>1 DEF RecordOK, Remembering
<1> QED BY <1>2, TurnRemembers

LEMMA TurnStepRemembers ==
    ASSUME OnePage, MemoryInv, IInv', Grows, NEW t \in Turn,
           TurnStep(t) \/ \E q \in Request : StartTurn(t, q)
    PROVE  MemoryInv'
<1>1. /\ Remembering /\ turn[t] \in TurnState /\ turn \in [Turn -> TurnState]
      /\ turn' \in [Turn -> TurnState] /\ Recent \in Windows
  <2>1. turn' \in [Turn -> TurnState]
    BY SplitNext DEF Good, TypedTurns
  <2> QED BY <2>1, MemoryHas, VisibleIsBranch DEF Remembering
<1>2. ASSUME NEW q \in Request, StartTurn(t, q) PROVE MemoryInv'
  <2> DEFINE new == [IdleTurn EXCEPT !.pc = "ask", !.request = q, !.parent = head]
  <2>1. turn' = [turn EXCEPT ![t] = new] /\ new = turn'[t]
    BY <1>1, <1>2 DEF StartTurn
  <2>2. new.pc = "ask" /\ new.summary = NoSummary /\ new.known = {}
    BY DEF IdleTurn
  <2>3. UNCHANGED <<reader, summary, cache>>
    BY <1>2 DEF StartTurn, settings
  <2> HIDE DEF new
  <2> QED BY <1>1, <2>1, <2>2, <2>3, SameRemembers
<1>3. CASE AskQuestion(t) \/ RefuseInput(t) \/ InvalidateQuestion(t) \/ PersistAnswer(t)
  <2>1. /\ turn'[t].pc \in {"invalidate", "answer", "restore", "end", "constraints"}
        /\ turn'[t].summary = turn[t].summary
        /\ turn'[t].known = turn[t].known \/ turn'[t].known = {}
        /\ turn' = [turn EXCEPT ![t] = turn'[t]]
        /\ UNCHANGED <<reader, summary>> /\ cache' \in {NoOne, cache}
    BY <1>1, <1>3 DEF AskQuestion, RefuseInput, InvalidateQuestion, PersistAnswer, Goto, Invalidated,
       settings, TurnState
  <2> QED BY <1>1, <2>1, SameRemembers
<1>4. CASE RestoreMemory(t)
  <2>1. /\ turn'[t].pc = "hot" /\ turn'[t].summary = summary /\ turn'[t].known = turn[t].known
        /\ turn' = [turn EXCEPT ![t] = turn'[t]]
        /\ UNCHANGED <<reader, summary, cache>>
    BY <1>1, <1>4 DEF RestoreMemory, settings, TurnState
  <2> QED BY <1>1, <2>1, SameRemembers
<1>5. CASE ReadHot(t) /\ cache = NoOne
  <2>1. /\ turn'[t].pc = "load" /\ turn'[t].summary = turn[t].summary
        /\ turn'[t].known = turn[t].known
        /\ turn' = [turn EXCEPT ![t] = turn'[t]]
        /\ UNCHANGED <<reader, summary, cache>>
    BY <1>1, <1>5 DEF ReadHot, Goto, settings, TurnState
  <2> QED BY <1>1, <2>1, SameRemembers
<1>6. CASE ReadHot(t) /\ cache # NoOne
  <2>1. cache \in Windows /\ HaveHot(t, cache) /\ UNCHANGED <<reader, summary, cache>>
    BY <1>6 DEF ReadHot, MemoryInv, settings
  <2> QED BY <2>1, HotRemembers
<1>7. CASE LoadRecent(t)
  <2> DEFINE new == [turn[t] EXCEPT !.pc = "store", !.rows = Recent]
  <2>1. /\ turn' = [turn EXCEPT ![t] = new] /\ UNCHANGED <<reader, summary, cache>>
    BY <1>1, <1>7 DEF LoadRecent, settings, TurnState
  <2>2. /\ new.pc = "store" /\ new.rows = Recent /\ new.summary = turn[t].summary
        /\ new.known = turn[t].known
    BY <1>1 DEF TurnState
  <2> HIDE DEF new
  <2>3. RecordOK(new)
    BY <1>1, <2>2 DEF RecordOK, Remembering
  <2> QED BY <2>1, <2>3, TurnRemembers
<1>8. CASE StoreHot(t)
  <2>1. turn[t].rows \in Windows /\ HaveHot(t, turn[t].rows) /\ UNCHANGED <<reader, summary>>
        /\ cache' = turn[t].rows
    BY <1>1, <1>8 DEF StoreHot, Remembering, RecordOK, settings
  <2> QED BY <2>1, HotRemembers
<1>9. CASE ReadPage(t) \/ SummarisePrefix(t)
  BY <1>9, PageRemembers, SummaryRemembers
<1>10. CASE StoreConstraints(t) \/ EndTurn(t) \/ AbortTurn(t)
  <2>1. /\ turn'[t].pc \in {"end", "done"}
        /\ turn'[t].summary = NoSummary /\ turn'[t].known = {}
        /\ turn' = [turn EXCEPT ![t] = turn'[t]]
        /\ UNCHANGED <<reader, summary>> /\ cache' \in {NoOne, cache}
    BY <1>1, <1>10 DEF StoreConstraints, EndTurn, AbortTurn, Ends, Invalidated, settings, IdleTurn
  <2> QED BY <1>1, <2>1, SameRemembers
<1> QED BY <1>2, <1>3, <1>4, <1>5, <1>6, <1>7, <1>8, <1>9, <1>10 DEF TurnStep

LEMMA StartsRemembering == Init => MemoryInv
<1> SUFFICES ASSUME Init PROVE MemoryInv
  OBVIOUS
<1>1. IInv /\ TypedRows /\ OneRoot
  BY StartsGood, Split DEF Good, Tree
<1>2. {} \in Branches /\ IsOfBranch(NoSummary)
  BY <1>1, EmptyIsBranch DEF IsOfBranch, NoSummary
<1>3. \A t \in Turn : turn[t] = IdleTurn
  BY DEF Init
<1>4. IdleTurn.pc = "idle" /\ IdleTurn.known = {} /\ IdleTurn.summary = NoSummary
  BY DEF IdleTurn
<1>5. RecordOK(IdleTurn)
  BY <1>2, <1>4 DEF RecordOK
<1>6. \A t \in Turn : RemembersOneBranch(t)
  BY <1>3, <1>5, RecordsAre
<1> QED BY <1>1, <1>2, <1>6 DEF Init, MemoryInv

(* While conversations fit a page, the cache, its readers and the turns    *)
(* only hold what was one branch, whatever was appended or truncated       *)
(* between their steps.                                                    *)
THEOREM MemoryInvariance == ASSUME OnePage PROVE Spec => []MemoryInv
<1>1. MemoryInv /\ [Next]_vars => MemoryInv'
  <2> SUFFICES ASSUME MemoryInv, [Next]_vars PROVE MemoryInv'
    OBVIOUS
  <2>1. IInv' /\ Grows
    BY StepKeeps, StepGrows, Split DEF MemoryInv
  <2> QED BY <2>1, RequestsRemember, ReadersRemember, TurnStepRemembers DEF Next
<1> QED BY <1>1, StartsRemembering, PTL DEF Spec

(* A stored summary covers its branch up to the message it names, and      *)
(* nothing else.                                                           *)
THEOREM SummariesAreOfTheirBranch == ASSUME OnePage PROVE Spec => []SummaryIsOfItsBranch
<1>1. MemoryInv => SummaryIsOfItsBranch
  BY DEF MemoryInv, IsOfBranch, SummaryIsOfItsBranch
<1> QED BY <1>1, MemoryInvariance, PTL

(* What a model is given is one branch, from its first message on.         *)
THEOREM ModelsSeeOneBranch == ASSUME OnePage PROVE Spec => []ModelSeesOneBranch
<1>1. MemoryInv => ModelSeesOneBranch
  <2> SUFFICES ASSUME MemoryInv, NEW t \in Turn, turn[t].known # {}
               PROVE  turn[t].known = Ancestors(Max(turn[t].known))
    BY DEF ModelSeesOneBranch
  <2>1. TypedRows /\ OneRoot /\ turn[t].known \in Branches
    BY MemoryHas DEF Remembering, RecordOK
  <2>2. PICK n \in 0..Len(messages) : turn[t].known = Ancestors(n)
    BY <2>1 DEF Branches
  <2>3. n \in DOMAIN messages
    BY <2>1, <2>2, BranchOf, DomainIs
  <2>4. n \in Ancestors(n) /\ \A a \in Ancestors(n) : a <= n /\ a \in Nat
    BY <2>1, <2>3, BranchOf, AncestorsAreEarlier, DomainIs
  <2>5. \A a \in Ancestors(n) : (\A b \in Ancestors(n) : a >= b) => a = n
    BY <2>4
  <2>6. Max(Ancestors(n)) = n
    BY <2>4, <2>5 DEF Max
  <2> QED BY <2>2, <2>6
<1> QED BY <1>1, MemoryInvariance, PTL
=============================================================================
