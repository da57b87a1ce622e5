---------------------------- MODULE Conversations ----------------------------
(***************************************************************************)
(* One conversation: its tree of messages, the derived memory kept in its  *)
(* settings, the cache of its newest messages, and the chat turns that     *)
(* read and write all three (repositories/conversations.py,                *)
(* cache/conversations.py, agents/memory.py, agents/runtime.py).           *)
(*                                                                         *)
(* A message is its sequence_no; messages are never deleted.  Facts are    *)
(* represented by the messages they were taken from: a summary by the set  *)
(* it covers, the constraints by the questions they were extracted from.   *)
(* Each request (turn, reader, client) happens once.                       *)
(***************************************************************************)
EXTENDS Naturals, Sequences, FiniteSetsExt

CONSTANTS
    Turn,         \* runs of the chat runtime
    Request,      \* request ids of questions
    Reader,       \* GET /messages
    Client,       \* requests that write
    Calls,        \* what clients may do
    NoOne,        \* "None" of the code
    Window,       \* window_size of the cache
    HotLimit,     \* 2 * context_turns: shorter hot histories are complete
    Context,      \* messages a model is given at most
    PageSize,
    MaxHistory,   \* bound: messages at the start
    MaxMessages   \* bound: messages

ASSUME ConversationsAssumption ==
    /\ NoOne \notin Turn \cup Request \cup Reader \cup Client
    /\ Calls \subseteq {"append", "truncate", "delete"}
    /\ HotLimit \in Nat /\ Window \in Nat /\ HotLimit <= Window
    /\ Context \in Nat \ {0} /\ PageSize \in Nat \ {0} /\ MaxMessages \in Nat
    /\ MaxHistory \in 0..MaxMessages

VARIABLES
    messages,      \* rows of the conversation by sequence_no
    head,          \* current_branch_message_id, 0 when there is none
    summary,       \* settings["_memory_summary"]
    constraints,   \* settings["constraints"]
    deleted,       \* deleted_at
    cache,         \* the Redis entry
    turn,          \* what each run has read and where it is
    reader,        \* GET /messages
    client         \* requests that wrote and have still to invalidate

vars == <<messages, head, summary, constraints, deleted, cache, turn, reader, client>>
settings == <<summary, constraints>>

Number == 1..MaxMessages
Kind == {"question", "answer", "refusal", "message"}
Row == [parent : 0..MaxMessages, request : Request \cup {NoOne}, kind : Kind]
Summary == [through : 0..MaxMessages, covers : SUBSET Number]
NoSummary == [through |-> 0, covers |-> {}]
Facts == {NoOne} \cup SUBSET Number

TurnPcs == {"idle", "ask", "invalidate", "restore", "hot", "load", "store", "page",
            "summary", "answer", "constraints", "end", "done"}
IdleTurn == [pc |-> "idle", request |-> NoOne, parent |-> 0, refused |-> FALSE,
             summary |-> NoSummary, facts |-> NoOne, rows |-> {}, known |-> {}]

TypeOK ==
    /\ messages \in Seq(Row) /\ Len(messages) <= MaxMessages
    /\ head \in 0..Len(messages)
    /\ summary \in Summary
    /\ constraints \in Facts
    /\ deleted \in BOOLEAN
    /\ cache \in {NoOne} \cup SUBSET Number
    /\ turn \in [Turn -> [pc : TurnPcs, request : Request \cup {NoOne},
                          parent : 0..MaxMessages, refused : BOOLEAN, summary : Summary,
                          facts : Facts, rows : SUBSET Number, known : SUBSET Number]]
    /\ reader \in [Reader -> [pc : {"idle", "load", "store", "done"}, rows : SUBSET Number]]
    /\ client \in [Client -> {"idle", "invalidate", "done"}]

(* A conversation that is new, or that has some messages already.          *)
Init ==
    /\ \E k \in 0..MaxHistory :
          messages = [n \in 1..k |-> [parent |-> n - 1, request |-> NoOne, kind |-> "message"]]
    /\ head = Len(messages)
    /\ summary = NoSummary
    /\ constraints = {}
    /\ deleted = FALSE
    /\ cache = NoOne
    /\ turn = [t \in Turn |-> IdleTurn]
    /\ reader = [r \in Reader |-> [pc |-> "idle", rows |-> {}]]
    /\ client = [c \in Client |-> "idle"]

-----------------------------------------------------------------------------
(* The repository.                                                         *)

Newest(n, S) == {x \in S : Cardinality({y \in S : y > x}) < n}
Oldest(n, S) == {x \in S : Cardinality({y \in S : y < x}) < n}

IsAncestor(a, n) ==
    LET up[m \in 0..Len(messages)] == m = a \/ (m # 0 /\ up[messages[m].parent])
    IN up[n]

Ancestors(n) == {a \in DOMAIN messages : IsAncestor(a, n)}

(* _visible_branch_rows: a head without a parent is a message of an early  *)
(* installation, whose rows are in order of their numbers.                 *)
Visible ==
    CASE head = 0 -> {}
      [] head # 0 /\ messages[head].parent = 0 -> 1..head
      [] OTHER -> Ancestors(head)

(* list_recent_messages *)
Recent == Newest(Window, Visible)

Stored(request, kinds) ==
    {n \in DOMAIN messages : messages[n].request = request /\ messages[n].kind \in kinds}

(* Variant: the caller's parent or none.                                   *)
AppendUnderGiven(parent, request, kind) ==
    /\ Len(messages) < MaxMessages
    /\ messages' = Append(messages, [parent |-> parent, request |-> request, kind |-> kind])
    /\ head' = Len(messages) + 1

(* append_message, a new row: its parent is the one given, or the head.    *)
AppendRow(parent, request, kind) ==
    /\ Len(messages) < MaxMessages
    /\ messages' = Append(messages, [parent |-> IF parent # 0 THEN parent ELSE head,
                                     request |-> request, kind |-> kind])
    /\ head' = Len(messages) + 1

-----------------------------------------------------------------------------
(* Requests that write: each commits and then invalidates the cache.       *)

Wrote(c) == client' = [client EXCEPT ![c] = "invalidate"]

(* A request id that is known returns the stored message: no other effect. *)
PostMessage(c) ==
    /\ "append" \in Calls
    /\ client[c] = "idle" /\ ~deleted
    /\ \/ \E parent \in 0..Len(messages) : AppendRow(parent, NoOne, "message")
       \/ (\E n \in DOMAIN messages : messages[n].kind = "message") /\ UNCHANGED <<messages, head>>
    /\ Wrote(c)
    /\ UNCHANGED <<settings, deleted, cache, turn, reader>>

Truncate(c, n) ==
    /\ "truncate" \in Calls
    /\ client[c] = "idle" /\ ~deleted
    /\ n \in DOMAIN messages
    /\ head' = n
    /\ summary' = NoSummary
    /\ constraints' = NoOne
    /\ Wrote(c)
    /\ UNCHANGED <<messages, deleted, cache, turn, reader>>

DeleteConversation(c) ==
    /\ "delete" \in Calls
    /\ client[c] = "idle" /\ ~deleted
    /\ deleted' = TRUE
    /\ Wrote(c)
    /\ UNCHANGED <<messages, head, settings, cache, turn, reader>>

(* Redis may refuse to delete the entry, and nobody hears of it; a refused *)
(* read or write of the entry is as if it had expired.                     *)
Invalidated == cache' \in {NoOne, cache}

Invalidate(c) ==
    /\ client[c] = "invalidate"
    /\ Invalidated
    /\ client' = [client EXCEPT ![c] = "done"]
    /\ UNCHANGED <<messages, head, settings, deleted, turn, reader>>

CacheExpires ==
    /\ cache # NoOne
    /\ cache' = NoOne
    /\ UNCHANGED <<messages, head, settings, deleted, turn, reader, client>>

-----------------------------------------------------------------------------
(* RedisConversationMemory.load for GET /messages, a miss in three steps.  *)

MissCache(r) ==
    /\ reader[r].pc = "idle" /\ ~deleted /\ cache = NoOne
    /\ reader' = [reader EXCEPT ![r].pc = "load"]
    /\ UNCHANGED <<messages, head, settings, deleted, cache, turn, client>>

ReadRecent(r) ==
    /\ reader[r].pc = "load"
    /\ reader' = [reader EXCEPT ![r] = IF deleted THEN [pc |-> "done", rows |-> {}]
                                                  ELSE [pc |-> "store", rows |-> Recent]]
    /\ UNCHANGED <<messages, head, settings, deleted, cache, turn, client>>

StoreCache(r) ==
    /\ reader[r].pc = "store"
    /\ cache' = reader[r].rows
    /\ reader' = [reader EXCEPT ![r] = [pc |-> "done", rows |-> {}]]
    /\ UNCHANGED <<messages, head, settings, deleted, turn, client>>

-----------------------------------------------------------------------------
(* ChatAgentRuntime.run                                                    *)

Goto(t, pc) == turn' = [turn EXCEPT ![t].pc = pc]
Ends(t) == turn' = [turn EXCEPT ![t] = [IdleTurn EXCEPT !.pc = "done"]]

StartTurn(t, q) ==
    /\ turn[t].pc = "idle" /\ ~deleted
    /\ turn' = [turn EXCEPT ![t] = [IdleTurn EXCEPT !.pc = "ask", !.request = q, !.parent = head]]
    /\ UNCHANGED <<messages, head, settings, deleted, cache, reader, client>>

(* _input_guard: the question is stored, unless its request id already is; *)
(* from here on the turn's parent is the question.                         *)
AskQuestion(t) ==
    /\ turn[t].pc = "ask" /\ ~deleted
    /\ LET known == Stored(turn[t].request, {"question"})
       IN \/ \E n \in known :
                /\ turn' = [turn EXCEPT ![t].pc = "invalidate", ![t].parent = n]
                /\ UNCHANGED <<messages, head>>
          \/ /\ known = {}
             /\ AppendRow(turn[t].parent, turn[t].request, "question")
             /\ turn' = [turn EXCEPT ![t].pc = "invalidate", ![t].parent = Len(messages) + 1]
    /\ UNCHANGED <<settings, deleted, cache, reader, client>>

(* The input is refused: nothing is stored but the answer that says so.    *)
RefuseInput(t) ==
    /\ turn[t].pc = "ask"
    /\ turn' = [turn EXCEPT ![t].pc = "answer", ![t].refused = TRUE]
    /\ UNCHANGED <<messages, head, settings, deleted, cache, reader, client>>

InvalidateQuestion(t) ==
    /\ turn[t].pc = "invalidate"
    /\ Invalidated
    /\ Goto(t, "restore")
    /\ UNCHANGED <<messages, head, settings, deleted, reader, client>>

(* restore: the conversation's view, with both settings.                   *)
RestoreMemory(t) ==
    /\ turn[t].pc = "restore" /\ ~deleted
    /\ turn' = [turn EXCEPT ![t].pc = "hot", ![t].summary = summary, ![t].facts = constraints]
    /\ UNCHANGED <<messages, head, settings, deleted, cache, reader, client>>

(* Variant: a hot history as long as the limit is taken for the whole.     *)
FullWindowIsShort(rows) == Cardinality(rows) <= HotLimit

(* _load_visible_messages *)
IsShort(rows) == Cardinality(rows) < HotLimit

HaveHot(t, rows) ==
    turn' = IF IsShort(rows)
            THEN [turn EXCEPT ![t].pc = "summary", ![t].rows = rows]
            ELSE [turn EXCEPT ![t].pc = "page", ![t].rows = {}]

ReadHot(t) ==
    /\ turn[t].pc = "hot" /\ ~deleted
    /\ IF cache # NoOne THEN HaveHot(t, cache) ELSE Goto(t, "load")
    /\ UNCHANGED <<messages, head, settings, deleted, cache, reader, client>>

LoadRecent(t) ==
    /\ turn[t].pc = "load" /\ ~deleted
    /\ turn' = [turn EXCEPT ![t].pc = "store", ![t].rows = Recent]
    /\ UNCHANGED <<messages, head, settings, deleted, cache, reader, client>>

StoreHot(t) ==
    /\ turn[t].pc = "store"
    /\ cache' = turn[t].rows
    /\ HaveHot(t, turn[t].rows)
    /\ UNCHANGED <<messages, head, settings, deleted, reader, client>>

(* One page of the branch that is current when it is read.                 *)
ReadPage(t) ==
    /\ turn[t].pc = "page" /\ ~deleted
    /\ LET after == Max({0} \cup turn[t].rows)
           page == Oldest(PageSize, {n \in Visible : n > after})
       IN turn' = [turn EXCEPT ![t].rows = @ \cup page,
                               ![t].pc = IF Cardinality(page) < PageSize THEN "summary" ELSE @]
    /\ UNCHANGED <<messages, head, settings, deleted, cache, reader, client>>

(* Variant: what was summarised before is kept, whatever it is about.      *)
ExtendAnySummary(stored, prefix) ==
    [through |-> Max(prefix), covers |-> stored.covers \cup {n \in prefix : n > stored.through}]

(* _summary: a summary of a message of this prefix is extended, any other  *)
(* is written anew.                                                        *)
Summarised(stored, prefix) ==
    [through |-> Max(prefix),
     covers |-> IF stored.through \in prefix
                THEN stored.covers \cup {n \in prefix : n > stored.through}
                ELSE prefix]

(* _window keeps some of the newest messages, as many as the settings and  *)
(* the token limit allow; the others are summarised.                       *)
SummarisePrefix(t) ==
    /\ turn[t].pc = "summary"
    /\ LET rows == turn[t].rows
       IN \E k \in 1..Context :
            LET kept == Newest(k, rows)
                prefix == rows \ kept
                made == Summarised(turn[t].summary, prefix)
            IN /\ turn' = [turn EXCEPT
                     ![t].pc = "answer", ![t].rows = {}, ![t].summary = NoSummary,
                     ![t].known = kept \cup IF prefix = {} THEN {} ELSE made.covers]
               /\ IF prefix = {} \/ turn[t].summary.through = Max(prefix)
                  THEN UNCHANGED summary
                  ELSE ~deleted /\ summary' = made
    /\ UNCHANGED <<messages, head, constraints, deleted, cache, reader, client>>

(* Variant: the answer goes under the head.                                *)
AnswerHead(t) ==
    /\ turn[t].pc = "answer" /\ ~deleted
    /\ IF Stored(turn[t].request, {"answer", "refusal"}) # {}
       THEN UNCHANGED <<messages, head>>
       ELSE AppendRow(0, turn[t].request, IF turn[t].refused THEN "refusal" ELSE "answer")
    /\ turn' = [turn EXCEPT ![t].pc = IF turn[t].refused THEN "end" ELSE "constraints",
                            ![t].known = {}]
    /\ UNCHANGED <<settings, deleted, cache, reader, client>>

(* _persist: the answer is stored under the turn's parent, once per        *)
(* request; a refused input has no constraints to store.                   *)
PersistAnswer(t) ==
    /\ turn[t].pc = "answer" /\ ~deleted
    /\ IF Stored(turn[t].request, {"answer", "refusal"}) # {}
       THEN UNCHANGED <<messages, head>>
       ELSE AppendRow(turn[t].parent, turn[t].request,
                      IF turn[t].refused THEN "refusal" ELSE "answer")
    /\ turn' = [turn EXCEPT ![t].pc = IF turn[t].refused THEN "end" ELSE "constraints",
                            ![t].known = {}]
    /\ UNCHANGED <<settings, deleted, cache, reader, client>>

(* The constraints that were read, with those of the question when it was  *)
(* one that has any.                                                       *)
StoreConstraints(t) ==
    /\ turn[t].pc = "constraints" /\ ~deleted
    /\ \/ turn[t].facts = NoOne /\ UNCHANGED constraints
       \/ turn[t].facts # NoOne /\ constraints' = turn[t].facts
       \/ constraints' = (IF turn[t].facts = NoOne THEN {} ELSE turn[t].facts) \cup {turn[t].parent}
    /\ turn' = [turn EXCEPT ![t] = [IdleTurn EXCEPT !.pc = "end"]]
    /\ UNCHANGED <<messages, head, summary, deleted, cache, reader, client>>

EndTurn(t) ==
    /\ turn[t].pc = "end"
    /\ Invalidated
    /\ Ends(t)
    /\ UNCHANGED <<messages, head, settings, deleted, reader, client>>

(* The conversation was deleted, the run is cancelled, a model or the      *)
(* database fails: the rest of the turn does not happen.                   *)
AbortTurn(t) ==
    /\ turn[t].pc \notin {"idle", "done"}
    /\ Ends(t)
    /\ UNCHANGED <<messages, head, settings, deleted, cache, reader, client>>

-----------------------------------------------------------------------------

TurnStep(t) ==
    \/ AskQuestion(t) \/ RefuseInput(t) \/ InvalidateQuestion(t) \/ RestoreMemory(t)
    \/ ReadHot(t) \/ LoadRecent(t) \/ StoreHot(t) \/ ReadPage(t) \/ SummarisePrefix(t)
    \/ PersistAnswer(t) \/ StoreConstraints(t) \/ EndTurn(t) \/ AbortTurn(t)

Next ==
    \/ \E c \in Client :
          \/ PostMessage(c) \/ DeleteConversation(c) \/ Invalidate(c)
          \/ \E n \in Number : Truncate(c, n)
    \/ CacheExpires
    \/ \E r \in Reader : MissCache(r) \/ ReadRecent(r) \/ StoreCache(r)
    \/ \E t \in Turn : TurnStep(t) \/ \E q \in Request : StartTurn(t, q)

Spec == Init /\ [][Next]_vars

-----------------------------------------------------------------------------
(* Properties.                                                             *)

(* However many turns begin on an empty conversation, it has one first     *)
(* message: the visible branch is the path from it to the head, and        *)
(* truncating to it shows nothing of the abandoned branches                *)
(* (append_message, _visible_branch_rows).                                 *)
VisibleIsThePath == head # 0 => Visible = Ancestors(head)

(* Each question has one answer, stored right under it, when turns of      *)
(* other requests, truncations and retries of the same request come        *)
(* between (_input_guard, _persist).                                       *)
AnswersItsQuestion ==
    \A n \in DOMAIN messages : messages[n].kind = "answer" =>
        /\ messages[messages[n].parent].kind = "question"
        /\ messages[messages[n].parent].request = messages[n].request
        /\ \A k \in DOMAIN messages :
              messages[k].kind = "answer" /\ messages[k].request = messages[n].request => k = n

(* A summary is of one whole branch: all of the messages up to the one it  *)
(* names and nothing of a branch that was abandoned while it was read,     *)
(* extended or stored ("no older turn is omitted", restore).               *)
SummaryIsOfItsBranch == summary.through # 0 => summary.covers = Ancestors(summary.through)

(* What a model is given is one whole branch as it was at some time, from  *)
(* the cache or from the database (restore, RedisConversationMemory.load). *)
ModelSeesOneBranch ==
    \A t \in Turn : turn[t].known # {} => turn[t].known = Ancestors(Max(turn[t].known))

(* "Drop derived memory so abandoned-branch facts cannot leak into later   *)
(* turns" (_settings_after_truncate): between turns, the constraints that  *)
(* the next one starts from are of the visible branch.                     *)
NoAbandonedFacts ==
    (\A t \in Turn : turn[t].pc \in {"idle", "done"}) /\ constraints # NoOne
        => constraints \subseteq Visible

(* Why answers are where they belong: messages only have earlier parents   *)
(* and one has none, and a turn knows the question it has to answer.       *)
OneRoot ==
    /\ head = 0 <=> Len(messages) = 0
    /\ \A n \in DOMAIN messages :
          messages[n].parent < n /\ (messages[n].parent = 0 <=> n = 1)

HasQuestion(t) ==
    /\ turn[t].pc \notin {"idle", "ask", "end", "done"}
    /\ turn[t].pc = "answer" => ~turn[t].refused

TurnsKnowTheirQuestion ==
    \A t \in Turn :
        /\ turn[t].parent \in 0..Len(messages)
        /\ HasQuestion(t) =>
              /\ turn[t].parent # 0
              /\ messages[turn[t].parent].kind = "question"
              /\ messages[turn[t].parent].request = turn[t].request

AnswersHaveParents ==
    \A n \in DOMAIN messages : messages[n].kind = "answer" => messages[n].parent # 0

IInv == TypeOK /\ OneRoot /\ TurnsKnowTheirQuestion /\ AnswersHaveParents /\ AnswersItsQuestion

(* Why summaries and models are about one branch, as long as a page holds  *)
(* all of a conversation: the cache and those who fill it have the newest  *)
(* messages of some branch, and a history that was read is a branch.       *)
OnePage == PageSize >= MaxMessages

Branches == {Ancestors(n) : n \in 0..Len(messages)}
Windows == {Newest(Window, B) : B \in Branches}
IsOfBranch(s) == s.through # 0 => s.through \in DOMAIN messages /\ s.covers = Ancestors(s.through)

RemembersOneBranch(t) ==
    /\ turn[t].pc = "store" => turn[t].rows \in Windows
    /\ turn[t].pc = "page" => turn[t].rows \in {{}, Number} \cap Branches
    /\ turn[t].pc = "summary" => turn[t].rows \in Branches
    /\ turn[t].known \in Branches
    /\ IsOfBranch(turn[t].summary)

MemoryInv ==
    /\ IInv
    /\ cache # NoOne => cache \in Windows
    /\ \A r \in Reader : reader[r].pc = "store" => reader[r].rows \in Windows
    /\ \A t \in Turn : RemembersOneBranch(t)
    /\ IsOfBranch(summary)
=============================================================================
