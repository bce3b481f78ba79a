------------------------------- MODULE AiChat -------------------------------
(***************************************************************************)
(* The AI chat API of backend/app/modules/ai: POST /chat and /chat/stream  *)
(* (api/public.py), AiChatService's dispatch and streaming passes          *)
(* (service.py) and the conversations kept for a browser session           *)
(* (repositories.py), while administrators switch the provider.            *)
(*                                                                         *)
(* Every request is a process.  A read of the database sees the rows as    *)
(* they are then and takes no lock; one action ends with the flush and     *)
(* commit of what it writes.  A row is written by its id, whatever the     *)
(* read that found it checked.  Ids are the greatest in use plus one, so   *)
(* the id of a deleted conversation is given to the next one.              *)
(*                                                                         *)
(* An answer is abstracted to whether it is empty once reasoning is        *)
(* removed; the filter that removes it is module ThinkFilter.              *)
(***************************************************************************)
EXTENDS Naturals, Sequences, FiniteSetsExt

CONSTANTS Requests, Sessions,
          SessionOf,      \* the session cookie a request carries
          Allowed,        \* requests of active users who hold ai.use
          MaxId,          \* bound: conversations at once
          MaxDeltas,      \* bound: visible deltas of one pass
          MaxSwitches,    \* bound: changes of the selected provider
          Serial,         \* requests and changes come one at a time
          Busy            \* a write may time out waiting for SQLite's lock

None == "none"
Providers == {"ollama", "compatible"}
Ids == 1..MaxId
Temporary == MaxId + 1    \* payload.temporary, or persistence is switched off
NewConversation == 0      \* payload.conversation_id is None
Targets == Ids \cup {NewConversation, Temporary}
Kinds == {"chat", "stream", "delete", "update"}

\* What the constants are assumed to be.
ChatAssumption ==
    /\ SessionOf \in [Requests -> Sessions] /\ Allowed \subseteq Requests
    /\ {MaxId, MaxDeltas, MaxSwitches} \subseteq Nat /\ IsFiniteSet(Requests)
    /\ None \notin Sessions
    /\ Serial \in BOOLEAN /\ Busy \in BOOLEAN

VARIABLES
    provider,   \* selected_kind of the provider row
    switches,   \* changes of it so far
    convs,      \* ai_conversations with their messages
    req,        \* the requests
    logs        \* ai_request_logs

vars == <<provider, switches, convs, req, logs>>

\* A turn is two messages, with the numbers seq and seq + 1.
NoConv == [owner |-> None, title |-> None, turns |-> {}]
Conversations ==
    [owner : Sessions, title : Sessions,
     turns : SUBSET [by : Requests, seq : 0..(2 * Cardinality(Requests))]]

Idle == [pc |-> "idle", kind |-> None, target |-> Temporary, via |-> None, pass |-> 0,
         shown |-> 0, shownIn |-> {}, yielded |-> FALSE, frames |-> <<>>, base |-> 0,
         stored |-> 0, failed |-> FALSE, model |-> None, fate |-> None]

Frames == {"citations", "delta", "done", "error"}

TypeOK ==
    /\ provider \in Providers /\ switches \in 0..MaxSwitches
    /\ \A c \in Ids : convs[c] \in Conversations \cup {NoConv}
    /\ \A r \in Requests :
         /\ req[r].pc \in {"idle", "open", "dispatch", "answer", "fail", "persist", "base",
                           "write", "model", "log", "found", "end"}
         /\ req[r].kind \in Kinds \cup {None} /\ req[r].target \in Targets
         /\ req[r].via \in Providers \cup {None} /\ req[r].pass \in 0..2
         /\ req[r].shown \in 0..MaxDeltas /\ req[r].shownIn \subseteq {1, 2}
         /\ req[r].frames \in Seq(Frames) /\ req[r].stored \in {0} \cup Ids
         /\ req[r].model \in Providers \cup {None}
         /\ req[r].fate \in {None, "refused", "aborted"}
         /\ logs[r] \in Seq([status : {"ok", "error", "aborted"}, conv : {0} \cup Ids,
                             model : Providers])

----------------------------------------------------------------------------
(* Steps are written as a change of the request's record.                  *)

Active(r) == req[r].pc \notin {"idle", "end"}
Turn(r) == Serial => \A s \in Requests \ {r} : ~Active(s)
At(r, kinds, pc) == req[r].kind \in kinds /\ req[r].pc = pc
Becomes(r, new) == req' = [req EXCEPT ![r] = new]
Ended(r) == [req[r] EXCEPT !.pc = "end", !.yielded = FALSE]
Refused(r) == [Ended(r) EXCEPT !.fate = "refused"]
Owns(r, c) == convs[c].owner = SessionOf[r]

\* The provider selected when it is asked, after the answer.
effective_model == provider

----------------------------------------------------------------------------
(* The request arrives.                                                    *)

\* ai.use is asked for when the compatible provider is selected now.
_prepare_chat_context(r) == provider = "compatible" => r \in Allowed

chat_with_ai(r, target) ==
    /\ req[r].pc = "idle" /\ Turn(r)
    /\ LET asked == [Idle EXCEPT !.kind = "chat", !.target = target, !.pc = "dispatch"]
       IN  Becomes(r, IF _prepare_chat_context(r) THEN asked
                      ELSE [asked EXCEPT !.pc = "end", !.fate = "refused"])
    /\ UNCHANGED <<provider, switches, convs, logs>>

\* The conversation is looked up before the response starts, for a real 404.
chat_stream_with_ai(r, target) ==
    /\ req[r].pc = "idle" /\ Turn(r)
    /\ LET asked == [Idle EXCEPT !.kind = "stream", !.target = target, !.pc = "open"]
       IN  Becomes(r, IF _prepare_chat_context(r) /\ (target \in Ids => Owns(r, target))
                      THEN asked ELSE [asked EXCEPT !.pc = "end", !.fate = "refused"])
    /\ UNCHANGED <<provider, switches, convs, logs>>

FindConversation(r, kind, c) ==
    /\ req[r].pc = "idle" /\ Turn(r)
    /\ LET asked == [Idle EXCEPT !.kind = kind, !.target = c, !.pc = "found"]
       IN  Becomes(r, IF Owns(r, c) THEN asked
                      ELSE [asked EXCEPT !.pc = "end", !.fate = "refused"])
    /\ UNCHANGED <<provider, switches, convs, logs>>

update_conversation(r, c) == FindConversation(r, "update", c)
delete_conversation(r, c) == FindConversation(r, "delete", c)

\* The UPDATE or DELETE by id; messages and citations go with their
\* conversation.  An UPDATE of a row that is gone is an error.
Edit(r) ==
    /\ req[r].pc = "found"
    /\ \/ convs' = [convs EXCEPT ![req[r].target] =
                       IF req[r].kind = "delete" \/ @ = NoConv THEN NoConv
                       ELSE [@ EXCEPT !.title = SessionOf[r]]]
       \/ Busy /\ UNCHANGED convs
    /\ Becomes(r, Ended(r))
    /\ UNCHANGED <<provider, switches, logs>>

----------------------------------------------------------------------------
(* The answer.                                                             *)

\* The body starts to run: citations are looked up, and sent if there are any.
event_stream(r) ==
    /\ At(r, {"stream"}, "open")
    /\ \E some \in BOOLEAN :
          Becomes(r, [req[r] EXCEPT !.pc = "dispatch", !.yielded = some,
                                    !.frames = IF some THEN <<"citations">> ELSE @])
    /\ UNCHANGED <<provider, switches, convs, logs>>

\* A pass, or the call of /chat, goes to the provider selected when it starts.
_stream_pass(r) ==
    /\ req[r].pc = "dispatch"
    /\ Becomes(r, [req[r] EXCEPT !.pc = "answer", !.via = provider, !.pass = @ + 1,
                                 !.shown = 0, !.yielded = FALSE])
    /\ UNCHANGED <<provider, switches, convs, logs>>

Delta(r) ==
    /\ At(r, {"stream"}, "answer") /\ req[r].shown < MaxDeltas
    /\ Becomes(r, [req[r] EXCEPT !.shown = @ + 1, !.shownIn = @ \cup {req[r].pass},
                                 !.yielded = TRUE, !.frames = Append(@, "delta")])
    /\ UNCHANGED <<provider, switches, convs, logs>>

\* An empty answer is asked for once more if nothing of it was shown.
Retries(r) == req[r].pass = 1 /\ req[r].shown = 0

Passed(r, pc) == [req[r] EXCEPT !.pc = pc, !.yielded = FALSE]

\* The pass is over.  What is left of an answer that was shown may be blank.
chat_stream(r) ==
    /\ At(r, {"stream"}, "answer")
    /\ \E empty \in IF req[r].shown = 0 THEN {TRUE} ELSE BOOLEAN :
          Becomes(r, Passed(r, IF ~empty THEN "persist"
                               ELSE IF Retries(r) THEN "dispatch" ELSE "fail"))
    /\ UNCHANGED <<provider, switches, convs, logs>>

\* OllamaClient.chat retries an empty answer itself.
chat(r) ==
    /\ At(r, {"chat"}, "answer")
    /\ Becomes(r, Passed(r, "persist"))
    /\ UNCHANGED <<provider, switches, convs, logs>>

\* The provider is down, has no such model, is not usable, or answers nothing.
Unavailable(r) ==
    /\ req[r].pc = "answer"
    /\ Becomes(r, Passed(r, "fail"))
    /\ UNCHANGED <<provider, switches, convs, logs>>

\* A row of ai_request_logs for r.
_request_log(r, status, conv, model) ==
    logs' = [logs EXCEPT ![r] = Append(@, [status |-> status, conv |-> conv, model |-> model])]

\* The error branches of event_stream end the stream with an error frame.
ErrorFrame(r) ==
    [Ended(r) EXCEPT !.frames = IF req[r].kind = "stream" THEN Append(@, "error") ELSE @]

\* The log of a failure, then the response or the error frame.  A log that
\* cannot be written ends both without either.
log_failure(r) ==
    /\ req[r].pc = "fail"
    /\ \/ /\ _request_log(r, "error", 0, effective_model)
          /\ Becomes(r, ErrorFrame(r))
       \/ Busy /\ Becomes(r, Ended(r)) /\ UNCHANGED logs
    /\ UNCHANGED <<provider, switches, convs>>

\* The client goes away: the body is closed where it last sent a frame.  One
\* that has not started to run is dropped.
GeneratorExit(r) ==
    /\ req[r].kind = "stream" /\ (req[r].pc = "open" \/ req[r].yielded)
    /\ Becomes(r, [Ended(r) EXCEPT !.fate = "aborted"])
    /\ \/ req[r].yielded /\ _request_log(r, "aborted", 0, effective_model)
       \/ (req[r].yielded => Busy) /\ UNCHANGED logs
    /\ UNCHANGED <<provider, switches, convs>>

----------------------------------------------------------------------------
(* The turn is stored and logged.                                          *)

\* _persist_turn raised: /chat answers with the error, the stream goes on.
PersistFailed(r) ==
    IF req[r].kind = "chat" THEN Refused(r)
    ELSE [req[r] EXCEPT !.pc = "model", !.failed = TRUE]

Stored(r, c) == [req[r] EXCEPT !.pc = "model", !.stored = c]

create_conversation(r) ==
    LET id == Max({0} \cup {c \in Ids : convs[c] # NoConv}) + 1
    IN  /\ req[r].pc = "persist" /\ req[r].target = NewConversation
        /\ \/ /\ id \in Ids
              /\ convs' = [convs EXCEPT ![id] =
                             [owner |-> SessionOf[r], title |-> SessionOf[r],
                              turns |-> {[by |-> r, seq |-> 0]}]]
              /\ Becomes(r, Stored(r, id))
           \/ Busy /\ Becomes(r, PersistFailed(r)) /\ UNCHANGED convs
        /\ UNCHANGED <<provider, switches, logs>>

get_conversation_byId(r) ==
    /\ req[r].pc = "persist" /\ req[r].target \in Ids
    /\ Becomes(r, IF convs[req[r].target] # NoConv THEN [req[r] EXCEPT !.pc = "base"]
                  ELSE PersistFailed(r))
    /\ UNCHANGED <<provider, switches, convs, logs>>

\* get_conversation: the owner is part of the query, the answer may be stale.
get_conversation(r) ==
    /\ req[r].pc = "persist" /\ req[r].target \in Ids
    /\ Becomes(r, IF Owns(r, req[r].target) THEN [req[r] EXCEPT !.pc = "base"]
                  ELSE PersistFailed(r))
    /\ UNCHANGED <<provider, switches, convs, logs>>

NextSeq(turns) == Max({0} \cup {t.seq + 2 : t \in turns})

\* append_turn reads the greatest message number of the conversation ...
ReadBase(r) ==
    /\ req[r].pc = "base"
    /\ Becomes(r, [req[r] EXCEPT !.pc = "write", !.base = NextSeq(convs[req[r].target].turns)])
    /\ UNCHANGED <<provider, switches, convs, logs>>

append_turn_ignoresFailure(r) ==
    LET c == req[r].target
    IN  /\ req[r].pc = "write"
        /\ \/ /\ convs[c] # NoConv
              /\ convs' = [convs EXCEPT ![c].turns = @ \cup {[by |-> r, seq |-> req[r].base]}]
              /\ Becomes(r, Stored(r, c))
           \/ /\ Busy \/ convs[c] = NoConv
              /\ Becomes(r, [req[r] EXCEPT !.pc = "model"])
              /\ UNCHANGED convs
        /\ UNCHANGED <<provider, switches, logs>>

\* ... and writes the messages by the conversation's id, which must exist.
append_turn(r) ==
    LET c == req[r].target
    IN  /\ req[r].pc = "write"
        /\ \/ /\ convs[c] # NoConv
              /\ convs' = [convs EXCEPT ![c].turns = @ \cup {[by |-> r, seq |-> req[r].base]}]
              /\ Becomes(r, Stored(r, c))
           \/ /\ Busy \/ convs[c] = NoConv
              /\ Becomes(r, PersistFailed(r))
              /\ UNCHANGED convs
        /\ UNCHANGED <<provider, switches, logs>>

KeepNothing(r) ==
    /\ req[r].pc = "persist" /\ req[r].target = Temporary
    /\ Becomes(r, [req[r] EXCEPT !.pc = "model"])
    /\ UNCHANGED <<provider, switches, convs, logs>>

AskModel(r) ==
    /\ req[r].pc = "model"
    /\ Becomes(r, [req[r] EXCEPT !.pc = "log", !.model = effective_model])
    /\ UNCHANGED <<provider, switches, convs, logs>>

\* The log of the answer, then the response or the done frame.  The stream's
\* log asks for the model once more.
LogAnswer(r) ==
    /\ req[r].pc = "log"
    /\ \/ /\ _request_log(r, IF req[r].failed THEN "error" ELSE "ok", req[r].stored,
                          IF req[r].kind = "chat" THEN req[r].model ELSE effective_model)
          /\ Becomes(r, [Ended(r) EXCEPT
                           !.frames = IF req[r].kind = "stream" THEN Append(@, "done") ELSE @])
       \/ Busy /\ Becomes(r, Ended(r)) /\ UNCHANGED logs
    /\ UNCHANGED <<provider, switches, convs>>

----------------------------------------------------------------------------

\* An administrator selects the other provider (module ProviderConfig).
set_selection ==
    /\ switches < MaxSwitches
    /\ Serial => \A r \in Requests : ~Active(r)
    /\ provider' \in Providers \ {provider}
    /\ switches' = switches + 1
    /\ UNCHANGED <<convs, req, logs>>

Init ==
    /\ provider \in Providers /\ switches = 0
    /\ convs \in {[c \in Ids |-> NoConv]} \cup
                 {[c \in Ids |-> IF c = 1 THEN [owner |-> s, title |-> s, turns |-> {}] ELSE NoConv] :
                     s \in Sessions}
    /\ req = [r \in Requests |-> Idle]
    /\ logs = [r \in Requests |-> <<>>]

Arrives(r) ==
    \/ \E target \in Targets : chat_with_ai(r, target) \/ chat_stream_with_ai(r, target)
    \/ \E c \in Ids : update_conversation(r, c) \/ delete_conversation(r, c)

Works(r) ==
    \/ event_stream(r) \/ _stream_pass(r) \/ Delta(r) \/ chat_stream(r) \/ chat(r)
    \/ Unavailable(r) \/ log_failure(r)
    \/ create_conversation(r) \/ get_conversation(r) \/ ReadBase(r) \/ append_turn(r)
    \/ KeepNothing(r) \/ AskModel(r) \/ LogAnswer(r) \/ Edit(r)

Next == set_selection \/ (\E r \in Requests : Arrives(r) \/ Works(r) \/ GeneratorExit(r))

Spec == Init /\ [][Next]_vars

----------------------------------------------------------------------------
(* Properties.                                                             *)

\* A request log tells what happened to the turn: ok names the conversation it
\* was stored in (or none, if it was not to be kept), while a request logged as
\* failed or aborted stored nothing; there is one log for each request.
LogTellsStored ==
    \A r \in Requests :
        /\ Len(logs[r]) <= 1
        /\ \A i \in 1..Len(logs[r]) :
              /\ logs[r][i].conv = req[r].stored
              /\ (logs[r][i].status = "ok") =
                    (req[r].stored # 0 \/ (req[r].target = Temporary /\ req[r].model # None))

\* The visible deltas of a stream come from one pass: the retry of an empty
\* answer never adds to text the reader already has.
OnePassShown == \A r \in Requests : Cardinality(req[r].shownIn) <= 1

\* A stream whose client stayed ends with exactly one of done and error, after
\* everything else, and one request log.
DoneOrError ==
    \A r \in Requests :
        (req[r].kind = "stream" /\ req[r].pc = "end" /\ req[r].fate = None) =>
            /\ Len(logs[r]) = 1 /\ req[r].frames # <<>>
            /\ \A i \in 1..Len(req[r].frames) :
                  (req[r].frames[i] \in {"done", "error"}) = (i = Len(req[r].frames))

\* Message numbers order a conversation: no two turns of it share one.
TurnsApart ==
    \A c \in Ids : \A t, u \in convs[c].turns : t # u => t.seq # u.seq

\* A conversation is changed only by requests of the session that owns it.
OwnerScope ==
    \A c \in Ids : (convs[c] # NoConv /\ convs'[c] # convs[c]) =>
          \E r \in Requests : req'[r] # req[r] /\ SessionOf[r] = convs[c].owner

\* A request is sent to the compatible provider only for a user who holds
\* ai.use, whatever is selected while the request is being prepared.
Gated == \A r \in Requests : req[r].via = "compatible" => r \in Allowed

\* The model in the done frame, the response and the log of an answer is the
\* one that produced it.
ModelHonest ==
    \A r \in Requests :
        /\ req[r].model \in {None, req[r].via}
        /\ \A i \in 1..Len(logs[r]) :
              logs[r][i].status = "ok" => logs[r][i].model = req[r].via
=============================================================================
