-------------------------------- MODULE MCAi ---------------------------------
(****************************************************************************)
(* The provider configuration, the connections, the reasoning filter and    *)
(* the chat of the AI module on small instances. One behaviour is about one *)
(* part only, which is chosen in the initial state: the parts share no      *)
(* data, and each run of TLC covers all of them. A name that two parts use  *)
(* is each part's own variable.                                             *)
(****************************************************************************)
EXTENDS Naturals, TLC

CONSTANTS Admins, Urls,              \* of the provider's and the connections' parts
          MaxRefs, MaxVer, MaxConn, MaxSecret,
          MaxChunks,                 \* of the filter's part
          Singles, Requests,         \* chats, one at a time and overlapping
          Allowed,                   \* those of users who hold ai.use
          Guests,                    \* those from a second browser,
          Browser, Second,           \* and the sessions of the two browsers
          MaxConv, MaxDeltas, MaxSwitches

VARIABLES part,    \* the part that a behaviour is about
          row, blobs, refs, req, seen, chat, proven, drifted, conn, last, secret,
          text, sent, buffer, inside, out, done, provider, switches, convs, logs

vars == <<part, row, blobs, refs, req, seen, chat, proven, drifted, conn, last,
                secret, text, sent, buffer, inside, out, done, provider, switches,
                convs, logs>>

\* The session of every request of a part.
SessionsOf(rs) == [r \in rs |-> IF r \in Guests THEN Second ELSE Browser]

\* Chunks that cut both tags, with and without blanks, at every place, and whole
\* tags, of which an answer can then have two pairs.
Chunks == {<<"<", "t">>, <<"k", ">">>, <<"k", "i">>, <<"g", ">">>, <<"k", " ">>,
           <<">">>, <<"<", " ">>, <<"<", "/", "t">>, <<"/", "t">>, <<"x">>,
           <<"<", "t", "k", ">">>, <<"<", "/", "t", "k", ">">>}

Provider == INSTANCE ProviderConfig WITH MaxVer <- MaxVer + 2, Concurrent <- FALSE, Drifts <- TRUE

Rivals == INSTANCE ProviderConfig WITH Concurrent <- TRUE, Drifts <- FALSE

Conn == INSTANCE LlmConnections WITH
    MaxId <- MaxConn + 1, MaxSecret <- MaxSecret + 1, Concurrent <- FALSE

Editors == INSTANCE LlmConnections WITH MaxId <- MaxConn, Concurrent <- TRUE

Think == INSTANCE ThinkFilter

Chat == INSTANCE AiChat WITH
    Requests <- Singles, Sessions <- {Browser, Second}, SessionOf <- SessionsOf(Singles),
    MaxId <- MaxConv + 1, Serial <- TRUE, Busy <- FALSE

Chats == INSTANCE AiChat WITH
    Sessions <- {Browser, Second}, SessionOf <- SessionsOf(Requests),
    MaxId <- MaxConv, Serial <- FALSE, Busy <- TRUE

ASSUME AiAssumption ==
    /\ Provider!ProviderAssumption
    /\ Rivals!ProviderAssumption
    /\ Conn!LlmAssumption
    /\ Editors!LlmAssumption
    /\ Think!ChunksAssumption
    /\ Chat!ChatAssumption
    /\ Chats!ChatAssumption

\* The variables of the other parts have the value 0 and keep it.
Init ==
    \/ /\ part = "provider" /\ Provider!Init
       /\ conn = 0 /\ last = 0 /\ secret = 0 /\ text = 0 /\ sent = 0 /\ buffer = 0
       /\ inside = 0 /\ out = 0 /\ done = 0 /\ provider = 0 /\ switches = 0
       /\ convs = 0 /\ logs = 0
    \/ /\ part = "rivals" /\ Rivals!Init
       /\ conn = 0 /\ last = 0 /\ secret = 0 /\ text = 0 /\ sent = 0 /\ buffer = 0
       /\ inside = 0 /\ out = 0 /\ done = 0 /\ provider = 0 /\ switches = 0
       /\ convs = 0 /\ logs = 0
    \/ /\ part = "connections" /\ Conn!Init
       /\ row = 0 /\ blobs = 0 /\ refs = 0 /\ seen = 0 /\ chat = 0 /\ proven = 0
       /\ drifted = 0 /\ text = 0 /\ sent = 0 /\ buffer = 0 /\ inside = 0 /\ out = 0
       /\ done = 0 /\ provider = 0 /\ switches = 0 /\ convs = 0 /\ logs = 0
    \/ /\ part = "editors" /\ Editors!Init
       /\ row = 0 /\ blobs = 0 /\ refs = 0 /\ seen = 0 /\ chat = 0 /\ proven = 0
       /\ drifted = 0 /\ text = 0 /\ sent = 0 /\ buffer = 0 /\ inside = 0 /\ out = 0
       /\ done = 0 /\ provider = 0 /\ switches = 0 /\ convs = 0 /\ logs = 0
    \/ /\ part = "think" /\ Think!Init
       /\ row = 0 /\ blobs = 0 /\ refs = 0 /\ req = 0 /\ seen = 0 /\ chat = 0
       /\ proven = 0 /\ drifted = 0 /\ conn = 0 /\ last = 0 /\ secret = 0
       /\ provider = 0 /\ switches = 0 /\ convs = 0 /\ logs = 0
    \/ /\ part = "chat" /\ Chat!Init
       /\ row = 0 /\ blobs = 0 /\ refs = 0 /\ seen = 0 /\ chat = 0 /\ proven = 0
       /\ drifted = 0 /\ conn = 0 /\ last = 0 /\ secret = 0 /\ text = 0 /\ sent = 0
       /\ buffer = 0 /\ inside = 0 /\ out = 0 /\ done = 0
    \/ /\ part = "chats" /\ Chats!Init
       /\ row = 0 /\ blobs = 0 /\ refs = 0 /\ seen = 0 /\ chat = 0 /\ proven = 0
       /\ drifted = 0 /\ conn = 0 /\ last = 0 /\ secret = 0 /\ text = 0 /\ sent = 0
       /\ buffer = 0 /\ inside = 0 /\ out = 0 /\ done = 0

\* What the parts leave alone.
NotProviderConfig == <<part, conn, last, secret, text, sent, buffer, inside, out,
                       done, provider, switches, convs, logs>>
NotLlmConnections == <<part, row, blobs, refs, seen, chat, proven, drifted, text,
                       sent, buffer, inside, out, done, provider, switches, convs,
                       logs>>
NotThinkFilter == <<part, row, blobs, refs, req, seen, chat, proven, drifted, conn,
                    last, secret, provider, switches, convs, logs>>
NotAiChat == <<part, row, blobs, refs, seen, chat, proven, drifted, conn, last,
               secret, text, sent, buffer, inside, out, done>>

Next ==
    \/ part = "provider" /\ Provider!Next /\ UNCHANGED NotProviderConfig
    \/ part = "rivals" /\ Rivals!Next /\ UNCHANGED NotProviderConfig
    \/ part = "connections" /\ Conn!Next /\ UNCHANGED NotLlmConnections
    \/ part = "editors" /\ Editors!Next /\ UNCHANGED NotLlmConnections
    \/ part = "think" /\ Think!Next /\ UNCHANGED NotThinkFilter
    \/ part = "chat" /\ Chat!Next /\ UNCHANGED NotAiChat
    \/ part = "chats" /\ Chats!Next /\ UNCHANGED NotAiChat

Spec == Init /\ [][Next]_vars

Symmetry == Permutations(Admins) \cup Permutations(Urls)

------------------------------------------------------------------------------
\* The row never names a key the store does not hold with the row's binding
\* version, with overlapping writers, failures and crashes. With one change at a
\* time a key is sent only to an endpoint that a probe has accepted with this very
\* key, and a change replaces the configuration its administrator was shown
\* (write_compatible_config, delete_credential, resolve_chat_runtime).
ProviderProven ==
    /\ [](part = "rivals" => Rivals!TypeOK /\ Rivals!BlobBound)
    /\ [](part = "provider" => Provider!TypeOK /\ Provider!BlobBound /\ Provider!ServesProven)
    /\ [][part = "provider" => Provider!NoLostUpdate]_vars

\* A stored key changes only by a request that carries a key for it, or with its
\* row, also when two administrators change one connection. With one change at a
\* time there are never two default connections, and only a rotation of the secret
\* makes a readable key unreadable (update_connection, set_default, _encrypt_key).
ConnectionsKept ==
    /\ [](part = "editors" => Editors!TypeOK)
    /\ [][part = "editors" => Editors!KeyKept]_vars
    /\ [](part = "connections" => Conn!TypeOK /\ Conn!OneDefault)
    /\ [][part = "connections" => Conn!KeyReadable]_vars

\* However the answer is cut into chunks, what the filter has returned, with what
\* it holds outside a block, is what may be shown of the text received; and an
\* answer whose blocks are all closed is streamed as the non-streaming path would
\* return it (feed, flush, _strip_think_blocks).
StreamFiltered == part = "think" => Think!TypeOK /\ Think!FilterExact /\ Think!StreamAgrees

\* With one request at a time no two turns of a conversation share a number, a
\* conversation is changed only by requests of the session that owns it, and only
\* a user who holds ai.use is answered by the compatible provider (append_turn,
\* get_conversation, _prepare_chat_context).
TurnsKept ==
    /\ [](part = "chat" => Chat!TypeOK /\ Chat!TurnsApart /\ Chat!Gated)
    /\ [][part = "chat" => Chat!OwnerScope]_vars

\* What a reader and the log are told: the deltas come from one pass of the model,
\* the log says ok when the turn was stored and never otherwise, also when the
\* database is busy. With one request at a time the model named is the one that
\* answered (Retries, append_turn, chat_stream, effective_model).
AnswerHonest ==
    /\ part = "chats" => Chats!TypeOK /\ Chats!OnePassShown /\ Chats!LogTellsStored
    /\ part = "chat" => Chat!ModelHonest
==============================================================================
