----------------------------- MODULE MCProvider -----------------------------
(* TLC instance of one chat request: the attempts before the stream, and   *)
(* the body that follows the headers.  What the body holds does not depend *)
(* on how its headers came, so one way is followed into the body: the      *)
(* first attempt, answered at once.                                        *)
EXTENDS Retry, SseStream, TLC

CONSTANTS text, open0, more0, open1, stats, hello, f, x, y

NoDelta(t, u) == [text |-> t, delta |-> None, usage |-> u]
Piece(i, id, name, args) ==
    [text |-> None, usage |-> None,
     delta |-> [index |-> i, id |-> id, name |-> name, args |-> args]]

MCChunkOf ==
    (text :> NoDelta(hello, None)) @@ (stats :> NoDelta(None, 7)) @@
    (open0 :> Piece(0, f, f, <<x>>)) @@ (more0 :> Piece(0, None, None, <<y>>)) @@
    (open1 :> Piece(1, f, None, <<x, y>>))

\* Single bytes, halves of lines and whole lines: a read may end inside a line
\* and inside the separator.
MCPieces ==
    {<<NL>>, <<DATA>>, <<PLAIN, NL>>, <<DONE, NL>>, <<text, NL>>, <<open0, NL>>, <<NL, DATA>>, <<DATA, open0, NL>>}
        \cup {<<DATA, p, NL>> : p \in {more0, open1, stats}}

AtHeaders == phase = "streaming" /\ attempt = 0 /\ elapsed = 0 /\ yielded = {}

ChatInit == RetryInit /\ SseInit
ChatNext ==
    \/ sent = <<>> /\ body = "reading" /\ RetryNext /\ UNCHANGED sseVars
    \/ AtHeaders /\ SseNext /\ UNCHANGED retryVars
ChatSpec == ChatInit /\ [][ChatNext]_<<retryVars, sseVars>>
=============================================================================
