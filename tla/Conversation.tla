---------------------------- MODULE Conversation ----------------------------
(***************************************************************************)
(* One connection between the two programs as both see it: three messages, *)
(* where they are, and what is promised of them.  StreamSession has what   *)
(* the programs do.                                                        *)
(***************************************************************************)
EXTENDS Sequences

VARIABLES
    client,     \* where StreamClient is
    server,     \* where the worker is
    ops,        \* per side: sends the kernel works on, oldest first
    flight,     \* per side: messages sent and not read by the other
    got,        \* per side: messages received
    receiving,  \* a receive of the server is with the kernel
    arrived,    \* what it brought: "none", "data" or "closed"
    closed,     \* the sides that have closed their socket
    cut,        \* the network delivers nothing any more
    gaveUp      \* the sides where a call timed out, was stopped or refused

Sides == {"client", "server"}
Messages == {"greeting", "hello", "goodbye", "garbage"}

-----------------------------------------------------------------------------
\* When nothing was given up the conversation was whole: both messages of the
\* server came, although it closes right behind the second one, and the first
\* was sent before the client was listening.
WholeConversation ==
    client = "ended" /\ gaveUp = {} /\ ~cut =>
        got["client"] = <<"hello", "goodbye">> /\ got["server"] = <<"greeting">>

\* The buffers of a transport are freed with no operation of the kernel on them,
\* unless the worker has given up on one.
FreedIdle ==
    server = "freed" /\ "server" \notin gaveUp =>
        ~receiving /\ ops["server"] = <<>>

\* The same without the exception: violated, Transport.cpp deletes the buffers
\* before the socket.
FreedIdleAlways == server = "freed" => ~receiving /\ ops["server"] = <<>>
=============================================================================
