------------------------------ MODULE Winsock -------------------------------
(***************************************************************************)
(* The part of Windows the socket classes rely on: manual-reset events,    *)
(* one overlapped receive and one overlapped send at a time, and time in   *)
(* whole seconds (CTime).  Starting an overlapped operation clears its     *)
(* event, completing it sets the event, also when it completes at once.    *)
(***************************************************************************)
EXTENDS Integers

CONSTANTS
    MaxNow,         \* bound: the clock stops here
    MaxLen,         \* bound: bytes a call asks for
    MaxBytes,       \* bound: bytes that ever arrive, and bytes ever sent
    MaxStrays,      \* bound: sends given up at one time
    TimeoutSeconds, \* what the program gives SetTimeoutSeconds
    DwordSeconds    \* the DWORD of milliseconds wraps at so many seconds

ASSUME WinsockAssumption ==
    /\ MaxNow \in Nat \ {0} /\ MaxLen \in Nat \ {0} /\ MaxBytes \in Nat
    /\ MaxStrays \in Nat \ {0}
    /\ TimeoutSeconds \in Nat \ {0}
    /\ DwordSeconds \in Nat /\ DwordSeconds > MaxNow + TimeoutSeconds

VARIABLES
    now,        \* CTime::GetCurrentTime()
    signalled,  \* the events that are set
    recvOp,     \* the overlapped receive the kernel works on
    sendOp,     \* the overlapped send the caller is waiting for
    strays,     \* how many sends go on whose caller has given up
    received,   \* bytes the kernel has put into callers' buffers
    accepted    \* bytes the kernel has sent

kernelVars == <<now, signalled, recvOp, sendOp, strays, received, accepted>>

Events == {"read", "write", "stop"}

FAILED == -1

Op == [state : {"none", "pending", "done"}, event : Events,
       len : 0 .. MaxLen, bytes : FAILED .. MaxLen]

NoOp == [state |-> "none", event |-> "read", len |-> 0, bytes |-> 0]

Pending(e, n) == [state |-> "pending", event |-> e, len |-> n, bytes |-> 0]

Done(op, n) == [op EXCEPT !.state = "done", !.bytes = n]

KernelTypeOK ==
    /\ now \in 1 .. MaxNow
    /\ signalled \subseteq Events
    /\ recvOp \in Op /\ sendOp \in Op
    /\ strays \in 0 .. MaxStrays
    /\ received \in 0 .. MaxBytes /\ accepted \in 0 .. MaxBytes

KernelInit ==
    /\ now = 1 /\ signalled = {}
    /\ recvOp = NoOp /\ sendOp = NoOp /\ strays = 0
    /\ received = 0 /\ accepted = 0

\* The results an operation on n bytes may have: a failure, bytes, or 0, for a
\* receive when the peer has shut down.
Count(n) == IF n = FAILED THEN 0 ELSE n
RecvResults(n) == {k \in FAILED .. n : received + Count(k) <= MaxBytes}
SendResults(n) == {k \in FAILED .. n : accepted + Count(k) <= MaxBytes}

KernelRecv ==
    /\ recvOp.state = "pending"
    /\ \E k \in RecvResults(recvOp.len) :
        recvOp' = Done(recvOp, k) /\ received' = received + Count(k)
    /\ signalled' = signalled \cup {recvOp.event}
    /\ UNCHANGED <<now, sendOp, strays, accepted>>

KernelSend ==
    /\ sendOp.state = "pending"
    /\ \E k \in SendResults(sendOp.len) :
        sendOp' = Done(sendOp, k) /\ accepted' = accepted + Count(k)
    /\ signalled' = signalled \cup {"write"}
    /\ UNCHANGED <<now, recvOp, strays, received>>

\* A send whose caller has returned completes: its event is the same one.
KernelStray ==
    /\ strays > 0 /\ strays' = strays - 1
    /\ \E k \in SendResults(MaxLen) : accepted' = accepted + Count(k)
    /\ signalled' = signalled \cup {"write"}
    /\ UNCHANGED <<now, recvOp, sendOp, received>>

Tick ==
    /\ now < MaxNow /\ now' = now + 1
    /\ UNCHANGED <<signalled, recvOp, sendOp, strays, received, accepted>>

\* The program asks its threads to stop.
SetStop ==
    /\ "stop" \notin signalled /\ signalled' = signalled \cup {"stop"}
    /\ UNCHANGED <<now, recvOp, sendOp, strays, received, accepted>>

Kernel == KernelRecv \/ KernelSend \/ KernelStray

\* (DWORD)TimeLeft.GetTotalSeconds() * 1000, in seconds: a negative time wraps
\* round to some 49 days.
WaitSeconds(t) == t % DwordSeconds
=============================================================================
