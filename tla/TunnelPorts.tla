---------------------------- MODULE TunnelPorts -----------------------------
(***************************************************************************)
(* What a tunnel's client configuration forwards: the destinations of the  *)
(* registry, or the list the request names, each given a local port.  The  *)
(* destinations were normalised when the registry was written: here that    *)
(* comes first, one entry after the other, as the ports do; random ports    *)
(* are drawn.                                                              *)
(*                                                                         *)
(* A destination is a host and a port; an entry of the request's list has   *)
(* the local port asked for, or None.  The mode "custom", to which nobody  *)
(* passes ports, is "random".                                              *)
(***************************************************************************)
EXTENDS Naturals, Sequences, SequencesExt

CONSTANTS
    Host,
    Port,      \* the ports destinations are at, and clients ask for
    Low,       \* 1024: lower ports are not used for their own sake
    RandomLo,  \* 20000
    RandomHi,  \* 49999
    Top,       \* 65000: where the search for a free port ends
    MaxLength, \* destinations of a user
    None

VARIABLES
    raw,      \* the destinations as the registry was asked to keep them
    rest,     \* the entries to come
    listed,   \* the request names the forwards
    mode,     \* random or same
    forwards, \* the forwards so far
    failed    \* the request was refused

vars == <<raw, rest, listed, mode, forwards, failed>>

Entry == [host : Host, port : Port, asked : Port \union {None}]
Target(e) == <<e.host, e.port>>

Init ==
    /\ listed \in BOOLEAN /\ mode \in {"random", "same"}
    /\ \E given \in SeqOf({e \in Entry : listed \/ e.asked = None}, MaxLength) :
          IF listed THEN raw = <<>> /\ rest = given ELSE raw = given /\ rest = <<>>
    /\ forwards = <<>> /\ failed = FALSE

\* _normalize_destinations keeps the first of equal destinations.
Normalize ==
    LET e == Head(raw)
    IN  /\ raw # <<>>
        /\ rest' = IF \E i \in DOMAIN rest : Target(rest[i]) = Target(e)
                   THEN rest ELSE Append(rest, e)
        /\ raw' = Tail(raw) /\ UNCHANGED <<listed, mode, forwards, failed>>

Used == {forwards[i].local : i \in DOMAIN forwards}

\* _rand_port: 64 draws, then the first port that is free.
FirstFree == CHOOSE p \in RandomLo..Top :
                 /\ p \notin Used \/ p = Top
                 /\ \A q \in RandomLo..(p - 1) : q \in Used
RandPort == ((RandomLo..RandomHi) \ Used) \union {FirstFree}

\* The port the mode gives a destination, before it is compared with the others.
Wanted(e) == IF mode = "same" /\ e.port >= Low THEN {e.port} ELSE RandPort

\* Mutant: the port of the mode is taken whoever has it.
AllocateAny(e) == Wanted(e)

\* A port that is used gives way to a random one.
Allocate(e) == (Wanted(e) \ Used) \union (IF Wanted(e) \subseteq Used THEN RandPort ELSE {})

Forward(e, p) == [local |-> p, host |-> e.host, port |-> e.port]

\* _allocate_local_ports.
GivePort ==
    LET e == Head(rest)
    IN  /\ ~listed /\ raw = <<>> /\ rest # <<>>
        /\ \E p \in Allocate(e) : forwards' = Append(forwards, Forward(e, p))
        /\ rest' = Tail(rest) /\ UNCHANGED <<raw, listed, mode, failed>>

\* The port of an entry of the request: its own, that of the mode, or a random
\* one that is drawn until it is free.
Listed(e) ==
    IF e.asked # None THEN {e.asked}
    ELSE IF mode = "same" /\ e.port >= Low THEN {e.port}
    ELSE (RandomLo..RandomHi) \ Used

\* build_ssh_config with a list: a duplicate is refused.
TakeEntry ==
    LET e == Head(rest)
    IN  /\ listed /\ rest # <<>> /\ ~failed
        /\ \E p \in Listed(e) :
              IF p \in Used
                THEN failed' = TRUE /\ UNCHANGED <<rest, forwards>>
                ELSE /\ forwards' = Append(forwards, Forward(e, p))
                     /\ rest' = Tail(rest) /\ UNCHANGED failed
        /\ UNCHANGED <<raw, listed, mode>>

Next == Normalize \/ GivePort \/ TakeEntry

-----------------------------------------------------------------------------
\* ssh gives up if it cannot open a forward (ExitOnForwardFailure): no two of a
\* configuration have one local port, however the ports were drawn, and no
\* destination of the registry is forwarded twice.
ForwardsOpen ==
    \A i, k \in DOMAIN forwards :
        \/ forwards[i].local = forwards[k].local
        \/ ~listed /\ Target(forwards[i]) = Target(forwards[k])
        => i = k
=============================================================================
