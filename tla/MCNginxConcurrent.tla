------------------------ MODULE MCNginxConcurrent ---------------------------
(***************************************************************************)
(* Instances of NginxEdge for TLC in which routes clash, within one second: *)
(* requests one at a time, with crashes, failing reloads and a manual       *)
(* backup, or two at once, where reloads succeed and no certificate goes.   *)
(* Every port is free.                                                     *)
(***************************************************************************)
EXTENDS MCNginxEdge

VARIABLE alone

Acting == {h \in Handler : task[h] # NoTask}

ConcurrentInit == Init /\ held = {} /\ ~distro /\ alone \in BOOLEAN
ConcurrentNext ==
    /\ UNCHANGED <<held, alone>>
    /\ \/ alone /\ Next /\ Cardinality(Acting') < 2
       \/ /\ ~alone /\ \E h \in Handler : Request(h) \/ Step(h)
          /\ manual' = {} /\ \A h \in Handler : task'[h].op \notin {"undo_reload", "delete_cert"}
ConcurrentSpec == ConcurrentInit /\ [][ConcurrentNext]_<<vars, alone>>

\* The part of the state that decides which steps are possible.  No action reads
\* outcome or was; and while no port is held, none depends on what nginx runs or on
\* the public server of 00-acme.conf.  A property of the rest is checked on the rest.
Routed(m) == [p \in Part |-> IF m[p] = Absent THEN Absent ELSE m[p] \ {Bootstrap}]
DecidingBoth ==
    <<stateFile, Routed(managed), certs, manual, now, alone,
      [s \in Second |-> [backups[s] EXCEPT !.parts = Routed(@)]],
      [h \in Handler |-> [task[h] EXCEPT !.was = Missing]]>>
=============================================================================
