---------------------------- MODULE IperfStream -----------------------------
(***************************************************************************)
(* What a browser gets to see of a running iperf3: the parser that turns   *)
(* lines into one sample per interval, the buffer of the job, trimmed at   *)
(* its front, and the poller that fetches what is new.                     *)
(*                                                                         *)
(* iperf3 prints the streams of an interval line by line, then their sum,  *)
(* and a pipe may be quiet in between: the reader then gives up waiting    *)
(* and emits what it has.  The lines of an interval that come later are    *)
(* dropped.                                                                *)
(*                                                                         *)
(* Abstracted: the numbers of a line.  An interval is its position in time *)
(* and whether it is omitted.                                              *)
(***************************************************************************)
EXTENDS Naturals, Sequences, FiniteSets

CONSTANTS
    Run,         \* what iperf3 prints: [lines, expected, roles]
    MaxSamples,  \* MAX_SAMPLES, and the poller's own limit
    MaxEmitted,  \* the length at which emitted is forgotten
    Nothing, Stopped

VARIABLES
    run,          \* the process: its lines are fixed when it starts
    ahead,        \* the lines not read yet
    session, seen, \* the session, and its streams by role (role_streams)
    pending,      \* the interval that is not complete, at most one
    emitted,      \* the keys that may not be emitted again
    summary,      \* by role, the line the summary was taken from
    out,          \* every sample the job ever got
    base,         \* how many of them were trimmed
    phase,        \* reading, finishing, over
    cut,          \* an interval was emitted before iperf3 printed all of it
    since, shown, reply  \* the poller: cursor, what it shows, an answer on its way

-----------------------------------------------------------------------------
(***************************************************************************)
(* What iperf3 prints, as feed takes it for granted.                       *)
(***************************************************************************)
LinesOf(lines, kind) == {i \in DOMAIN lines : lines[i].kind = kind}
SessionOf(lines, i) == Cardinality({k \in 1..i : lines[k].kind = "accepted"})
IdOf(l) == [role |-> l.role, id |-> l.id]
KeyOf(lines, i) ==
    [session |-> SessionOf(lines, i), at |-> lines[i].at, omitted |-> lines[i].omitted]

\* The streams and sums of a session; the totals among its end lines are the sum
\* of a role, or the only stream it has.
StreamsOf(lines, k) ==
    {IdOf(lines[i]) : i \in {n \in LinesOf(lines, "interval") : SessionOf(lines, n) = k}}
IsTotal(lines, k, s) == s.id = "SUM" \/ {t \in StreamsOf(lines, k) : t.role = s.role} = {s}
HasTotal(lines, k) ==
    \E i \in LinesOf(lines, "end") : SessionOf(lines, i) = k /\ IsTotal(lines, k, IdOf(lines[i]))

\* The omitted intervals of a test are counted apart.
SameClock(a, b) == a.session = b.session /\ a.omitted = b.omitted

\* Interval after interval, each in one piece and with every stream and sum of its
\* session.
IntervalsInOrder(lines) ==
    \A i, k \in LinesOf(lines, "interval") :
        /\ i < k /\ KeyOf(lines, i) = KeyOf(lines, k) =>
              \A m \in i..k : lines[m].kind = "interval" /\ KeyOf(lines, m) = KeyOf(lines, i)
        /\ i < k /\ SameClock(KeyOf(lines, i), KeyOf(lines, k)) => lines[i].at <= lines[k].at
        /\ SessionOf(lines, i) = SessionOf(lines, k) =>
              \E m \in LinesOf(lines, "interval") :
                  KeyOf(lines, m) = KeyOf(lines, i) /\ IdOf(lines[m]) = IdOf(lines[k])

\* The sum of several streams, after them.
SumsLast(lines) ==
    /\ \A i, k \in LinesOf(lines, "interval") :
          i < k /\ KeyOf(lines, i) = KeyOf(lines, k) /\ lines[i].role = lines[k].role =>
              lines[i].id # "SUM"
    /\ \A i \in LinesOf(lines, "interval") : lines[i].id = "SUM" =>
          \E s, t \in StreamsOf(lines, SessionOf(lines, i)) :
              s.role = lines[i].role /\ t.role = s.role /\ "SUM" \notin {s.id, t.id} /\ s # t

\* A client prints the directions it was asked for, and of one stream one line.
AsAsked(r) ==
    r.expected > 0 =>
        /\ \A i \in LinesOf(r.lines, "interval") : r.lines[i].role \in r.roles
        /\ r.expected = 1 => \A i, k \in LinesOf(r.lines, "interval") :
              KeyOf(r.lines, i) = KeyOf(r.lines, k) /\ r.lines[i].role = r.lines[k].role => i = k

\* A session is its intervals, a separator, its end lines and "listening"; one that
\* is broken off ends sooner, and may have no total.
SessionsInOrder(lines) ==
    /\ \A i \in LinesOf(lines, "interval"), k \in LinesOf(lines, "end") :
          SessionOf(lines, i) = SessionOf(lines, k) =>
              i < k /\ \E m \in i..k : lines[m].kind = "separator"
    /\ \A i \in LinesOf(lines, "end") :
          /\ lines[i].id # "SUM" => IdOf(lines[i]) \in StreamsOf(lines, SessionOf(lines, i))
          /\ \A k \in LinesOf(lines, "listening") :
                SessionOf(lines, i) = SessionOf(lines, k) => i < k
    /\ \A k \in LinesOf(lines, "accepted") : \E j \in LinesOf(lines, "listening") :
          j < k /\ SessionOf(lines, k) = SessionOf(lines, j) + 1

Prints(r) ==
    IntervalsInOrder(r.lines) /\ SumsLast(r.lines) /\ AsAsked(r) /\ SessionsInOrder(r.lines)

vars == <<run, ahead, session, seen, pending, emitted, summary, out, base, phase, cut,
          since, shown, reply>>

parser == <<session, seen, pending, emitted, summary, out, base>>
poller == <<since, shown, reply>>

\* The lines of every process, and what becomes of them.
Lines == UNION {{r.lines[i] : i \in DOMAIN r.lines} : r \in Run}
LineId == [role : {l.role : l \in Lines}, id : {l.id : l \in Lines}]
Key == [session : Nat, at : {l.at : l \in Lines}, omitted : {l.omitted : l \in Lines}]
Slot == [kind : {"interval"}, key : Key, lines : SUBSET LineId]
Sample == Slot \union [kind : {"client", "session_end"}, session : Nat, summary : SUBSET LineId]
Answer == [samples : Seq(Sample), next : Nat, active : BOOLEAN]

TypeOK ==
    /\ run \in Run /\ ahead \in Seq(Lines) /\ session \in Nat /\ summary \subseteq LineId
    /\ pending \in Slot \union {Nothing} /\ out \in Seq(Sample) /\ base \in Nat
    /\ phase \in {"reading", "finishing", "over"} /\ cut \in BOOLEAN
    /\ since \in Nat /\ shown \in Seq(Sample) /\ reply \in Answer \union {Nothing, Stopped}

Init ==
    /\ run \in Run /\ ahead = run.lines
    /\ session = 0 /\ seen = {} /\ pending = Nothing /\ emitted = {} /\ summary = {}
    /\ out = <<>> /\ base = 0 /\ phase = "reading" /\ cut = FALSE
    /\ since = 0 /\ shown = <<>> /\ reply = Nothing

-----------------------------------------------------------------------------
\* add_sample: the buffer holds the last MaxSamples.
Adds(samples) ==
    /\ out' = out \o samples
    /\ base' = IF Len(out') - base > MaxSamples THEN Len(out') - MaxSamples ELSE base

\* Mutant: what was emitted is not remembered.
RemembersNothing(slots) == {}
\* _emit_key, slot after slot: past MaxEmitted everything is forgotten.
Remembered(slots) ==
    LET add[i \in 0..Len(slots)] ==
          IF i = 0 THEN emitted
          ELSE LET e == add[i - 1] \union {slots[i].key}
               IN  IF Cardinality(e) > MaxEmitted THEN {} ELSE e
    IN  add[Len(slots)]

Emits(slots) == emitted' = Remembered(slots)
Flushed == IF pending = Nothing THEN <<>> ELSE <<pending>>
Event(what) == [kind |-> what, session |-> session', summary |-> summary]

NewSlot(key) == [kind |-> "interval", key |-> key, lines |-> {}]

\* A client knows how many streams there are; a server never knows.
Complete(slot) ==
    /\ run.expected > 0
    /\ \A role \in run.roles :
        \/ \E l \in slot.lines : l.role = role /\ l.id = "SUM"
        \/ run.expected = 1 /\ \E l \in slot.lines : l.role = role

-----------------------------------------------------------------------------
(***************************************************************************)
(* feed, one action for each kind of line.                                 *)
(***************************************************************************)
Reads(kind) ==
    /\ phase = "reading" /\ ahead # <<>> /\ Head(ahead).kind = kind
    /\ ahead' = Tail(ahead) /\ UNCHANGED <<run, phase, cut, poller>>

Separator ==
    /\ Reads("separator")
    /\ Emits(Flushed) /\ Adds(Flushed) /\ pending' = Nothing
    /\ UNCHANGED <<session, seen, summary>>

Accepted ==
    /\ Reads("accepted")
    /\ session' = session + 1 /\ seen' = {}
    /\ Emits(Flushed) /\ Adds(Append(Flushed, Event("client"))) /\ pending' = Nothing
    /\ UNCHANGED summary

Listening ==
    /\ Reads("listening")
    /\ session' = session
    /\ Adds(IF summary = {} THEN <<>> ELSE <<Event("session_end")>>)
    /\ summary' = {} /\ UNCHANGED <<seen, pending, emitted>>

\* Of several streams only the sum is taken.
EndLine ==
    /\ Reads("end")
    /\ LET l == Head(ahead)
           several == Cardinality({s \in seen : s.role = l.role}) > 1
       IN  summary' = IF l.id # "SUM" /\ several THEN summary
                      ELSE {s \in summary : s.role # l.role} \union {[role |-> l.role, id |-> l.id]}
    /\ UNCHANGED <<session, seen, pending, emitted, out, base>>

\* A line of another interval completes the pending one.
Interval ==
    /\ Reads("interval")
    /\ LET l == Head(ahead)
           key == [session |-> session, at |-> l.at, omitted |-> l.omitted]
           same == pending # Nothing /\ pending.key = key
           slot == [(IF same THEN pending ELSE NewSlot(key)) EXCEPT !.lines =
                       @ \union {[role |-> l.role, id |-> l.id]}]
           others == IF same THEN <<>> ELSE Flushed
           done == IF Complete(slot) THEN Append(others, slot) ELSE others
       IN  /\ seen' = IF l.id = "SUM" THEN seen ELSE seen \union {[role |-> l.role, id |-> l.id]}
           /\ IF key \in emitted THEN UNCHANGED <<pending, emitted, out, base>>
              ELSE /\ Emits(done) /\ Adds(done)
                   /\ pending' = IF Complete(slot) THEN Nothing ELSE slot
    /\ UNCHANGED <<session, summary>>

-----------------------------------------------------------------------------
\* iperf3 has more to print of the pending interval.
IsMore ==
    /\ pending # Nothing /\ ahead # <<>> /\ Head(ahead).kind = "interval"
    /\ Head(ahead).at = pending.key.at /\ Head(ahead).omitted = pending.key.omitted

FlushCut ==
    /\ Emits(Flushed) /\ Adds(Flushed) /\ pending' = Nothing
    /\ cut' = (cut \/ IsMore)
    /\ UNCHANGED <<run, session, seen, summary, poller>>

\* _read_process: 0.1 s without a line, and the pending interval is old.
Quiet == phase = "reading" /\ pending # Nothing /\ FlushCut /\ UNCHANGED <<ahead, phase>>

\* The end of the output, which a process that is killed reaches early.
EndOfOutput == phase = "reading" /\ phase' = "finishing" /\ ahead' = <<>> /\ FlushCut

\* The time limit cancels the reader, which flushes nothing.
TimeLimit ==
    /\ phase = "reading" /\ phase' = "finishing"
    /\ UNCHANGED <<run, ahead, cut, parser, poller>>

\* _finish: the job is not active any more.
Finish ==
    /\ phase = "finishing" /\ phase' = "over"
    /\ UNCHANGED <<run, ahead, cut, parser, poller>>

-----------------------------------------------------------------------------
(***************************************************************************)
(* The poller.                                                             *)
(***************************************************************************)
\* Mutant: the position is taken without what was trimmed.
NextInBuffer == Len(out) - base
\* snapshot: what is new, and where the next one starts.
NextCursor == Len(out)
Snapshot ==
    LET from == IF since > base THEN since - base ELSE 0
    IN  [samples |-> SubSeq(SubSeq(out, base + 1, Len(out)), from + 1, Len(out) - base),
         next |-> NextCursor, active |-> phase # "over"]

Poll == reply = Nothing /\ reply' = Snapshot /\ UNCHANGED <<run, ahead, phase, cut, parser, since, shown>>

LastOf(samples) ==
    SubSeq(samples, IF Len(samples) > MaxSamples THEN Len(samples) - MaxSamples + 1 ELSE 1, Len(samples))

\* The answer; an inactive job is not polled again.
Receive ==
    /\ reply \notin {Nothing, Stopped}
    /\ since' = reply.next
    /\ shown' = LastOf(shown \o reply.samples)
    /\ reply' = IF reply.active THEN Nothing ELSE Stopped
    /\ UNCHANGED <<run, ahead, phase, cut, parser>>

\* The answer is lost; the poller asks again from where it was.
Lost ==
    /\ reply \notin {Nothing, Stopped}
    /\ reply' = Nothing
    /\ UNCHANGED <<run, ahead, phase, cut, parser, since, shown>>

Next ==
    \/ Separator \/ Accepted \/ Listening \/ EndLine \/ Interval
    \/ Quiet \/ EndOfOutput \/ TimeLimit \/ Finish
    \/ Poll \/ Receive \/ Lost

-----------------------------------------------------------------------------
Intervals == {i \in DOMAIN out : out[i].kind = "interval"}
Ends(k) == {i \in DOMAIN out : out[i].kind = "session_end" /\ out[i].session = k}

\* What iperf3 prints for each interval of a session.
Told(k) == StreamsOf(run.lines, k)

\* An interval is reported once, in the order of time, and with every stream and
\* sum iperf3 prints for it, unless the pipe was quiet in the middle of it; then
\* it is still reported once, as long as emitted was not forgotten.  The end of
\* a session that has a total is reported once, with the total and after its
\* intervals, before the next session is.
SamplesAreWhole ==
    /\ \A i, k \in Intervals :
        /\ i < k /\ SameClock(out[i].key, out[k].key) => out[i].key.at <= out[k].key.at
        /\ i # k /\ (~cut \/ Cardinality(Intervals) <= MaxEmitted) => out[i].key # out[k].key
    /\ ~cut => \A i \in Intervals : out[i].lines = Told(out[i].key.session)
    /\ \A k \in 1..(session - 1) :
        Cardinality(Ends(k)) = IF HasTotal(run.lines, k) THEN 1 ELSE 0
    /\ \A k \in 1..session : \A i \in Ends(k) :
        /\ \A n \in Intervals : out[n].key.session = k => n < i
        /\ \A e \in out[i].summary : IsTotal(run.lines, k, e)

\* A poller that stopped shows the last MaxSamples samples of the job, in order and
\* once, whatever answers were lost and whatever was trimmed before it asked.
PollerHasAll == reply = Stopped => shown = LastOf(out)
=============================================================================
