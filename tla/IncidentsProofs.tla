-------------------------- MODULE IncidentsProofs ---------------------------
(***************************************************************************)
(* Proofs about the incident routes: how alerts are linked to incidents    *)
(* (Incidents), and what users do to an incident itself (IncidentDesk).    *)
(***************************************************************************)
EXTENDS Incidents, IncidentDesk, FiniteSetTheorems, TLAPS
-----------------------------------------------------------------------------

(***************************************************************************)
(* Incidents, for any sets of incidents, alerts and clients and any bounds: an *)
(* alert that moves between incidents is never lost, and what an incident  *)
(* stores about its alerts follows its links.                              *)
(***************************************************************************)

\* What a request has still to do: one change, a split, or the rest of a merge,
\* in which the alerts that are removed are added by the next job.
JobRecord == [do : {"add", "remove"}, to : Incident, alerts : SUBSET Alert,
              of : Incident \cup {NoIncident}, drop : BOOLEAN]
Single(js) == Len(js) = 1 /\ js[1].of = NoIncident
Splitting(js) ==
    /\ Len(js) = 2 /\ js[1].do = "add" /\ js[2].do = "remove" /\ js[1].alerts = js[2].alerts
    /\ js[1].of = NoIncident /\ js[2].of = NoIncident /\ (js[2].drop \/ js[1].to # js[2].to)
Moving(js) ==
    \A k \in 1..Len(js) :
        /\ js[k].of # NoIncident
        /\ js[k].do = "remove" =>
             k + 1 \in 1..Len(js) /\ js[k + 1].do = "add" /\ js[k + 1].alerts = js[k].alerts
JobsFit(js) == js \in Seq(JobRecord) /\ (Single(js) \/ Splitting(js) \/ Moving(js))

ValueRecord == [services : SUBSET ServicesOf(Alert), severity : Severities]

\* A client has jobs exactly while it is at one of their steps.
ClientsFit ==
    /\ pc \in [Client -> {"idle", "link", "insert", "read", "update", "check", "finish"}]
    /\ DOMAIN jobs = Client /\ \A c \in Client : JobsFit(jobs[c])
    /\ \A c \in Client : pc[c] \in {"link", "insert", "read", "update"} <=> jobs[c] # << >>
    /\ \A c \in Client : pc[c] = "read" /\ Head(jobs[c]).do = "add" => new[c] # {}
    /\ \A c \in Client : pc[c] = "insert" =>
         Head(jobs[c]).do = "add" /\ new[c] # {} /\ new[c] \subseteq Head(jobs[c]).alerts
    /\ tries \in [Client -> 1..3] /\ new \in [Client -> SUBSET Alert]
    /\ values \in [Client -> ValueRecord]
    /\ dirty \in [Client -> SUBSET (Incident \X Incident)]

RowsFit ==
    /\ linked \in [Incident -> SUBSET Alert]
    /\ count \in [Incident -> 0..Cardinality(Alert)]
    /\ services \in [Incident -> SUBSET ServicesOf(Alert)]
    /\ severity \in [Incident -> Severities] /\ forced \in [Incident -> BOOLEAN]
    /\ status \in [Incident -> {"firing", "acknowledged", "resolved", "merged", "deleted"}]
    /\ merged \in [Incident -> Incident \cup {NoIncident}]

Typed == ClientsFit /\ RowsFit

\* The alerts an addition has chosen and not yet linked, and those a merge has taken
\* from their incident and not yet added.
Chosen(c) == IF pc[c] = "insert" THEN new[c] ELSE {}
Carried(c) ==
    IF jobs[c] = << >> \/ ~Merging(c) THEN {}
    ELSE IF Head(jobs[c]).do = "add" <=> pc[c] = "link" THEN Head(jobs[c]).alerts ELSE Chosen(c)

\* The alerts that a split has still to remove are in another incident, unless
\* another request was to remove them too.
SplitSafe(c) ==
    LET js == jobs[c] IN
    /\ Single(js) /\ js[1].do = "remove" /\ ~js[1].drop =>
         \A f \in js[1].alerts : f \in contended \/ \E i \in Incident \ {js[1].to} : f \in linked[i]
    /\ Splitting(js) /\ pc[c] # "link" =>
         js[1].alerts \subseteq linked[js[1].to] \cup contended \cup Chosen(c)

Accounted(f) ==
    \/ \E i \in Incident : f \in linked[i]
    \/ f \in dropped \cup reported \cup contended
    \/ \E c \in Client : f \in Carried(c)

MovedInv == (\A c \in Client : SplitSafe(c)) /\ \A f \in seen : Accounted(f)

\* A client has changed the links of i and not yet its aggregates.
Changes(c, i) == pc[c] \in {"read", "update"} /\ Head(jobs[c]).to = i

Counted(i) == (\E c \in Client : Changes(c, i)) \/ count[i] = Cardinality(linked[i])

\* The services sv and the severity sy are those of the alerts S.
Judged(i, sv, sy, S) ==
    /\ i \notin misjudged => sv = ServicesOf(S)
    /\ ~forced[i] /\ S # {} => sy = Worst(S)

\* What is stored of i, or is about to be, by the step its only changer c is at.
Pending(c, i) ==
    /\ pc[c] = "update" => Judged(i, values[c].services, values[c].severity, linked[i])
    /\ pc[c] = "read" /\ Head(jobs[c]).do = "add" =>
         /\ new[c] # {} /\ new[c] \subseteq linked[i]
         /\ count[i] = Cardinality(linked[i] \ new[c])
         /\ Judged(i, services[i], severity[i], linked[i] \ new[c])
    /\ pc[c] = "read" /\ Head(jobs[c]).do = "remove" /\ i \notin misjudged =>
         /\ ServicesOf(linked[i]) \subseteq services[i]
         /\ services[i] \subseteq ServicesOf(linked[i] \cup Head(jobs[c]).alerts)

Follows(i) ==
    i \notin raced =>
        /\ \A c, d \in Client : Changes(c, i) /\ Changes(d, i) => c = d
        /\ (\A c \in Client : ~Changes(c, i)) => Judged(i, services[i], severity[i], linked[i])
        /\ \A c \in Client : Changes(c, i) => Pending(c, i)

AggregatesInv == ~faulty => \A i \in Incident : Counted(i) /\ Follows(i)

-----------------------------------------------------------------------------
\* The largest of some severities is one of them.
LEMMA MaxFact ==
    ASSUME NEW S, S \subseteq Severities, S # {}
    PROVE  Max(S) \in S /\ \A y \in S : Max(S) >= y
<1>1. \E x \in S : \A y \in S : x >= y
    <2>1. CASE 5 \in S
        BY <2>1 DEF Severities
    <2>2. CASE 5 \notin S /\ 4 \in S
        BY <2>2 DEF Severities
    <2>3. CASE 5 \notin S /\ 4 \notin S /\ 3 \in S
        BY <2>3 DEF Severities
    <2>4. CASE 5 \notin S /\ 4 \notin S /\ 3 \notin S /\ 2 \in S
        BY <2>4 DEF Severities
    <2>5. CASE 5 \notin S /\ 4 \notin S /\ 3 \notin S /\ 2 \notin S
        <3>1. \A y \in S : y = 1
            BY <2>5 DEF Severities
        <3>2. PICK x \in S : TRUE
            OBVIOUS
        <3> QED  BY <3>1, <3>2
    <2> QED  BY <2>1, <2>2, <2>3, <2>4, <2>5
<1> QED  BY <1>1 DEF Max

\* The worst of some alerts is as bad as each of them.
LEMMA WorstFact ==
    ASSUME NEW S, S \subseteq Alert, S # {}
    PROVE  /\ Worst(S) \in Severities /\ \A f \in S : Worst(S) >= Severity[f]
           /\ \E f \in S : Worst(S) = Severity[f]
<1> DEFINE T == {Severity[f] : f \in S}
<1>1. T \subseteq Severities /\ T # {}
    BY IncidentsAssumption
<1>2. Max(T) \in T /\ \A y \in T : Max(T) >= y
    BY <1>1, MaxFact
<1>3. Worst(S) = Max(T)
    BY DEF Worst
<1> HIDE DEF T
<1>4. Worst(S) \in T /\ \A y \in T : Worst(S) >= y
    BY <1>2, <1>3
<1>5. /\ \A f \in S : Severity[f] \in T
      /\ \A y \in T : \E f \in S : y = Severity[f]
    BY DEF T
<1> QED  BY <1>1, <1>4, <1>5

\* One more than as bad as the worst of two groups is the worst of all.
LEMMA WorstOfBoth ==
    ASSUME NEW S, NEW T, S \subseteq Alert, T \subseteq Alert, S # {}, T # {}
    PROVE  Max({Worst(S), Worst(T)}) = Worst(S \cup T)
<1>1. /\ Worst(S) \in Severities /\ Worst(T) \in Severities
      /\ Worst(S \cup T) \in Severities
    BY WorstFact
<1>2. PICK m : m = Max({Worst(S), Worst(T)})
    OBVIOUS
<1>3. m \in {Worst(S), Worst(T)} /\ m >= Worst(S) /\ m >= Worst(T)
    <2>1. {Worst(S), Worst(T)} \subseteq Severities /\ {Worst(S), Worst(T)} # {}
        BY <1>1
    <2> QED  BY <1>2, <2>1, MaxFact
<1>4. PICK f \in S \cup T : Worst(S \cup T) = Severity[f]
    BY WorstFact
<1>5. m >= Worst(S \cup T)
    <2>1. Worst(S) >= Severity[f] \/ Worst(T) >= Severity[f]
        BY WorstFact
    <2>2. Severity[f] \in Severities
        BY <1>1, <1>4
    <2> QED  BY <1>1, <1>3, <1>4, <2>1, <2>2 DEF Severities
<1>6. Worst(S \cup T) >= Worst(S) /\ Worst(S \cup T) >= Worst(T)
    <2>1. PICK g \in S, h \in T : Worst(S) = Severity[g] /\ Worst(T) = Severity[h]
        BY WorstFact
    <2> QED  BY <2>1, WorstFact
<1> QED  BY <1>1, <1>2, <1>3, <1>5, <1>6 DEF Severities

\* A set of alerts is finite, and there are no more of them than alerts.
LEMMA CountFact ==
    ASSUME NEW S, S \subseteq Alert
    PROVE  /\ IsFiniteSet(S) /\ Cardinality(S) \in 0..Cardinality(Alert)
           /\ Cardinality(S) = 0 <=> S = {}
<1>1. IsFiniteSet(S) /\ Cardinality(S) <= Cardinality(Alert)
    BY IncidentsAssumption, FS_Subset
<1>2. Cardinality(S) \in Nat /\ Cardinality(Alert) \in Nat
    BY <1>1, IncidentsAssumption, FS_CardinalityType
<1>3. Cardinality(S) = 0 <=> S = {}
    BY <1>1, FS_EmptySet
<1> QED  BY <1>1, <1>2, <1>3

\* So are their services.
LEMMA ServicesFinite ==
    ASSUME NEW S, S \subseteq Alert
    PROVE  IsFiniteSet(ServicesOf(S)) /\ Cardinality(ServicesOf(S)) \in Nat
<1> DEFINE f == [a \in S |-> Service[a]]
<1>1. f \in Surjection(S, ServicesOf(S))
    BY DEF Surjection, ServicesOf
<1>2. IsFiniteSet(ServicesOf(S))
    BY <1>1, CountFact, FS_Surjection
<1> QED  BY <1>2, FS_CardinalityType

-----------------------------------------------------------------------------
\* What the head and the tail of a request's jobs hold.
LEMMA TailFacts ==
    ASSUME NEW js \in Seq(JobRecord), js # << >>
    PROVE  /\ Head(js) = js[1] /\ Head(js) \in JobRecord /\ Len(js) >= 1 /\ Len(js) \in Nat
           /\ Tail(js) \in Seq(JobRecord) /\ Len(Tail(js)) = Len(js) - 1
           /\ \A k \in 1..Len(Tail(js)) : Tail(js)[k] = js[k + 1]
           /\ Tail(js) = << >> <=> Len(js) = 1
<1>1. Head(js) = js[1] /\ Head(js) \in JobRecord /\ 1 \in 1..Len(js)
    OBVIOUS
<1>2. Tail(js) \in Seq(JobRecord) /\ Len(Tail(js)) = Len(js) - 1 /\ Len(js) \in Nat
    OBVIOUS
<1>3. \A k \in 1..Len(Tail(js)) : Tail(js)[k] = js[k + 1]
    OBVIOUS
<1>4. \A s \in Seq(JobRecord) : s = << >> <=> Len(s) = 0
    OBVIOUS
<1>5. Tail(js) = << >> <=> Len(js) = 1
    <2>1. Len(Tail(js)) = 0 <=> Len(js) = 1
        BY <1>2
    <2>2. Tail(js) = << >> <=> Len(Tail(js)) = 0
        BY <1>2, <1>4, Zenon
    <2> QED  BY <2>1, <2>2, Zenon
<1> QED  BY <1>1, <1>2, <1>3, <1>5

\* Nothing to do is the rest of any request.
LEMMA NothingFits == JobsFit(<< >>) /\ ~Single(<< >>) /\ ~Splitting(<< >>)
<1>1. << >> \in Seq(JobRecord) /\ Len(<< >>) = 0
    OBVIOUS
<1> QED  BY <1>1 DEF JobsFit, Single, Splitting, Moving

\* After its first job, a single request has nothing left to do, a split has its
\* removal, and a merge that has removed some alerts is to add them.
LEMMA TailFits ==
    ASSUME NEW js, JobsFit(js), js # << >>
    PROVE  /\ Head(js) \in JobRecord /\ Head(js) = js[1]
           /\ JobsFit(Tail(js)) /\ ~Splitting(Tail(js))
           /\ Single(Tail(js)) => Splitting(js) /\ Tail(js)[1] = js[2]
           /\ Head(js).of = NoIncident => Single(js) \/ Splitting(js)
           /\ Head(js).of # NoIncident => Moving(js) /\ ~Single(js) /\ ~Splitting(js) /\ ~Single(Tail(js))
           /\ Head(js).of # NoIncident /\ Head(js).do = "remove" =>
                /\ Tail(js) # << >> /\ Head(Tail(js)).do = "add"
                /\ Head(Tail(js)).alerts = Head(js).alerts /\ Head(Tail(js)).of # NoIncident
           /\ ~(Single(js) /\ Splitting(js))
<1>1. js \in Seq(JobRecord) /\ (Single(js) \/ Splitting(js) \/ Moving(js))
    BY DEF JobsFit
<1>2. /\ Head(js) = js[1] /\ Head(js) \in JobRecord /\ Len(js) >= 1 /\ Len(js) \in Nat
      /\ Tail(js) \in Seq(JobRecord) /\ Len(Tail(js)) = Len(js) - 1
      /\ \A k \in 1..Len(Tail(js)) : Tail(js)[k] = js[k + 1]
      /\ Tail(js) = << >> <=> Len(js) = 1
    BY <1>1, TailFacts
<1> DEFINE ts == Tail(js)
<1> HIDE DEF ts
<1>3. /\ ts \in Seq(JobRecord) /\ Len(ts) = Len(js) - 1
      /\ \A k \in 1..Len(ts) : ts[k] = js[k + 1]
    BY <1>2 DEF ts
<1>4. CASE Single(js)
    <2>1. Len(ts) = 0 /\ Head(js).of = NoIncident
        BY <1>2, <1>3, <1>4 DEF Single
    <2>2. Moving(ts) /\ ~Single(ts) /\ ~Splitting(ts)
        BY <2>1 DEF Moving, Single, Splitting
    <2>3. ~Splitting(js)
        BY <1>4 DEF Single, Splitting
    <2> QED  BY <1>2, <1>3, <1>4, <2>1, <2>2, <2>3 DEF JobsFit, ts
<1>5. CASE Splitting(js)
    <2>1. Len(ts) = 1 /\ Head(js).of = NoIncident /\ ts[1] = js[2] /\ ts[1].of = NoIncident
        BY <1>2, <1>3, <1>5 DEF Splitting
    <2>2. Single(ts) /\ ~Splitting(ts)
        BY <2>1 DEF Single, Splitting
    <2>3. ~Single(js)
        BY <1>5 DEF Single, Splitting
    <2> QED  BY <1>2, <1>3, <1>5, <2>1, <2>2, <2>3 DEF JobsFit, ts
<1>6. CASE Moving(js)
    <2>1. Head(js).of # NoIncident
        BY <1>2, <1>6 DEF Moving
    <2>2. ~Single(js) /\ ~Splitting(js)
        BY <1>2, <2>1 DEF Single, Splitting
    <2>3. Moving(ts)
        <3> SUFFICES ASSUME NEW k \in 1..Len(ts)
                     PROVE  /\ ts[k].of # NoIncident
                            /\ ts[k].do = "remove" =>
                                 /\ k + 1 \in 1..Len(ts) /\ ts[k + 1].do = "add"
                                 /\ ts[k + 1].alerts = ts[k].alerts
            BY DEF Moving
        <3>1. k + 1 \in 1..Len(js) /\ ts[k] = js[k + 1]
            BY <1>2, <1>3
        <3>2. /\ js[k + 1].of # NoIncident
              /\ js[k + 1].do = "remove" =>
                   /\ k + 1 + 1 \in 1..Len(js) /\ js[k + 1 + 1].do = "add"
                   /\ js[k + 1 + 1].alerts = js[k + 1].alerts
            BY <1>6, <3>1 DEF Moving
        <3>3. k + 1 + 1 \in 1..Len(js) => k + 1 \in 1..Len(ts) /\ ts[k + 1] = js[k + 1 + 1]
            BY <1>2, <1>3, <3>1
        <3> QED  BY <3>1, <3>2, <3>3
    <2>4. \A k \in 1..Len(ts) : ts[k].of # NoIncident
        BY <2>3 DEF Moving
    <2>5. ~Single(ts) /\ ~Splitting(ts)
        BY <2>4 DEF Single, Splitting
    <2>6. Head(js).do = "remove" =>
            /\ ts # << >> /\ ts[1].do = "add" /\ ts[1].alerts = Head(js).alerts
            /\ ts[1].of # NoIncident /\ Head(ts) = ts[1]
        <3>1. Head(js).do = "remove" =>
                1 + 1 \in 1..Len(js) /\ js[1 + 1].do = "add" /\ js[1 + 1].alerts = js[1].alerts
            BY <1>2, <1>6 DEF Moving
        <3>2. 1 + 1 \in 1..Len(js) => 1 \in 1..Len(ts) /\ ts[1] = js[1 + 1] /\ ts # << >>
            BY <1>2, <1>3
        <3>3. ts # << >> => Head(ts) = ts[1]
            BY <1>3, TailFacts
        <3> QED  BY <1>2, <2>4, <3>1, <3>2, <3>3
    <2> QED  BY <1>2, <1>3, <1>6, <2>1, <2>2, <2>3, <2>5, <2>6 DEF JobsFit, ts
<1> QED  BY <1>1, <1>4, <1>5, <1>6

-----------------------------------------------------------------------------
\* What a request has to do when it starts.
Starts(js) ==
    /\ js # << >> /\ JobsFit(js)
    /\ Single(js) => js[1].do = "add" \/ js[1].drop
    /\ js[1].of # NoIncident => js[1].do = "remove"

Asks(c) ==
    \/ add_alerts_to_incident(c) \/ delete_alerts_from_incident(c)
    \/ split_incident(c) \/ merge_incidents(c)

LEMMA OneJob ==
    ASSUME NEW j \in JobRecord, j.of = NoIncident, j.do = "add" \/ j.drop
    PROVE  Starts(<<j>>)
<1>1. <<j>> \in Seq(JobRecord) /\ Len(<<j>>) = 1 /\ <<j>>[1] = j /\ <<j>> # << >>
    OBVIOUS
<1> QED  BY <1>1 DEF Starts, JobsFit, Single

LEMMA TwoJobs ==
    ASSUME NEW j \in JobRecord, NEW k \in JobRecord, j.of = NoIncident, k.of = NoIncident,
           j.do = "add", k.do = "remove", j.alerts = k.alerts, k.drop \/ j.to # k.to
    PROVE  Starts(<<j, k>>)
<1> DEFINE js == <<j, k>>
<1>1. js \in Seq(JobRecord) /\ Len(js) = 2 /\ js[1] = j /\ js[2] = k /\ js # << >>
    OBVIOUS
<1> HIDE DEF js
<1>2. Splitting(js) /\ ~Single(js)
    BY <1>1 DEF Splitting, Single
<1>3. Starts(js)
    BY <1>1, <1>2 DEF Starts, JobsFit
<1> QED  BY <1>3 DEF js

\* The jobs of a merge: each source's alerts are removed, then added.
MergeJobs(d, order) ==
    [k \in 1..2 * Len(order) |->
        LET s == order[(k + 1) \div 2] IN
        IF k % 2 = 1 THEN RemoveJob(s, linked[s], s, FALSE) ELSE AddJob(d, linked[s], s)]

LEMMA ManyJobs ==
    ASSUME Typed, NEW d \in Incident, NEW n \in Nat, n > 0, NEW order \in [1..n -> Incident]
    PROVE  Starts(MergeJobs(d, order))
<1> DEFINE js == MergeJobs(d, order)
           half(k) == (k + 1) \div 2
<1>1. Len(order) = n
    OBVIOUS
<1>2. \A k \in 1..2 * n : half(k) \in 1..n
    OBVIOUS
<1>3. \A k \in 1..2 * n : k % 2 = 1 =>
        k + 1 \in 1..2 * n /\ (k + 1) % 2 # 1 /\ half(k + 1) = half(k)
    OBVIOUS
<1>4. \A k \in 1..2 * n : order[half(k)] \in Incident
    BY <1>2
<1>5. \A k \in 1..2 * n : js[k] = LET s == order[half(k)] IN
        IF k % 2 = 1 THEN RemoveJob(s, linked[s], s, FALSE) ELSE AddJob(d, linked[s], s)
    BY <1>1 DEF MergeJobs
<1>6. DOMAIN js = 1..2 * n /\ js = [k \in 1..2 * n |-> js[k]]
    BY <1>1 DEF MergeJobs
<1> HIDE DEF js, half
<1>7. \A i \in Incident : linked[i] \in SUBSET Alert /\ i # NoIncident
    BY IncidentsAssumption DEF Typed, RowsFit
<1>8. \A s \in Incident :
        /\ RemoveJob(s, linked[s], s, FALSE) \in JobRecord
        /\ RemoveJob(s, linked[s], s, FALSE).of = s
        /\ RemoveJob(s, linked[s], s, FALSE).do = "remove"
        /\ RemoveJob(s, linked[s], s, FALSE).alerts = linked[s]
        /\ AddJob(d, linked[s], s) \in JobRecord
        /\ AddJob(d, linked[s], s).of = s
        /\ AddJob(d, linked[s], s).do = "add"
        /\ AddJob(d, linked[s], s).alerts = linked[s]
    BY <1>7 DEF RemoveJob, AddJob, JobRecord
<1>9. \A k \in 1..2 * n :
        /\ js[k] \in JobRecord /\ js[k].of = order[half(k)]
        /\ js[k].alerts = linked[order[half(k)]]
        /\ k % 2 = 1 => js[k].do = "remove"
        /\ k % 2 # 1 => js[k].do = "add"
    <2> TAKE k \in 1..2 * n
    <2>1. PICK s \in Incident : s = order[half(k)]
        BY <1>4
    <2>2. CASE k % 2 = 1
        <3>1. PICK r : r = RemoveJob(s, linked[s], s, FALSE)
            OBVIOUS
        <3>2. js[k] = r
            BY <1>5, <2>1, <2>2, <3>1
        <3>3. r \in JobRecord /\ r.of = s /\ r.do = "remove" /\ r.alerts = linked[s]
            BY <1>8, <3>1
        <3> QED  BY <2>1, <2>2, <3>2, <3>3
    <2>3. CASE k % 2 # 1
        <3>1. PICK r : r = AddJob(d, linked[s], s)
            OBVIOUS
        <3>2. js[k] = r
            BY <1>5, <2>1, <2>3, <3>1
        <3>3. r \in JobRecord /\ r.of = s /\ r.do = "add" /\ r.alerts = linked[s]
            BY <1>8, <3>1
        <3> QED  BY <2>1, <2>3, <3>2, <3>3
    <2> QED  BY <2>2, <2>3
<1>10. js \in Seq(JobRecord) /\ Len(js) = 2 * n
    <2>1. js \in [1..2 * n -> JobRecord]
        BY <1>6, <1>9
    <2>2. 2 * n \in Nat
        OBVIOUS
    <2> QED  BY <2>1, <2>2
<1>11. Moving(js)
    <2> SUFFICES ASSUME NEW k \in 1..2 * n
                 PROVE  /\ js[k].of # NoIncident
                        /\ js[k].do = "remove" =>
                             /\ k + 1 \in 1..2 * n /\ js[k + 1].do = "add"
                             /\ js[k + 1].alerts = js[k].alerts
        BY <1>10 DEF Moving
    <2>1. js[k].of # NoIncident
        BY <1>4, <1>7, <1>9
    <2>2. js[k].do = "remove" => k % 2 = 1
        BY <1>9
    <2>3. k % 2 = 1 => k + 1 \in 1..2 * n /\ js[k + 1].do = "add" /\ js[k + 1].alerts = js[k].alerts
        BY <1>3, <1>9
    <2> QED  BY <2>1, <2>2, <2>3
<1>12. js # << >> /\ 1 \in 1..2 * n /\ 1 % 2 = 1
    BY <1>10
<1>13. js[1].do = "remove" /\ js[1].of # NoIncident /\ ~Single(js)
    BY <1>4, <1>7, <1>9, <1>12 DEF Single
<1>14. Starts(js)
    BY <1>10, <1>11, <1>12, <1>13 DEF Starts, JobsFit
<1> QED  BY <1>14 DEF js

LEMMA AsksStart ==
    ASSUME Typed, NEW c \in Client, Asks(c)
    PROVE  \E js : Starts(js) /\ Start(c, js)
<1>1. \A i \in Incident, S \in Batch :
        /\ AddJob(i, S, NoIncident) \in JobRecord /\ AddJob(i, S, NoIncident).of = NoIncident
        /\ AddJob(i, S, NoIncident).do = "add" /\ AddJob(i, S, NoIncident).alerts = S
        /\ AddJob(i, S, NoIncident).to = i
    BY DEF AddJob, JobRecord, Batch
<1>6. \A i \in Incident, S \in Batch, drop \in BOOLEAN :
        /\ RemoveJob(i, S, NoIncident, drop) \in JobRecord
        /\ RemoveJob(i, S, NoIncident, drop).of = NoIncident
        /\ RemoveJob(i, S, NoIncident, drop).do = "remove"
        /\ RemoveJob(i, S, NoIncident, drop).alerts = S
        /\ RemoveJob(i, S, NoIncident, drop).to = i
        /\ RemoveJob(i, S, NoIncident, drop).drop = drop
    BY DEF RemoveJob, JobRecord, Batch
<1>2. CASE add_alerts_to_incident(c)
    <2>1. PICK i \in Incident, S \in Batch : Start(c, <<AddJob(i, S, NoIncident)>>)
        BY <1>2 DEF add_alerts_to_incident
    <2>2. PICK j : j = AddJob(i, S, NoIncident)
        OBVIOUS
    <2>3. j \in JobRecord /\ j.of = NoIncident /\ j.do = "add"
        BY <1>1, <2>2
    <2>4. Starts(<<j>>)
        BY <2>3, OneJob
    <2> QED  BY <2>1, <2>2, <2>4
<1>3. CASE delete_alerts_from_incident(c)
    <2>1. PICK i \in Incident, S \in Batch : Start(c, <<RemoveJob(i, S, NoIncident, TRUE)>>)
        BY <1>3 DEF delete_alerts_from_incident
    <2>2. PICK drop \in BOOLEAN : drop = TRUE
        OBVIOUS
    <2>3. PICK j : j = RemoveJob(i, S, NoIncident, drop)
        OBVIOUS
    <2>4. j \in JobRecord /\ j.of = NoIncident /\ j.drop = drop
        BY <1>6, <2>3
    <2>5. Starts(<<j>>)
        BY <2>2, <2>4, OneJob
    <2>6. Start(c, <<j>>)
        BY <2>1, <2>2, <2>3, Zenon
    <2> QED  BY <2>5, <2>6
<1>4. CASE split_incident(c)
    <2>1. PICK i \in Incident, d \in Incident, S \in Batch :
            Start(c, <<AddJob(d, S, NoIncident), RemoveJob(i, S, NoIncident, i = d)>>)
        BY <1>4 DEF split_incident
    <2>2. (i = d) \in BOOLEAN
        OBVIOUS
    <2>3. PICK same \in BOOLEAN : same = (i = d)
        BY <2>2
    <2>4. Starts(<<AddJob(d, S, NoIncident), RemoveJob(i, S, NoIncident, same)>>)
        <3>1. same \/ d # i
            BY <2>3, Zenon
        <3> QED  BY <1>1, <1>6, <3>1, TwoJobs
    <2>5. Start(c, <<AddJob(d, S, NoIncident), RemoveJob(i, S, NoIncident, same)>>)
        BY <2>1, <2>3, Zenon
    <2> QED  BY <2>4, <2>5
<1>5. CASE merge_incidents(c)
    <2>1. PICK d \in Incident, sources \in SUBSET Incident : \E order \in SetToSeqs(sources) :
            sources # {} /\ Start(c, MergeJobs(d, order))
        BY <1>5 DEF merge_incidents, MergeJobs
    <2>2. PICK order \in SetToSeqs(sources) : sources # {} /\ Start(c, MergeJobs(d, order))
        BY <2>1
    <2>3. IsFiniteSet(sources)
        BY IncidentsAssumption, FS_Subset
    <2>4. PICK n : n = Cardinality(sources)
        OBVIOUS
    <2>5. n \in Nat /\ n > 0
        BY <2>2, <2>3, <2>4, FS_CardinalityType, FS_EmptySet
    <2>6. order \in [1..n -> sources]
        BY <2>4 DEF SetToSeqs
    <2>7. order \in [1..n -> Incident]
        BY <2>6
    <2>8. Starts(MergeJobs(d, order))
        BY <2>5, <2>7, ManyJobs
    <2> QED  BY <2>2, <2>8
<1> QED  BY <1>2, <1>3, <1>4, <1>5 DEF Asks

-----------------------------------------------------------------------------
\* Who is where in ClientsFit, and what the clients hold.
Places == {"idle", "link", "insert", "read", "update", "check", "finish"}
PlacesFit ==
    /\ pc \in [Client -> Places]
    /\ \A c \in Client : pc[c] \in {"link", "insert", "read", "update"} <=> jobs[c] # << >>
    /\ \A c \in Client : pc[c] = "read" /\ Head(jobs[c]).do = "add" => new[c] # {}
    /\ \A c \in Client : pc[c] = "insert" =>
         Head(jobs[c]).do = "add" /\ new[c] # {} /\ new[c] \subseteq Head(jobs[c]).alerts
HoldingsFit ==
    /\ tries \in [Client -> 1..3] /\ new \in [Client -> SUBSET Alert]
    /\ values \in [Client -> ValueRecord]
    /\ dirty \in [Client -> SUBSET (Incident \X Incident)]

LEMMA ClientParts ==
    ClientsFit <=> PlacesFit /\ HoldingsFit /\ DOMAIN jobs = Client /\ \A c \in Client : JobsFit(jobs[c])
BY DEF ClientsFit, PlacesFit, HoldingsFit, Places

LEMMA NoValuesFit == NoValues \in ValueRecord /\ ServicesOf({}) = {}
BY DEF NoValues, ValueRecord, Low, Severities, ServicesOf

\* The first job of a request.
LEMMA HeadFits ==
    ASSUME Typed, NEW c \in Client, pc[c] \in {"link", "insert", "read", "update"}
    PROVE  /\ jobs[c] # << >> /\ JobsFit(jobs[c])
           /\ Head(jobs[c]) \in JobRecord /\ Head(jobs[c]).to \in Incident
           /\ Head(jobs[c]).alerts \in SUBSET Alert /\ Head(jobs[c]).do \in {"add", "remove"}
<1>1. jobs[c] # << >> /\ JobsFit(jobs[c])
    BY DEF Typed, ClientsFit
<1>2. Head(jobs[c]) \in JobRecord
    BY <1>1, TailFits
<1> QED  BY <1>1, <1>2 DEF JobRecord

\* A request goes on to the rest of its jobs.
LEMMA Onward ==
    ASSUME Typed, NEW c \in Client, NEW js, JobsFit(js), NEW d, d \subseteq Incident \X Incident,
           NextJob(c, js, d)
    PROVE  ClientsFit'
<1>1. /\ PlacesFit /\ HoldingsFit /\ DOMAIN jobs = Client
      /\ \A b \in Client : JobsFit(jobs[b])
    BY ClientParts DEF Typed
<1>2. /\ jobs' = [jobs EXCEPT ![c] = js]
      /\ tries' = [tries EXCEPT ![c] = 1]
      /\ new' = [new EXCEPT ![c] = {}]
      /\ values' = [values EXCEPT ![c] = NoValues]
    BY DEF NextJob
<1>3. PICK e : /\ dirty' = [dirty EXCEPT ![c] = e]
               /\ e \subseteq Incident \X Incident
    <2>1. dirty' = [dirty EXCEPT ![c] =
                    IF js # << >> /\ Head(js).do = "add" /\ Head(js).of # NoIncident
                    THEN d \cup {<<Head(js).of, Head(js).to>>} ELSE d]
        BY DEF NextJob
    <2>2. js # << >> /\ Head(js).of # NoIncident =>
            Head(js).of \in Incident /\ Head(js).to \in Incident
        BY TailFits DEF JobRecord
    <2>3. CASE js # << >> /\ Head(js).do = "add" /\ Head(js).of # NoIncident
        <3>1. d \cup {<<Head(js).of, Head(js).to>>} \subseteq Incident \X Incident
            BY <2>2, <2>3
        <3> QED  BY <2>1, <2>3, <3>1
    <2>4. CASE ~(js # << >> /\ Head(js).do = "add" /\ Head(js).of # NoIncident)
        BY <2>1, <2>4
    <2> QED  BY <2>3, <2>4
<1>4. PICK p \in Places : /\ pc' = [pc EXCEPT ![c] = p] /\ p \notin {"read", "insert"}
                          /\ p \in {"link", "insert", "read", "update"} <=> js # << >>
    <2>1. pc' = [pc EXCEPT ![c] = IF js # << >> THEN "link"
                                  ELSE IF Merging(c) THEN "finish" ELSE "idle"]
        BY DEF NextJob
    <2>2. CASE js # << >>
        BY <2>1, <2>2 DEF Places
    <2>3. CASE js = << >> /\ Merging(c)
        BY <2>1, <2>3 DEF Places
    <2>4. CASE js = << >> /\ ~Merging(c)
        BY <2>1, <2>4 DEF Places
    <2> QED  BY <2>2, <2>3, <2>4
<1>5. DOMAIN jobs' = Client /\ jobs'[c] = js /\ \A b \in Client \ {c} : jobs'[b] = jobs[b]
    BY <1>1, <1>2
<1>6. pc' \in [Client -> Places] /\ pc'[c] = p /\ \A b \in Client \ {c} : pc'[b] = pc[b]
    BY <1>1, <1>4 DEF PlacesFit
<1>7. \A b \in Client \ {c} : new'[b] = new[b]
    BY <1>1, <1>2 DEF HoldingsFit
<1>8. PlacesFit'
    BY <1>1, <1>4, <1>5, <1>6, <1>7 DEF PlacesFit
<1>9. HoldingsFit'
    <2>1. tries' \in [Client -> 1..3] /\ new' \in [Client -> SUBSET Alert]
        BY <1>1, <1>2 DEF HoldingsFit
    <2>2. values' \in [Client -> ValueRecord]
        BY <1>1, <1>2, NoValuesFit DEF HoldingsFit
    <2>3. dirty' \in [Client -> SUBSET (Incident \X Incident)]
        BY <1>1, <1>3 DEF HoldingsFit
    <2> QED  BY <2>1, <2>2, <2>3 DEF HoldingsFit
<1>10. \A b \in Client : JobsFit(jobs'[b])
    BY <1>1, <1>5
<1>11. ClientsFit' <=> PlacesFit' /\ HoldingsFit' /\ DOMAIN jobs' = Client /\ \A b \in Client : JobsFit(jobs'[b])
    BY DEF ClientsFit, PlacesFit, HoldingsFit, Places
<1> QED  BY <1>5, <1>8, <1>9, <1>10, <1>11

\* A request moves to the next step of its first job.
LEMMA StepFits ==
    ASSUME Typed, NEW c \in Client, pc[c] \in {"link", "insert", "read", "update"},
           NEW p \in {"link", "insert", "read", "update"}, pc' = [pc EXCEPT ![c] = p],
           UNCHANGED jobs, tries' \in [Client -> 1..3],
           NEW n \in SUBSET Alert, new' = [new EXCEPT ![c] = n],
           p = "read" /\ Head(jobs[c]).do = "add" => n # {},
           p = "insert" => Head(jobs[c]).do = "add" /\ n # {} /\ n \subseteq Head(jobs[c]).alerts,
           NEW v \in ValueRecord, values' = [values EXCEPT ![c] = v],
           NEW d \in SUBSET (Incident \X Incident), dirty' = [dirty EXCEPT ![c] = d]
    PROVE  ClientsFit'
<1>1. /\ PlacesFit /\ HoldingsFit /\ DOMAIN jobs = Client
      /\ \A b \in Client : JobsFit(jobs[b])
    BY ClientParts DEF Typed
<1>2. pc' \in [Client -> Places] /\ pc'[c] = p /\ \A b \in Client \ {c} : pc'[b] = pc[b]
    BY <1>1 DEF PlacesFit, Places
<1>3. new'[c] = n /\ \A b \in Client \ {c} : new'[b] = new[b]
    BY <1>1 DEF HoldingsFit
<1>4. PlacesFit'
    BY <1>1, <1>2, <1>3 DEF PlacesFit
<1>5. HoldingsFit'
    <2>1. tries' \in [Client -> 1..3] /\ new' \in [Client -> SUBSET Alert]
        BY <1>1 DEF HoldingsFit
    <2>2. values' \in [Client -> ValueRecord]
        BY <1>1 DEF HoldingsFit
    <2>3. dirty' \in [Client -> SUBSET (Incident \X Incident)]
        BY <1>1 DEF HoldingsFit
    <2> QED  BY <2>1, <2>2, <2>3 DEF HoldingsFit
<1>6. ClientsFit' <=> PlacesFit' /\ HoldingsFit' /\ DOMAIN jobs' = Client /\ \A b \in Client : JobsFit(jobs'[b])
    BY DEF ClientsFit, PlacesFit, HoldingsFit, Places
<1> QED  BY <1>1, <1>4, <1>5, <1>6

\* A client without jobs goes elsewhere.
LEMMA PlaceFits ==
    ASSUME Typed, NEW c \in Client, pc[c] \notin {"link", "insert", "read", "update"},
           NEW p \in {"idle", "check", "finish"}, pc' = [pc EXCEPT ![c] = p],
           UNCHANGED <<jobs, tries, new, values>>,
           NEW d \in SUBSET (Incident \X Incident), dirty' = [dirty EXCEPT ![c] = d]
    PROVE  ClientsFit'
<1>1. /\ PlacesFit /\ HoldingsFit /\ DOMAIN jobs = Client
      /\ \A b \in Client : JobsFit(jobs[b])
    BY ClientParts DEF Typed
<1>2. pc' \in [Client -> Places] /\ pc'[c] = p /\ \A b \in Client \ {c} : pc'[b] = pc[b]
    BY <1>1 DEF PlacesFit, Places
<1>3. PlacesFit'
    BY <1>1, <1>2 DEF PlacesFit
<1>4. HoldingsFit'
    BY <1>1 DEF HoldingsFit
<1>5. ClientsFit' <=> PlacesFit' /\ HoldingsFit' /\ DOMAIN jobs' = Client /\ \A b \in Client : JobsFit(jobs'[b])
    BY DEF ClientsFit, PlacesFit, HoldingsFit, Places
<1> QED  BY <1>1, <1>3, <1>4, <1>5

-----------------------------------------------------------------------------
\* A client that is not at work on the links of an incident takes a step that
\* leaves the links, the jobs and the histories of moves alone.
Aside(c) ==
    \/ FinishMerge(c) \/ FinishRaises(c) \/ change_status(c) \/ update_severity(c)
    \/ delete_incident_by_id(c) \/ ResolveAlert(c) \/ check_incident_resolution(c)
Failing(c) == AddRetried(c) \/ AddRaises(c) \/ AddAborts(c) \/ RemoveRaises(c)

\* Every step is of one of these kinds.
LEMMA NextKinds ==
    Next => \/ \E c \in Client : Asks(c) \/ Job(c) \/ Aside(c) \/ Failing(c)
            \/ Refire
BY DEF Next, Asks, Aside, Failing

LEMMA InitTyped == Init => Typed
<1> SUFFICES ASSUME Init PROVE Typed
    OBVIOUS
<1>1. linked \in [Incident -> SUBSET Alert]
    BY DEF Init
<1>2. count \in [Incident -> 0..Cardinality(Alert)]
    <2>1. \A i \in Incident : Cardinality(linked[i]) \in 0..Cardinality(Alert)
        BY <1>1, CountFact
    <2>2. count = [i \in Incident |-> Cardinality(linked[i])]
        BY DEF Init
    <2> QED  BY <2>1, <2>2
<1>3. services \in [Incident -> SUBSET ServicesOf(Alert)]
    <2>1. services = [i \in Incident |-> ServicesOf(linked[i])]
        BY DEF Init
    <2>2. \A i \in Incident : ServicesOf(linked[i]) \subseteq ServicesOf(Alert)
        BY <1>1 DEF ServicesOf
    <2> QED  BY <2>1, <2>2
<1>4. severity \in [Incident -> Severities]
    <2>1. severity = [i \in Incident |-> IF linked[i] = {} THEN Low ELSE Worst(linked[i])]
        BY DEF Init
    <2>2. \A i \in Incident : linked[i] # {} => Worst(linked[i]) \in Severities
        BY <1>1, WorstFact
    <2>3. Low \in Severities
        BY DEF Low, Severities
    <2> QED  BY <2>1, <2>2, <2>3
<1>5. forced \in [Incident -> BOOLEAN]
    BY DEF Init
<1>6. status \in [Incident -> {"firing", "acknowledged", "resolved", "merged", "deleted"}]
    BY DEF Init
<1>7. merged \in [Incident -> Incident \cup {NoIncident}]
    BY DEF Init
<1>8. PlacesFit
    BY DEF Init, PlacesFit, Places
<1>9. HoldingsFit
    <2>1. values = [c \in Client |-> NoValues]
        BY DEF Init
    <2>2. values \in [Client -> ValueRecord]
        BY <2>1, NoValuesFit
    <2>3. tries \in [Client -> 1..3]
        BY DEF Init
    <2> QED  BY <2>2, <2>3 DEF Init, HoldingsFit
<1>10. DOMAIN jobs = Client /\ \A c \in Client : JobsFit(jobs[c])
    BY NothingFits DEF Init
<1> QED  BY <1>1, <1>2, <1>3, <1>4, <1>5, <1>6, <1>7, <1>8, <1>9, <1>10, ClientParts DEF Typed, RowsFit

\* A commit of the marks of a merge.
LEMMA MarksFit ==
    ASSUME Typed, NEW c \in Client, CommitMarks(c)
    PROVE  /\ status' \in [Incident -> {"firing", "acknowledged", "resolved", "merged", "deleted"}]
           /\ merged' \in [Incident -> Incident \cup {NoIncident}]
           /\ dirty' = [dirty EXCEPT ![c] = {}]
<1> DEFINE marked == {p[1] : p \in dirty[c]}
           dest(i) == CHOOSE p \in dirty[c] : p[1] = i
<1>1. dirty[c] \subseteq Incident \X Incident
    BY DEF Typed, ClientsFit
<1>2. \A i \in marked : dest(i) \in dirty[c]
    OBVIOUS
<1>3. \A i \in marked : dest(i)[2] \in Incident
    BY <1>1, <1>2
<1>4. /\ status' = [i \in Incident |-> IF i \in marked THEN "merged" ELSE status[i]]
      /\ merged' = [i \in Incident |-> IF i \in marked THEN dest(i)[2] ELSE merged[i]]
      /\ dirty' = [dirty EXCEPT ![c] = {}]
    BY DEF CommitMarks
<1> HIDE DEF marked, dest
<1>5. status' \in [Incident -> {"firing", "acknowledged", "resolved", "merged", "deleted"}]
    BY <1>4 DEF Typed, RowsFit
<1>6. merged' \in [Incident -> Incident \cup {NoIncident}]
    BY <1>3, <1>4 DEF Typed, RowsFit
<1> QED  BY <1>4, <1>5, <1>6

LEMMA AsksTyped ==
    ASSUME Typed, NEW c \in Client, Asks(c)
    PROVE  Typed'
<1>1. PICK js : Starts(js) /\ Start(c, js)
    BY AsksStart
<1>2. /\ pc[c] = "idle" /\ jobs' = [jobs EXCEPT ![c] = js]
      /\ tries' = [tries EXCEPT ![c] = 1] /\ pc' = [pc EXCEPT ![c] = "link"]
      /\ UNCHANGED <<incidentVars, new, values, dirty>>
    BY <1>1 DEF Start, MayStart
<1>3. /\ PlacesFit /\ HoldingsFit /\ DOMAIN jobs = Client
      /\ \A b \in Client : JobsFit(jobs[b])
    BY ClientParts DEF Typed
<1>4. js # << >> /\ JobsFit(js)
    BY <1>1 DEF Starts
<1>5. pc' \in [Client -> Places] /\ pc'[c] = "link" /\ \A b \in Client \ {c} : pc'[b] = pc[b]
    BY <1>2, <1>3 DEF PlacesFit, Places
<1>6. DOMAIN jobs' = Client /\ jobs'[c] = js /\ \A b \in Client \ {c} : jobs'[b] = jobs[b]
    BY <1>2, <1>3
<1>7. PlacesFit'
    BY <1>2, <1>3, <1>4, <1>5, <1>6 DEF PlacesFit
<1>8. HoldingsFit'
    BY <1>2, <1>3 DEF HoldingsFit
<1>9. \A b \in Client : JobsFit(jobs'[b])
    BY <1>3, <1>4, <1>6
<1>10. ClientsFit' <=> PlacesFit' /\ HoldingsFit' /\ DOMAIN jobs' = Client /\ \A b \in Client : JobsFit(jobs'[b])
    BY DEF ClientsFit, PlacesFit, HoldingsFit, Places
<1>11. RowsFit'
    BY <1>2 DEF Typed, RowsFit, incidentVars
<1> QED  BY <1>6, <1>7, <1>8, <1>9, <1>10, <1>11 DEF Typed

\* What a client keeps of its state when it goes to another step.
LEMMA Unchanging ==
    ASSUME Typed, NEW c \in Client
    PROVE  /\ new[c] \in SUBSET Alert /\ new = [new EXCEPT ![c] = new[c]]
           /\ values[c] \in ValueRecord /\ values = [values EXCEPT ![c] = values[c]]
           /\ dirty[c] \in SUBSET (Incident \X Incident) /\ dirty = [dirty EXCEPT ![c] = dirty[c]]
<1>1. HoldingsFit
    BY ClientParts DEF Typed
<1>2. new[c] \in SUBSET Alert /\ new = [new EXCEPT ![c] = new[c]]
    BY <1>1 DEF HoldingsFit
<1>3. values[c] \in ValueRecord /\ values = [values EXCEPT ![c] = values[c]]
    BY <1>1 DEF HoldingsFit
<1>4. dirty[c] \in SUBSET (Incident \X Incident) /\ dirty = [dirty EXCEPT ![c] = dirty[c]]
    BY <1>1 DEF HoldingsFit
<1> QED  BY <1>2, <1>3, <1>4

LEMMA RowsOfOne ==
    ASSUME Typed, NEW i \in Incident
    PROVE  /\ linked[i] \in SUBSET Alert /\ count[i] \in 0..Cardinality(Alert)
           /\ services[i] \in SUBSET ServicesOf(Alert) /\ severity[i] \in Severities
           /\ forced[i] \in BOOLEAN
BY DEF Typed, RowsFit

LEMMA ServicesWithin ==
    ASSUME NEW S, S \subseteq Alert
    PROVE  ServicesOf(S) \subseteq ServicesOf(Alert)
BY DEF ServicesOf

LEMMA TriesFit == ASSUME Typed PROVE tries \in [Client -> 1..3]
BY DEF Typed, ClientsFit

LEMMA AddSelectTyped ==
    ASSUME Typed, NEW c \in Client, AddSelect(c)
    PROVE  Typed'
<1> DEFINE j == Head(jobs[c])
           S == j.alerts \ linked[j.to]
<1>1. pc[c] = "link" /\ j.do = "add" /\ UNCHANGED incidentVars
    BY DEF AddSelect
<1>2. /\ jobs[c] # << >> /\ JobsFit(jobs[c]) /\ j.alerts \in SUBSET Alert
    BY <1>1, HeadFits
<1>3. RowsFit'
    BY <1>1 DEF Typed, RowsFit, incidentVars
<1>4. CASE S = {}
    <2>1. NextJob(c, Tail(jobs[c]), dirty[c])
        BY <1>4 DEF AddSelect
    <2>2. JobsFit(Tail(jobs[c])) /\ dirty[c] \subseteq Incident \X Incident
        BY <1>2, TailFits, Unchanging
    <2>3. ClientsFit'
        BY <2>1, <2>2, Onward
    <2> QED  BY <1>3, <2>3 DEF Typed
<1>5. CASE S # {}
    <2>1. /\ new' = [new EXCEPT ![c] = S] /\ pc' = [pc EXCEPT ![c] = "insert"]
          /\ UNCHANGED <<jobs, tries, values, dirty>>
        BY <1>5 DEF AddSelect
    <2>2. S \in SUBSET Alert /\ S \subseteq j.alerts
        BY <1>2
    <2>3. /\ values' = [values EXCEPT ![c] = values[c]] /\ values[c] \in ValueRecord
          /\ dirty' = [dirty EXCEPT ![c] = dirty[c]] /\ dirty[c] \in SUBSET (Incident \X Incident)
          /\ tries' \in [Client -> 1..3]
        BY <2>1, Unchanging, TriesFit
    <2>4. ClientsFit'
        <3> HIDE DEF S
        <3> QED  BY <1>1, <1>5, <2>1, <2>2, <2>3, StepFits
    <2> QED  BY <1>3, <2>4 DEF Typed
<1> QED  BY <1>4, <1>5

\* An addition about to insert has chosen alerts of its job.
LEMMA InsertFits ==
    ASSUME Typed, NEW c \in Client, pc[c] = "insert"
    PROVE  /\ Head(jobs[c]).do = "add" /\ new[c] # {} /\ new[c] \subseteq Head(jobs[c]).alerts
           /\ new[c] \in SUBSET Alert
BY Unchanging DEF Typed, ClientsFit

LEMMA AddLinkTyped ==
    ASSUME Typed, NEW c \in Client, AddLink(c)
    PROVE  Typed'
<1>1. PICK i, S : i = Head(jobs[c]).to /\ S = new[c]
    OBVIOUS
<1>2. /\ pc[c] = "insert" /\ linked' = [linked EXCEPT ![i] = @ \cup S]
      /\ CommitMarks(c) /\ pc' = [pc EXCEPT ![c] = "read"]
      /\ UNCHANGED <<count, services, severity, forced, jobs, tries, new, values>>
    BY <1>1 DEF AddLink
<1>3. i \in Incident /\ S # {} /\ S \in SUBSET Alert
    BY <1>1, <1>2, HeadFits, InsertFits
<1>4. /\ status' \in [Incident -> {"firing", "acknowledged", "resolved", "merged", "deleted"}]
      /\ merged' \in [Incident -> Incident \cup {NoIncident}]
      /\ dirty' = [dirty EXCEPT ![c] = {}] /\ {} \in SUBSET (Incident \X Incident)
    BY <1>2, MarksFit
<1>5. /\ values' = [values EXCEPT ![c] = values[c]] /\ values[c] \in ValueRecord
      /\ new' = [new EXCEPT ![c] = new[c]] /\ tries' \in [Client -> 1..3]
    BY <1>2, Unchanging, TriesFit
<1>6. ClientsFit'
    BY <1>1, <1>2, <1>3, <1>4, <1>5, StepFits
<1>7. linked' \in [Incident -> SUBSET Alert]
    BY <1>2, <1>3 DEF Typed, RowsFit
<1>8. RowsFit'
    BY <1>2, <1>4, <1>7 DEF Typed, RowsFit
<1> QED  BY <1>6, <1>8 DEF Typed

\* A request ends with an error, whatever jobs it had left.
LEMMA EndFits ==
    ASSUME Typed, NEW c \in Client, jobs' = [jobs EXCEPT ![c] = << >>],
           tries' = [tries EXCEPT ![c] = 1], new' = [new EXCEPT ![c] = {}],
           values' \in [Client -> ValueRecord],
           dirty' = [dirty EXCEPT ![c] = {}], pc' = [pc EXCEPT ![c] = "idle"]
    PROVE  ClientsFit'
<1>1. /\ PlacesFit /\ HoldingsFit /\ DOMAIN jobs = Client
      /\ \A b \in Client : JobsFit(jobs[b])
    BY ClientParts DEF Typed
<1>2. pc' \in [Client -> Places] /\ pc'[c] = "idle" /\ \A b \in Client \ {c} : pc'[b] = pc[b]
    BY <1>1 DEF PlacesFit, Places
<1>3. \A b \in Client \ {c} : new'[b] = new[b]
    BY <1>1 DEF HoldingsFit
<1>4. DOMAIN jobs' = Client /\ jobs'[c] = << >> /\ \A b \in Client \ {c} : jobs'[b] = jobs[b]
    BY <1>1
<1>5. PlacesFit'
    BY <1>1, <1>2, <1>3, <1>4 DEF PlacesFit
<1>6. HoldingsFit'
    <2>1. tries' \in [Client -> 1..3] /\ new' \in [Client -> SUBSET Alert]
        BY <1>1 DEF HoldingsFit
    <2>2. dirty' \in [Client -> SUBSET (Incident \X Incident)]
        BY <1>1 DEF HoldingsFit
    <2> QED  BY <2>1, <2>2 DEF HoldingsFit
<1>7. \A b \in Client : JobsFit(jobs'[b])
    BY <1>1, <1>4, NothingFits
<1>8. ClientsFit' <=> PlacesFit' /\ HoldingsFit' /\ DOMAIN jobs' = Client /\ \A b \in Client : JobsFit(jobs'[b])
    BY DEF ClientsFit, PlacesFit, HoldingsFit, Places
<1> QED  BY <1>4, <1>5, <1>6, <1>7, <1>8

LEMMA AddCollidesTyped ==
    ASSUME Typed, NEW c \in Client, AddCollides(c)
    PROVE  Typed'
<1>1. /\ pc[c] = "insert" /\ UNCHANGED <<incidentVars, values>>
      /\ dirty' = [dirty EXCEPT ![c] = {}] /\ new' = [new EXCEPT ![c] = {}]
    BY DEF AddCollides
<1>2. RowsFit'
    BY <1>1 DEF Typed, RowsFit, incidentVars
<1>3. /\ values' = [values EXCEPT ![c] = values[c]] /\ values[c] \in ValueRecord
      /\ values' \in [Client -> ValueRecord] /\ tries \in [Client -> 1..3]
      /\ {} \in SUBSET (Incident \X Incident) /\ {} \in SUBSET Alert
    BY <1>1, Unchanging, TriesFit DEF Typed, ClientsFit
<1>4. CASE tries[c] < 3
    <2>1. /\ tries' = [tries EXCEPT ![c] = @ + 1] /\ pc' = [pc EXCEPT ![c] = "link"] /\ UNCHANGED jobs
        BY <1>4 DEF AddCollides
    <2>2. tries' \in [Client -> 1..3]
        BY <1>3, <1>4, <2>1
    <2>3. ClientsFit'
        BY <1>1, <1>3, <2>1, <2>2, StepFits
    <2> QED  BY <1>2, <2>3 DEF Typed
<1>5. CASE ~(tries[c] < 3)
    <2>1. /\ tries' = [tries EXCEPT ![c] = 1] /\ pc' = [pc EXCEPT ![c] = "idle"]
          /\ jobs' = [jobs EXCEPT ![c] = << >>]
        BY <1>5 DEF AddCollides
    <2>2. ClientsFit'
        BY <1>1, <1>3, <2>1, EndFits
    <2> QED  BY <1>2, <2>2 DEF Typed
<1> QED  BY <1>4, <1>5

\* A step at which a request only computes values.
LEMMA ReadTyped ==
    ASSUME Typed, NEW c \in Client, pc[c] = "read", NEW v \in ValueRecord,
           values' = [values EXCEPT ![c] = v], pc' = [pc EXCEPT ![c] = "update"],
           UNCHANGED <<incidentVars, jobs, tries, new, dirty>>
    PROVE  Typed'
<1>t. tries' \in [Client -> 1..3]
    BY TriesFit
<1>1. /\ new' = [new EXCEPT ![c] = new[c]] /\ new[c] \in SUBSET Alert
      /\ dirty' = [dirty EXCEPT ![c] = dirty[c]] /\ dirty[c] \in SUBSET (Incident \X Incident)
    BY Unchanging
<1>2. ClientsFit'
    BY <1>t, <1>1, StepFits
<1>3. RowsFit'
    BY DEF Typed, RowsFit, incidentVars
<1> QED  BY <1>2, <1>3 DEF Typed

\* The severity that an addition computes.
Raised(i, S) ==
    IF forced[i] THEN severity[i]
    ELSE IF count[i] # 0 THEN Max({severity[i], Worst(S)}) ELSE Worst(S)

LEMMA AddReadValue ==
    ASSUME Typed, NEW c \in Client, AddRead(c)
    PROVE  LET i == Head(jobs[c]).to IN
           /\ pc[c] = "read" /\ Head(jobs[c]).do = "add" /\ i \in Incident /\ new[c] # {}
           /\ values' = [values EXCEPT ![c] = [services |-> services[i] \cup ServicesOf(new[c]),
                                               severity |-> Raised(i, new[c])]]
           /\ services[i] \cup ServicesOf(new[c]) \in SUBSET ServicesOf(Alert)
           /\ Raised(i, new[c]) \in Severities
<1> DEFINE i == Head(jobs[c]).to
<1>1. pc[c] = "read" /\ Head(jobs[c]).do = "add"
    BY DEF AddRead
<1>2. i \in Incident /\ new[c] # {} /\ new[c] \in SUBSET Alert
    <2>1. pc[c] = "read" /\ Head(jobs[c]).do = "add" => new[c] # {}
        BY DEF Typed, ClientsFit
    <2> QED  BY <1>1, <2>1, HeadFits, Unchanging
<1>3. values' = [values EXCEPT ![c] = [services |-> services[i] \cup ServicesOf(new[c]),
                                       severity |-> Raised(i, new[c])]]
    BY DEF AddRead, Raised
<1>4. services[i] \in SUBSET ServicesOf(Alert) /\ severity[i] \in Severities
    BY <1>2, RowsOfOne
<1>5. services[i] \cup ServicesOf(new[c]) \in SUBSET ServicesOf(Alert)
    BY <1>2, <1>4, ServicesWithin
<1>6. Raised(i, new[c]) \in Severities
    <2>1. Worst(new[c]) \in Severities
        BY <1>2, WorstFact
    <2>2. Max({severity[i], Worst(new[c])}) \in Severities
        <3>1. {severity[i], Worst(new[c])} \subseteq Severities /\ {severity[i], Worst(new[c])} # {}
            BY <1>4, <2>1
        <3> QED  BY <3>1, MaxFact
    <2> HIDE DEF i
    <2> QED  BY <1>4, <2>1, <2>2 DEF Raised
<1> QED  BY <1>1, <1>2, <1>3, <1>5, <1>6

LEMMA AddReadTyped ==
    ASSUME Typed, NEW c \in Client, AddRead(c)
    PROVE  Typed'
<1>1. PICK i : i = Head(jobs[c]).to
    OBVIOUS
<1>2. PICK v : v = [services |-> services[i] \cup ServicesOf(new[c]), severity |-> Raised(i, new[c])]
    OBVIOUS
<1>3. /\ pc[c] = "read" /\ values' = [values EXCEPT ![c] = v]
      /\ services[i] \cup ServicesOf(new[c]) \in SUBSET ServicesOf(Alert)
      /\ Raised(i, new[c]) \in Severities
    BY <1>1, <1>2, AddReadValue
<1>4. v \in ValueRecord
    BY <1>2, <1>3 DEF ValueRecord
<1>5. pc' = [pc EXCEPT ![c] = "update"] /\ UNCHANGED <<incidentVars, jobs, tries, new, dirty>>
    BY DEF AddRead
<1> QED  BY <1>3, <1>4, <1>5, ReadTyped

\* The severity that a removal computes.
Lowered(i) ==
    IF forced[i] THEN severity[i] ELSE IF linked[i] # {} THEN Worst(linked[i]) ELSE Low

LEMMA RemoveReadValue ==
    ASSUME Typed, NEW c \in Client, RemoveRead(c)
    PROVE  LET i == Head(jobs[c]).to
               gone == ServicesOf(Head(jobs[c]).alerts)
               existed == gone \cap ServicesOf(linked[i])
           IN  /\ pc[c] = "read" /\ Head(jobs[c]).do = "remove" /\ i \in Incident
               /\ \E wanted \in SetToSeqs(gone), rows \in SetToSeqs(existed) :
                     values' = [values EXCEPT ![c] = [services |-> services[i] \ NotFound(wanted, rows),
                                                      severity |-> Lowered(i)]]
               /\ Lowered(i) \in Severities
<1> DEFINE i == Head(jobs[c]).to
<1>1. pc[c] = "read" /\ Head(jobs[c]).do = "remove"
    BY DEF RemoveRead
<1>2. i \in Incident
    BY <1>1, HeadFits
<1>3. Lowered(i) \in Severities
    <2>1. severity[i] \in Severities /\ linked[i] \in SUBSET Alert
        BY <1>2, RowsOfOne
    <2>2. linked[i] # {} => Worst(linked[i]) \in Severities
        BY <2>1, WorstFact
    <2>3. Low \in Severities
        BY DEF Low, Severities
    <2> HIDE DEF i
    <2> QED  BY <2>1, <2>2, <2>3 DEF Lowered
<1> QED  BY <1>1, <1>2, <1>3 DEF RemoveRead, Lowered

LEMMA RemoveReadTyped ==
    ASSUME Typed, NEW c \in Client, RemoveRead(c)
    PROVE  Typed'
<1>1. PICK i : i = Head(jobs[c]).to
    OBVIOUS
<1>2. PICK wanted, rows :
        values' = [values EXCEPT ![c] = [services |-> services[i] \ NotFound(wanted, rows),
                                         severity |-> Lowered(i)]]
    <2> DEFINE gone == ServicesOf(Head(jobs[c]).alerts)
    <2>1. \E w \in SetToSeqs(gone), r \in SetToSeqs(gone \cap ServicesOf(linked[Head(jobs[c]).to])) :
            values' = [values EXCEPT ![c] = [services |-> services[Head(jobs[c]).to] \ NotFound(w, r),
                                             severity |-> Lowered(Head(jobs[c]).to)]]
        BY RemoveReadValue
    <2> QED  BY <1>1, <2>1
<1>3. pc[c] = "read" /\ i \in Incident /\ Lowered(i) \in Severities
    BY <1>1, RemoveReadValue
<1>4. PICK v : v = [services |-> services[i] \ NotFound(wanted, rows), severity |-> Lowered(i)]
    OBVIOUS
<1>5. services[i] \ NotFound(wanted, rows) \in SUBSET ServicesOf(Alert)
    BY <1>3, RowsOfOne
<1>6. v \in ValueRecord
    BY <1>3, <1>4, <1>5 DEF ValueRecord
<1>7. pc' = [pc EXCEPT ![c] = "update"] /\ UNCHANGED <<incidentVars, jobs, tries, new, dirty>>
    BY DEF RemoveRead
<1> QED  BY <1>2, <1>3, <1>4, <1>6, <1>7, ReadTyped

LEMMA RemoveLinkTyped ==
    ASSUME Typed, NEW c \in Client, RemoveLink(c)
    PROVE  Typed'
<1>1. PICK j : j = Head(jobs[c])
    OBVIOUS
<1>2. /\ pc[c] = "link" /\ j.do = "remove"
      /\ linked' = [linked EXCEPT ![j.to] = @ \ j.alerts] /\ pc' = [pc EXCEPT ![c] = "read"]
      /\ UNCHANGED <<count, services, severity, forced, status, merged, jobs, tries, new, values, dirty>>
    BY <1>1 DEF RemoveLink
<1>3. j.to \in Incident
    BY <1>1, <1>2, HeadFits
<1>4. /\ new' = [new EXCEPT ![c] = new[c]] /\ new[c] \in SUBSET Alert
      /\ values' = [values EXCEPT ![c] = values[c]] /\ values[c] \in ValueRecord
      /\ dirty' = [dirty EXCEPT ![c] = dirty[c]] /\ dirty[c] \in SUBSET (Incident \X Incident)
    BY <1>2, Unchanging
<1>5. Head(jobs[c]).do # "add" /\ tries' \in [Client -> 1..3]
    BY <1>1, <1>2, TriesFit
<1>6. ClientsFit'
    BY <1>2, <1>4, <1>5, StepFits
<1>7. linked' \in [Incident -> SUBSET Alert]
    BY <1>2, <1>3 DEF Typed, RowsFit
<1>8. RowsFit'
    BY <1>2, <1>7 DEF Typed, RowsFit
<1> QED  BY <1>6, <1>8 DEF Typed

LEMMA UpdateTyped ==
    ASSUME Typed, NEW c \in Client, Update(c)
    PROVE  Typed'
<1>1. PICK i : i = Head(jobs[c]).to
    OBVIOUS
<1>2. /\ pc[c] = "update"
      /\ count' = [count EXCEPT ![i] = Cardinality(linked[i])]
      /\ services' = [services EXCEPT ![i] = values[c].services]
      /\ severity' = [severity EXCEPT ![i] = values[c].severity]
      /\ NextJob(c, Tail(jobs[c]), dirty[c])
      /\ UNCHANGED <<linked, forced, status, merged>>
    BY <1>1 DEF Update
<1>3. i \in Incident /\ jobs[c] # << >> /\ JobsFit(jobs[c])
    BY <1>1, <1>2, HeadFits
<1>4. JobsFit(Tail(jobs[c])) /\ dirty[c] \subseteq Incident \X Incident
    BY <1>3, TailFits, Unchanging
<1>5. ClientsFit'
    BY <1>2, <1>4, Onward
<1>6. values[c].services \in SUBSET ServicesOf(Alert) /\ values[c].severity \in Severities
    BY Unchanging DEF ValueRecord
<1>7. Cardinality(linked[i]) \in 0..Cardinality(Alert)
    BY <1>3, RowsOfOne, CountFact
<1>8. count' \in [Incident -> 0..Cardinality(Alert)]
    BY <1>2, <1>7 DEF Typed, RowsFit
<1>9. services' \in [Incident -> SUBSET ServicesOf(Alert)]
    BY <1>2, <1>6 DEF Typed, RowsFit
<1>10. severity' \in [Incident -> Severities]
    BY <1>2, <1>6 DEF Typed, RowsFit
<1>11. RowsFit'
    BY <1>2, <1>8, <1>9, <1>10 DEF Typed, RowsFit
<1> QED  BY <1>5, <1>11 DEF Typed

LEMMA JobTyped ==
    ASSUME Typed, NEW c \in Client, Job(c)
    PROVE  Typed'
BY AddSelectTyped, AddLinkTyped, AddCollidesTyped, AddReadTyped, RemoveLinkTyped, RemoveReadTyped, UpdateTyped DEF Job

\* An attempt that failed is made again, or the request ends or goes on without it.
LEMMA FailingTyped ==
    ASSUME Typed, NEW c \in Client, Failing(c)
    PROVE  Typed'
<1>1. /\ pc[c] \in {"link", "insert", "read", "update"} /\ UNCHANGED incidentVars
    BY DEF Failing, AddRetried, AddRaises, AddAborts, RemoveRaises, Fault, Retried
<1>2. RowsFit'
    BY <1>1 DEF Typed, RowsFit, incidentVars
<1>3. jobs[c] # << >> /\ JobsFit(jobs[c])
    BY <1>1, HeadFits
<1>4. JobsFit(Tail(jobs[c])) /\ JobsFit(<< >>)
    BY <1>3, TailFits, NothingFits
<1>5. dirty[c] \subseteq Incident \X Incident
    BY Unchanging
<1>6. CASE AddRetried(c)
    <2>1. /\ tries[c] < 3 /\ tries' = [tries EXCEPT ![c] = @ + 1] /\ pc' = [pc EXCEPT ![c] = "link"]
          /\ new' = [new EXCEPT ![c] = {}] /\ values' = [values EXCEPT ![c] = NoValues]
          /\ dirty' \in {dirty, [dirty EXCEPT ![c] = {}]} /\ UNCHANGED jobs
        BY <1>6 DEF AddRetried, Retried
    <2>2. /\ PlacesFit /\ HoldingsFit /\ DOMAIN jobs = Client
          /\ \A b \in Client : JobsFit(jobs[b])
        BY ClientParts DEF Typed
    <2>3. pc' \in [Client -> Places] /\ pc'[c] = "link" /\ \A b \in Client \ {c} : pc'[b] = pc[b]
        BY <2>1, <2>2 DEF PlacesFit, Places
    <2>4. \A b \in Client \ {c} : new'[b] = new[b]
        BY <2>1, <2>2 DEF HoldingsFit
    <2>5. PlacesFit'
        BY <1>1, <2>1, <2>2, <2>3, <2>4 DEF PlacesFit
    <2>6. tries' \in [Client -> 1..3]
        BY <2>1, <2>2 DEF HoldingsFit
    <2>7. new' \in [Client -> SUBSET Alert] /\ values' \in [Client -> ValueRecord]
        BY <2>1, <2>2, NoValuesFit DEF HoldingsFit
    <2>8. dirty' \in [Client -> SUBSET (Incident \X Incident)]
        BY <2>1, <2>2 DEF HoldingsFit
    <2>9. HoldingsFit'
        BY <2>6, <2>7, <2>8 DEF HoldingsFit
    <2>10. ClientsFit' <=> PlacesFit' /\ HoldingsFit' /\ DOMAIN jobs' = Client /\ \A b \in Client : JobsFit(jobs'[b])
        BY DEF ClientsFit, PlacesFit, HoldingsFit, Places
    <2> QED  BY <1>2, <2>1, <2>2, <2>5, <2>9, <2>10 DEF Typed
<1>7. CASE AddRaises(c)
    <2>1. PICK d \in {dirty[c], {}} : NextJob(c, IF Merging(c) THEN Tail(jobs[c]) ELSE << >>, d)
        BY <1>7 DEF AddRaises
    <2>2. PICK js : js = IF Merging(c) THEN Tail(jobs[c]) ELSE << >>
        OBVIOUS
    <2>3. JobsFit(js) /\ d \subseteq Incident \X Incident /\ NextJob(c, js, d)
        BY <1>4, <1>5, <2>1, <2>2
    <2> QED  BY <1>2, <2>3, Onward DEF Typed
<1>8. CASE AddAborts(c)
    <2>1. /\ jobs' = [jobs EXCEPT ![c] = << >>] /\ tries' = [tries EXCEPT ![c] = 1]
          /\ new' = [new EXCEPT ![c] = {}] /\ values' = [values EXCEPT ![c] = NoValues]
          /\ dirty' = [dirty EXCEPT ![c] = {}] /\ pc' = [pc EXCEPT ![c] = "idle"]
        BY <1>8 DEF AddAborts
    <2>2. /\ PlacesFit /\ HoldingsFit /\ DOMAIN jobs = Client
          /\ \A b \in Client : JobsFit(jobs[b])
        BY ClientParts DEF Typed
    <2>3. pc' \in [Client -> Places] /\ pc'[c] = "idle" /\ \A b \in Client \ {c} : pc'[b] = pc[b]
        BY <2>1, <2>2 DEF PlacesFit, Places
    <2>4. \A b \in Client \ {c} : new'[b] = new[b]
        BY <2>1, <2>2 DEF HoldingsFit
    <2>5. DOMAIN jobs' = Client /\ jobs'[c] = << >> /\ \A b \in Client \ {c} : jobs'[b] = jobs[b]
        BY <2>1, <2>2
    <2>6. PlacesFit'
        BY <2>2, <2>3, <2>4, <2>5 DEF PlacesFit
    <2>7. HoldingsFit'
        <3>1. tries' \in [Client -> 1..3]
            BY <2>1, <2>2 DEF HoldingsFit
        <3>2. new' \in [Client -> SUBSET Alert] /\ values' \in [Client -> ValueRecord]
            BY <2>1, <2>2, NoValuesFit DEF HoldingsFit
        <3>3. dirty' \in [Client -> SUBSET (Incident \X Incident)]
            BY <2>1, <2>2 DEF HoldingsFit
        <3> QED  BY <3>1, <3>2, <3>3 DEF HoldingsFit
    <2>8. \A b \in Client : JobsFit(jobs'[b])
        BY <1>4, <2>2, <2>5
    <2>9. ClientsFit' <=> PlacesFit' /\ HoldingsFit' /\ DOMAIN jobs' = Client /\ \A b \in Client : JobsFit(jobs'[b])
        BY DEF ClientsFit, PlacesFit, HoldingsFit, Places
    <2> QED  BY <1>2, <2>5, <2>6, <2>7, <2>8, <2>9 DEF Typed
<1>9. CASE RemoveRaises(c)
    <2>1. PICK js : js = IF Merging(c) THEN Tail(jobs[c]) ELSE << >>
        OBVIOUS
    <2>2. JobsFit(js) /\ NextJob(c, js, dirty[c])
        BY <1>4, <1>9, <2>1 DEF RemoveRaises
    <2> QED  BY <1>2, <1>5, <2>2, Onward DEF Typed
<1> QED  BY <1>6, <1>7, <1>8, <1>9 DEF Failing

\* The steps that leave jobs and links alone.
LEMMA AsideTyped ==
    ASSUME Typed, NEW c \in Client, Aside(c)
    PROVE  Typed'
<1>1. dirty[c] \in SUBSET (Incident \X Incident) /\ dirty = [dirty EXCEPT ![c] = dirty[c]]
    BY Unchanging
<1>2. CASE FinishMerge(c)
    <2>1. /\ pc[c] = "finish" /\ CommitMarks(c) /\ pc' = [pc EXCEPT ![c] = "idle"]
          /\ UNCHANGED <<linked, count, services, severity, forced, jobs, tries, new, values>>
        BY <1>2 DEF FinishMerge
    <2>2. /\ status' \in [Incident -> {"firing", "acknowledged", "resolved", "merged", "deleted"}]
          /\ merged' \in [Incident -> Incident \cup {NoIncident}]
          /\ dirty' = [dirty EXCEPT ![c] = {}] /\ {} \in SUBSET (Incident \X Incident)
        BY <2>1, MarksFit
    <2>3. ClientsFit'
        BY <2>1, <2>2, PlaceFits
    <2>4. RowsFit'
        BY <2>1, <2>2 DEF Typed, RowsFit
    <2> QED  BY <2>3, <2>4 DEF Typed
<1>3. CASE FinishRaises(c)
    <2>1. /\ pc[c] = "finish" /\ dirty' = [dirty EXCEPT ![c] = {}] /\ pc' = [pc EXCEPT ![c] = "idle"]
          /\ {} \in SUBSET (Incident \X Incident)
          /\ UNCHANGED <<incidentVars, jobs, tries, new, values>>
        BY <1>3 DEF FinishRaises
    <2>2. ClientsFit'
        BY <2>1, PlaceFits
    <2>3. RowsFit'
        BY <2>1 DEF Typed, RowsFit, incidentVars
    <2> QED  BY <2>2, <2>3 DEF Typed
<1>4. ASSUME UNCHANGED <<pc, jobs, tries, new, values, dirty>>
      PROVE  ClientsFit'
    BY <1>4 DEF Typed, ClientsFit
<1>5. CASE change_status(c)
    <2>1. /\ UNCHANGED <<pc, jobs, tries, new, values, dirty>>
          /\ UNCHANGED <<linked, count, services, severity, forced, merged>>
          /\ \E i \in Incident, s \in {"firing", "acknowledged", "resolved"} :
                status' = [status EXCEPT ![i] = s]
        BY <1>5 DEF change_status, JobIdle, ClientIdle
    <2>2. status' \in [Incident -> {"firing", "acknowledged", "resolved", "merged", "deleted"}]
        BY <2>1 DEF Typed, RowsFit
    <2>3. RowsFit'
        BY <2>1, <2>2 DEF Typed, RowsFit
    <2> QED  BY <1>4, <2>1, <2>3 DEF Typed
<1>6. CASE update_severity(c)
    <2>1. PICK i \in Incident, f \in Alert :
            severity' = [severity EXCEPT ![i] = Severity[f]] /\ forced' = [forced EXCEPT ![i] = TRUE]
        BY <1>6 DEF update_severity
    <2>2. /\ UNCHANGED <<pc, jobs, tries, new, values, dirty>>
          /\ UNCHANGED <<linked, count, services, status, merged>>
        BY <1>6 DEF update_severity, JobIdle, ClientIdle
    <2>3. Severity[f] \in Severities
        BY IncidentsAssumption
    <2>4. severity' \in [Incident -> Severities]
        BY <2>1, <2>3 DEF Typed, RowsFit
    <2>5. forced' \in [Incident -> BOOLEAN]
        BY <2>1 DEF Typed, RowsFit
    <2>6. RowsFit'
        BY <2>2, <2>4, <2>5 DEF Typed, RowsFit
    <2> QED  BY <1>4, <2>2, <2>6 DEF Typed
<1>7. CASE delete_incident_by_id(c)
    <2>1. /\ UNCHANGED <<pc, jobs, tries, new, values, dirty>>
          /\ UNCHANGED <<linked, count, services, severity, forced, merged>>
          /\ \E i \in Incident : status' = [status EXCEPT ![i] = "deleted"]
        BY <1>7 DEF delete_incident_by_id, JobIdle, ClientIdle
    <2>2. status' \in [Incident -> {"firing", "acknowledged", "resolved", "merged", "deleted"}]
        BY <2>1 DEF Typed, RowsFit
    <2>3. RowsFit'
        BY <2>1, <2>2 DEF Typed, RowsFit
    <2> QED  BY <1>4, <2>1, <2>3 DEF Typed
<1>8. CASE ResolveAlert(c)
    <2>1. PICK p \in {"idle", "check"} : pc' = [pc EXCEPT ![c] = p]
        BY <1>8 DEF ResolveAlert
    <2>2. /\ pc[c] = "idle"
          /\ UNCHANGED <<incidentVars, jobs, tries, new, values, dirty>>
        BY <1>8 DEF ResolveAlert, Request, MayStart
    <2>3. dirty' = [dirty EXCEPT ![c] = dirty[c]]
        BY <1>1, <2>2
    <2>4. ClientsFit'
        BY <1>1, <2>1, <2>2, <2>3, PlaceFits
    <2>5. RowsFit'
        BY <2>2 DEF Typed, RowsFit, incidentVars
    <2> QED  BY <2>4, <2>5 DEF Typed
<1>9. CASE check_incident_resolution(c)
    <2>1. PICK i \in check[c] :
            /\ status' = IF is_all_alerts_resolved(i) THEN [status EXCEPT ![i] = "resolved"] ELSE status
            /\ pc' = [pc EXCEPT ![c] = IF check[c] = {i} THEN "idle" ELSE "check"]
        BY <1>9 DEF check_incident_resolution
    <2>2. PICK p \in {"idle", "check"} : pc' = [pc EXCEPT ![c] = p]
        BY <2>1
    <2>3. /\ pc[c] = "check"
          /\ UNCHANGED <<linked, count, services, severity, forced, merged, jobs, tries, new, values, dirty>>
        BY <1>9 DEF check_incident_resolution
    <2>4. dirty' = [dirty EXCEPT ![c] = dirty[c]]
        BY <1>1, <2>3
    <2>5. ClientsFit'
        BY <1>1, <2>2, <2>3, <2>4, PlaceFits
    <2>6. status' \in [Incident -> {"firing", "acknowledged", "resolved", "merged", "deleted"}]
        BY <2>1 DEF Typed, RowsFit
    <2>7. RowsFit'
        BY <2>3, <2>6 DEF Typed, RowsFit
    <2> QED  BY <2>5, <2>7 DEF Typed
<1> QED  BY <1>2, <1>3, <1>5, <1>6, <1>7, <1>8, <1>9 DEF Aside

LEMMA StutterTyped ==
    ASSUME Typed, Refire \/ UNCHANGED vars
    PROVE  Typed'
<1>1. UNCHANGED <<incidentVars, clientVars>>
    BY DEF Refire, vars
<1>2. ClientsFit'
    BY <1>1 DEF Typed, ClientsFit, clientVars
<1>3. RowsFit'
    BY <1>1 DEF Typed, RowsFit, incidentVars
<1> QED  BY <1>2, <1>3 DEF Typed

LEMMA NextTyped == Typed /\ [Next]_vars => Typed'
BY NextKinds, AsksTyped, JobTyped, AsideTyped, FailingTyped, StutterTyped

\* Whatever the requests and their failures, a client has jobs exactly while it
\* works on one of them, a split first adds and then removes the same alerts, and
\* a merge adds what it has removed.
THEOREM TypeCorrect == Spec => []Typed
<1>1. Init => Typed
    BY InitTyped
<1>2. Typed /\ [Next]_vars => Typed'
    BY NextTyped
<1> QED  BY <1>1, <1>2, PTL DEF Spec

-----------------------------------------------------------------------------
\* A request about to write the values it computed for an incident.
Writing(c, i) == pc[c] = "update" /\ Head(jobs[c]).to = i

\* A forced severity stands because the requests about to write one keep it: they
\* read the incident after it was forced, or it is noted that they did not.
Kept(c, i) == forced[i] /\ i \notin overtaken /\ Writing(c, i) => values[c].severity = forcedTo[i]
ForcedInv ==
    /\ forcedTo \in [Incident -> {0} \cup Severities] /\ overtaken \subseteq Incident
    /\ ForcedStands
    /\ \A c \in Client, i \in Incident : Kept(c, i)

\* What one request changes of where the clients are, of their jobs and of what
\* they hold.
LEMMA OthersStay ==
    ASSUME Typed, NEW c \in Client
    PROVE  /\ \A js : jobs' = [jobs EXCEPT ![c] = js] =>
                jobs'[c] = js /\ \A d \in Client \ {c} : jobs'[d] = jobs[d]
           /\ \A p : pc' = [pc EXCEPT ![c] = p] =>
                pc'[c] = p /\ \A d \in Client \ {c} : pc'[d] = pc[d]
BY DEF Typed, ClientsFit

LEMMA OthersHold ==
    ASSUME Typed, NEW c \in Client
    PROVE  /\ \A n : new' = [new EXCEPT ![c] = n] =>
                new'[c] = n /\ \A d \in Client \ {c} : new'[d] = new[d]
           /\ \A v : values' = [values EXCEPT ![c] = v] =>
                values'[c] = v /\ \A d \in Client \ {c} : values'[d] = values[d]
BY DEF Typed, ClientsFit

LEMMA InitForced == Init => ForcedInv
BY DEF Init, ForcedInv, ForcedStands, Kept, Writing

\* A step that forces nothing and leaves the other requests alone.
LEMMA KeptByOthers ==
    ASSUME ForcedInv, NEW c \in Client, UNCHANGED <<severity, forced, forcedHistory>>,
           \A d \in Client \ {c} : pc'[d] = pc[d] /\ jobs'[d] = jobs[d] /\ values'[d] = values[d],
           \A i \in Incident : Kept(c, i)'
    PROVE  ForcedInv'
<1>1. ForcedStands' /\ forcedTo' \in [Incident -> {0} \cup Severities] /\ overtaken' \subseteq Incident
    BY DEF ForcedInv, ForcedStands, forcedHistory
<1>2. \A d \in Client \ {c}, i \in Incident : Kept(d, i)'
    BY DEF ForcedInv, Kept, Writing, forcedHistory
<1> QED  BY <1>1, <1>2 DEF ForcedInv

LEMMA NotWriting ==
    ASSUME Typed, ForcedInv, NEW c \in Client, UNCHANGED <<severity, forced, forcedHistory>>,
           NEW p, p # "update", pc' = [pc EXCEPT ![c] = p],
           jobs' = jobs \/ \E js : jobs' = [jobs EXCEPT ![c] = js],
           values' = values \/ \E v : values' = [values EXCEPT ![c] = v]
    PROVE  ForcedInv'
<1>1. pc'[c] # "update" /\ \A d \in Client \ {c} : pc'[d] = pc[d]
    BY OthersStay
<1>2. \A d \in Client \ {c} : jobs'[d] = jobs[d]
    BY OthersStay
<1>3. \A d \in Client \ {c} : values'[d] = values[d]
    BY OthersHold
<1>4. \A i \in Incident : Kept(c, i)'
    BY <1>1 DEF Kept, Writing
<1> QED  BY <1>1, <1>2, <1>3, <1>4, KeptByOthers

\* What a request sets that goes on to other jobs.
LEMMA JobsOver ==
    ASSUME Typed, NEW c \in Client, NEW js, NEW d, NextJob(c, js, d)
    PROVE  /\ \E p : p # "update" /\ pc' = [pc EXCEPT ![c] = p]
           /\ jobs' = [jobs EXCEPT ![c] = js]
           /\ values' = [values EXCEPT ![c] = NoValues]
<1>1. PICK p : p = IF js # << >> THEN "link" ELSE IF Merging(c) THEN "finish" ELSE "idle"
    OBVIOUS
<1>2. p # "update"
    BY <1>1
<1> QED  BY <1>1, <1>2 DEF NextJob

LEMMA ReadKeeps ==
    ASSUME Typed, ForcedInv, NEW c \in Client, UNCHANGED <<severity, forced, forcedHistory, jobs>>,
           pc' = [pc EXCEPT ![c] = "update"], NEW v, values' = [values EXCEPT ![c] = v],
           NEW i, i = Head(jobs[c]).to, forced[i] => v.severity = severity[i]
    PROVE  ForcedInv'
<1>1. \A d \in Client \ {c} : pc'[d] = pc[d] /\ values'[d] = values[d]
    BY OthersStay, OthersHold
<1>2. values'[c] = v
    BY OthersHold
<1>3. \A k \in Incident : Kept(c, k)'
    BY <1>2 DEF Kept, Writing, ForcedInv, ForcedStands, forcedHistory
<1> QED  BY <1>1, <1>3, KeptByOthers

LEMMA UpdateKeeps ==
    ASSUME Typed, ForcedInv, NEW c \in Client, Update(c)
    PROVE  ForcedInv'
<1>1. PICK i : i = Head(jobs[c]).to
    OBVIOUS
<1>2. /\ pc[c] = "update" /\ severity' = [severity EXCEPT ![i] = values[c].severity]
      /\ NextJob(c, Tail(jobs[c]), dirty[c]) /\ UNCHANGED <<forced, forcedHistory>>
    BY <1>1 DEF Update, historyVars
<1>3. i \in Incident /\ severity'[i] = values[c].severity
      /\ \A k \in Incident \ {i} : severity'[k] = severity[k]
    BY <1>1, <1>2, HeadFits DEF Typed, RowsFit
<1>4. Kept(c, i)
    BY <1>3 DEF ForcedInv
<1>5. ForcedStands'
    BY <1>1, <1>2, <1>3, <1>4 DEF ForcedInv, ForcedStands, Kept, Writing, forcedHistory
<1>6. PICK p : p # "update" /\ pc' = [pc EXCEPT ![c] = p]
    BY <1>2, JobsOver
<1>7. jobs' = [jobs EXCEPT ![c] = Tail(jobs[c])] /\ values' = [values EXCEPT ![c] = NoValues]
    BY <1>2, JobsOver
<1>8. /\ pc'[c] # "update"
      /\ \A d \in Client \ {c} : pc'[d] = pc[d] /\ jobs'[d] = jobs[d] /\ values'[d] = values[d]
    BY <1>6, <1>7, OthersStay, OthersHold
<1>9. \A d \in Client, k \in Incident : Kept(d, k)'
    <2>1. \A k \in Incident : Kept(c, k)'
        BY <1>8 DEF Kept, Writing
    <2>2. \A d \in Client \ {c}, k \in Incident : Kept(d, k)'
        BY <1>2, <1>8 DEF ForcedInv, Kept, Writing, forcedHistory
    <2> QED  BY <2>1, <2>2
<1> QED  BY <1>2, <1>5, <1>9 DEF ForcedInv, forcedHistory

\* Whoever forces a severity notes the requests that would overwrite it.
LEMMA ForceKeeps ==
    ASSUME Typed, ForcedInv, NEW c \in Client, update_severity(c)
    PROVE  ForcedInv'
<1>1. PICK i \in Incident, s \in {Severity[f] : f \in Alert} :
        /\ severity' = [severity EXCEPT ![i] = s]
        /\ forced' = [forced EXCEPT ![i] = TRUE] /\ forcedTo' = [forcedTo EXCEPT ![i] = s]
        /\ overtaken' = IF \E d \in Client : pc[d] = "update" /\ Head(jobs[d]).to = i
                        THEN overtaken \cup {i} ELSE overtaken \ {i}
    BY DEF update_severity
<1>2. s \in Severities
    BY IncidentsAssumption
<1>3. UNCHANGED <<pc, jobs, values>>
    BY DEF update_severity, ClientIdle
<1>4. /\ forcedTo' \in [Incident -> {0} \cup Severities] /\ overtaken' \subseteq Incident
      /\ forcedTo'[i] = s /\ \A k \in Incident \ {i} : forcedTo'[k] = forcedTo[k]
    <2>1. forcedTo \in [Incident -> {0} \cup Severities] /\ overtaken \subseteq Incident
        BY DEF ForcedInv
    <2> QED  BY <1>1, <1>2, <2>1
<1>5. /\ severity'[i] = s /\ \A k \in Incident \ {i} : severity'[k] = severity[k]
      /\ \A k \in Incident \ {i} : forced'[k] = forced[k]
    BY <1>1 DEF Typed, RowsFit
<1>6. \A k \in Incident \ {i} : k \in overtaken' <=> k \in overtaken
    BY <1>1
<1>7. ForcedStands'
    BY <1>4, <1>5, <1>6 DEF ForcedInv, ForcedStands
<1>8. \A d \in Client, k \in Incident : Kept(d, k)'
    <2>1. \A d \in Client, k \in Incident \ {i} : Kept(d, k)'
        BY <1>3, <1>4, <1>5, <1>6 DEF ForcedInv, Kept, Writing
    <2>2. \A d \in Client : Kept(d, i)'
        BY <1>1, <1>3 DEF Kept, Writing
    <2> QED  BY <2>1, <2>2
<1> QED  BY <1>4, <1>7, <1>8 DEF ForcedInv

LEMMA AsideKeeps ==
    ASSUME Typed, ForcedInv, NEW c \in Client, Aside(c)
    PROVE  ForcedInv'
<1>1. CASE update_severity(c)
    BY <1>1, ForceKeeps
<1>2. CASE ~update_severity(c)
    <2>1. UNCHANGED <<severity, forced, forcedHistory, jobs, values>>
        BY <1>2 DEF Aside, FinishMerge, FinishRaises, change_status, delete_incident_by_id, ResolveAlert,
                    check_incident_resolution, JobIdle, ClientIdle, incidentVars, historyVars
    <2>2. \E p \in {"idle", "check"} : pc' = [pc EXCEPT ![c] = p]
        <3>1. CASE FinishMerge(c) \/ FinishRaises(c) \/ check_incident_resolution(c)
            BY <3>1 DEF FinishMerge, FinishRaises, check_incident_resolution
        <3>2. CASE ResolveAlert(c)
            BY <3>2 DEF ResolveAlert
        <3>3. CASE change_status(c) \/ delete_incident_by_id(c)
            <4>1. pc[c] = "idle" /\ UNCHANGED pc
                BY <3>3 DEF change_status, delete_incident_by_id, Request, MayStart
            <4>2. pc' = [pc EXCEPT ![c] = "idle"]
                BY <4>1 DEF Typed, ClientsFit
            <4> QED  BY <4>2
        <3> QED  BY <1>2, <3>1, <3>2, <3>3 DEF Aside
    <2> QED  BY <2>1, <2>2, NotWriting
<1> QED  BY <1>1, <1>2

LEMMA JobKeeps ==
    ASSUME Typed, ForcedInv, NEW c \in Client, Job(c)
    PROVE  ForcedInv'
<1>1. CASE AddSelect(c)
    <2>1. UNCHANGED <<severity, forced, forcedHistory>>
        BY <1>1 DEF AddSelect, incidentVars, historyVars
    <2>2. CASE NextJob(c, Tail(jobs[c]), dirty[c])
        <3>1. /\ \E p : p # "update" /\ pc' = [pc EXCEPT ![c] = p]
              /\ \E js : jobs' = [jobs EXCEPT ![c] = js] /\ \E v : values' = [values EXCEPT ![c] = v]
            BY <2>2, JobsOver
        <3> QED  BY <2>1, <3>1, NotWriting
    <2>3. CASE pc' = [pc EXCEPT ![c] = "insert"] /\ UNCHANGED <<jobs, values>>
        BY <2>1, <2>3, NotWriting
    <2> QED  BY <1>1, <2>2, <2>3 DEF AddSelect
<1>2. CASE AddLink(c)
    <2>1. /\ UNCHANGED <<severity, forced, forcedHistory, jobs, values>>
          /\ pc' = [pc EXCEPT ![c] = "read"]
        BY <1>2 DEF AddLink
    <2> QED  BY <2>1, NotWriting
<1>3. CASE AddCollides(c)
    <2>1. UNCHANGED <<severity, forced, forcedHistory, values>>
        BY <1>3 DEF AddCollides, incidentVars
    <2>2. /\ \E p \in {"link", "idle"} : pc' = [pc EXCEPT ![c] = p]
          /\ jobs' = jobs \/ \E js : jobs' = [jobs EXCEPT ![c] = js]
        BY <1>3 DEF AddCollides
    <2> QED  BY <2>1, <2>2, NotWriting
<1>4. CASE AddRead(c)
    <2>1. PICK i : i = Head(jobs[c]).to
        OBVIOUS
    <2>2. PICK v : v = [services |-> services[i] \cup ServicesOf(new[c]), severity |-> Raised(i, new[c])]
        OBVIOUS
    <2>3. values' = [values EXCEPT ![c] = v]
        BY <1>4, <2>1, <2>2, AddReadValue
    <2>4. forced[i] => v.severity = severity[i]
        BY <2>2 DEF Raised
    <2>5. UNCHANGED <<severity, forced, forcedHistory, jobs>> /\ pc' = [pc EXCEPT ![c] = "update"]
        BY <1>4 DEF AddRead, incidentVars, historyVars
    <2> QED  BY <2>1, <2>3, <2>4, <2>5, ReadKeeps
<1>5. CASE RemoveLink(c)
    <2>1. /\ UNCHANGED <<severity, forced, forcedHistory, jobs, values>>
          /\ pc' = [pc EXCEPT ![c] = "read"]
        BY <1>5 DEF RemoveLink
    <2> QED  BY <2>1, NotWriting
<1>6. CASE RemoveRead(c)
    <2>1. PICK i : i = Head(jobs[c]).to
        OBVIOUS
    <2>2. PICK wanted, rows :
            values' = [values EXCEPT ![c] = [services |-> services[i] \ NotFound(wanted, rows),
                                             severity |-> Lowered(i)]]
        <3> DEFINE gone == ServicesOf(Head(jobs[c]).alerts)
        <3>1. \E w \in SetToSeqs(gone), r \in SetToSeqs(gone \cap ServicesOf(linked[Head(jobs[c]).to])) :
                values' = [values EXCEPT ![c] = [services |-> services[Head(jobs[c]).to] \ NotFound(w, r),
                                                 severity |-> Lowered(Head(jobs[c]).to)]]
            BY <1>6, RemoveReadValue
        <3> QED  BY <2>1, <3>1
    <2>3. PICK v : v = [services |-> services[i] \ NotFound(wanted, rows), severity |-> Lowered(i)]
        OBVIOUS
    <2>4. forced[i] => v.severity = severity[i]
        BY <2>3 DEF Lowered
    <2>5. pc' = [pc EXCEPT ![c] = "update"] /\ UNCHANGED <<incidentVars, jobs, forcedHistory>>
        BY <1>6 DEF RemoveRead
    <2>6. UNCHANGED <<severity, forced, forcedHistory, jobs>>
        BY <2>5 DEF incidentVars
    <2> QED  BY <2>1, <2>2, <2>3, <2>4, <2>5, <2>6, ReadKeeps
<1>7. CASE Update(c)
    BY <1>7, UpdateKeeps
<1> QED  BY <1>1, <1>2, <1>3, <1>4, <1>5, <1>6, <1>7 DEF Job

LEMMA FailingKeeps ==
    ASSUME Typed, ForcedInv, NEW c \in Client, Failing(c)
    PROVE  ForcedInv'
<1>1. CASE AddRetried(c)
    <2>1. /\ UNCHANGED <<severity, forced, forcedHistory, jobs>> /\ pc' = [pc EXCEPT ![c] = "link"]
          /\ values' = [values EXCEPT ![c] = NoValues]
        BY <1>1 DEF AddRetried, Retried, incidentVars, historyVars
    <2> QED  BY <2>1, NotWriting
<1>2. CASE AddRaises(c) \/ RemoveRaises(c)
    <2>1. UNCHANGED <<severity, forced, forcedHistory>>
        BY <1>2 DEF AddRaises, RemoveRaises, incidentVars, historyVars
    <2>2. \E js, d : NextJob(c, js, d)
        BY <1>2 DEF AddRaises, RemoveRaises
    <2>3. /\ \E p : p # "update" /\ pc' = [pc EXCEPT ![c] = p]
          /\ \E js : jobs' = [jobs EXCEPT ![c] = js] /\ \E v : values' = [values EXCEPT ![c] = v]
        BY <2>2, JobsOver
    <2> QED  BY <2>1, <2>3, NotWriting
<1>3. CASE AddAborts(c)
    <2>1. /\ UNCHANGED <<severity, forced, forcedHistory>> /\ pc' = [pc EXCEPT ![c] = "idle"]
          /\ jobs' = [jobs EXCEPT ![c] = << >>] /\ values' = [values EXCEPT ![c] = NoValues]
        BY <1>3 DEF AddAborts, incidentVars
    <2> QED  BY <2>1, NotWriting
<1> QED  BY <1>1, <1>2, <1>3 DEF Failing

LEMMA AsksKeeps ==
    ASSUME Typed, ForcedInv, NEW c \in Client, Asks(c)
    PROVE  ForcedInv'
<1>1. PICK js : Start(c, js)
    BY AsksStart
<1>2. /\ jobs' = [jobs EXCEPT ![c] = js] /\ pc' = [pc EXCEPT ![c] = "link"]
      /\ UNCHANGED <<severity, forced, forcedHistory, values>>
    BY <1>1 DEF Start, incidentVars, historyVars
<1> QED  BY <1>2, NotWriting

LEMMA StutterKeeps ==
    ASSUME ForcedInv, Refire \/ UNCHANGED vars
    PROVE  ForcedInv'
<1>1. UNCHANGED <<severity, forced, forcedTo, overtaken, pc, jobs, values>>
    BY DEF Refire, vars, incidentVars, clientVars, historyVars, forcedHistory
<1> QED  BY <1>1 DEF ForcedInv, ForcedStands, Kept, Writing

\* Whatever fails, what a request writes where a severity is forced is that severity,
\* unless it was forced after the request had read the incident.
THEOREM ForcedTheorem == Spec => []ForcedInv
<1>1. Typed /\ ForcedInv /\ [Next]_vars => ForcedInv'
    BY AsksKeeps, JobKeeps, AsideKeeps, FailingKeeps, StutterKeeps, NextKinds
<1> QED  BY <1>1, InitForced, TypeCorrect, PTL DEF Spec

\* The columns and the clients' state have their types, and an addition is tried
\* three times at most.
THEOREM TypeTheorem == Spec => []TypeOK
<1>1. Typed /\ ForcedInv => TypeOK
    <2> SUFFICES ASSUME Typed, ForcedInv PROVE TypeOK
        OBVIOUS
    <2>1. \A c \in Client : dirty[c] \subseteq Incident \X Incident
        BY Unchanging
    <2>2. forcedTo \in [Incident -> {0} \cup Severities] /\ overtaken \subseteq Incident
        BY DEF ForcedInv
    <2> QED  BY <2>1, <2>2 DEF Typed, ClientsFit, RowsFit, TypeOK
<1> QED  BY <1>1, TypeCorrect, ForcedTheorem, PTL

-----------------------------------------------------------------------------
\* A request that has not yet begun to remove stays safe while links only grow.
LEMMA SafeStays ==
    ASSUME Typed, NEW d \in Client, SplitSafe(d), jobs'[d] = jobs[d],
           \/ pc'[d] = "link" \/ pc[d] \notin {"link", "insert"}
           \/ pc'[d] = pc[d] /\ new'[d] = new[d],
           contended \subseteq contended',
           \A i \in Incident : linked[i] \subseteq linked'[i]
    PROVE  SplitSafe(d)'
<1> DEFINE js == jobs[d]
<1>1. JobsFit(js)
    BY DEF Typed, ClientsFit
<1>2. js # << >> => js[1].to \in Incident
    BY <1>1, TailFits DEF JobRecord
<1>3. /\ Single(js) /\ js[1].do = "remove" /\ ~js[1].drop =>
           \A f \in js[1].alerts : f \in contended \/ \E i \in Incident \ {js[1].to} : f \in linked[i]
      /\ Splitting(js) /\ pc[d] # "link" =>
           js[1].alerts \subseteq linked[js[1].to] \cup contended \cup Chosen(d)
    BY DEF SplitSafe
<1>4. Splitting(js) => js # << >>
    BY NothingFits
<1>c. pc[d] \notin {"link", "insert"} => Chosen(d) = {}
    BY DEF Chosen
<1>d. pc'[d] # "link" => Chosen(d) \subseteq Chosen(d)' /\ pc[d] # "link"
    BY <1>c DEF Chosen
<1> HIDE DEF js
<1>5. /\ Single(js) /\ js[1].do = "remove" /\ ~js[1].drop =>
           \A f \in js[1].alerts : f \in contended' \/ \E i \in Incident \ {js[1].to} : f \in linked'[i]
      /\ Splitting(js) /\ pc'[d] # "link" =>
           js[1].alerts \subseteq linked'[js[1].to] \cup contended' \cup Chosen(d)'
    BY <1>2, <1>3, <1>4, <1>d
<1> QED  BY <1>5 DEF SplitSafe, Single, Splitting, js

\* A split that has added its alerts may remove them.
LEMMA SafeAfter ==
    ASSUME Typed, NEW c \in Client, jobs[c] # << >>, NEW ts, ts = Tail(jobs[c]), jobs'[c] = ts,
           UNCHANGED <<linked, contended>>,
           Splitting(jobs[c]) => jobs[c][1].alerts \subseteq linked[jobs[c][1].to] \cup contended
    PROVE  SplitSafe(c)'
<1> DEFINE js == jobs[c]
<1>1. JobsFit(js)
    BY DEF Typed, ClientsFit
<1>2. /\ Head(js) \in JobRecord /\ Head(js) = js[1] /\ ~Splitting(ts)
      /\ Single(ts) => Splitting(js) /\ ts[1] = js[2]
    <2>1. js # << >> /\ ts = Tail(js)
        OBVIOUS
    <2> HIDE DEF js
    <2>2. /\ Head(js) \in JobRecord /\ Head(js) = js[1] /\ ~Splitting(Tail(js))
          /\ Single(Tail(js)) => Splitting(js) /\ Tail(js)[1] = js[2]
        BY <1>1, <2>1, TailFits
    <2> QED  BY <2>1, <2>2, Zenon
<1>3. js[1].to \in Incident
    BY <1>2 DEF JobRecord
<1>4. Splitting(js) => js[1].alerts = js[2].alerts /\ (js[2].drop \/ js[1].to # js[2].to)
    BY DEF Splitting
<1>5. Splitting(js) => js[1].alerts \subseteq linked'[js[1].to] \cup contended'
    OBVIOUS
<1> HIDE DEF js
<1>6. /\ Single(ts) /\ ts[1].do = "remove" /\ ~ts[1].drop =>
           \A f \in ts[1].alerts : f \in contended' \/ \E i \in Incident \ {ts[1].to} : f \in linked'[i]
      /\ ~Splitting(ts)
    BY <1>2, <1>3, <1>4, <1>5
<1> QED  BY <1>6 DEF SplitSafe, Single, Splitting

\* A request that starts, or ends, has nothing to be safe about.
LEMMA SafeFirst ==
    ASSUME NEW c \in Client, NEW js, jobs'[c] = js, js = << >> \/ (Starts(js) /\ pc'[c] = "link")
    PROVE  SplitSafe(c)'
<1>1. /\ Single(js) => js[1].do = "add" \/ js[1].drop
      /\ Splitting(js) => pc'[c] = "link"
    BY NothingFits DEF Starts
<1> QED  BY <1>1 DEF SplitSafe, Single, Splitting

\* What another request carries.
LEMMA CarriedSame ==
    ASSUME NEW d \in Client, jobs'[d] = jobs[d], pc'[d] = pc[d], new'[d] = new[d]
    PROVE  Carried(d)' = Carried(d)
BY DEF Carried, Chosen, Merging

\* A step of one request, during which links only grow.
LEMMA MovedByOne ==
    ASSUME Typed, MovedInv, NEW c \in Client,
           \A d \in Client \ {c} : jobs'[d] = jobs[d] /\ pc'[d] = pc[d] /\ new'[d] = new[d],
           SplitSafe(c)', contended \subseteq contended',
           \A i \in Incident : linked[i] \subseteq linked'[i],
           \A f \in seen' : f \in seen \/ \E i \in Incident : f \in linked'[i],
           \A f \in dropped \cup reported :
              f \in dropped' \cup reported' \/ \E i \in Incident : f \in linked'[i],
           \A f \in Carried(c) : Accounted(f)'
    PROVE  MovedInv'
<1>1. (\A d \in Client : SplitSafe(d)) /\ \A f \in seen : Accounted(f)
    BY DEF MovedInv
<1>2. \A d \in Client : SplitSafe(d)'
    <2> TAKE d \in Client
    <2>1. CASE d = c
        BY <2>1
    <2>2. CASE d # c
        BY <1>1, <2>2, SafeStays
    <2> QED  BY <2>1, <2>2
<1>3. ASSUME NEW f \in seen'
      PROVE  Accounted(f)'
    <2>1. CASE f \notin seen
        BY <2>1 DEF Accounted
    <2>2. CASE f \in seen
        <3>1. \/ \E i \in Incident : f \in linked[i]
              \/ f \in dropped \cup reported \cup contended
              \/ \E d \in Client : f \in Carried(d)
            BY <1>1, <2>2 DEF Accounted
        <3>2. CASE \E i \in Incident : f \in linked[i]
            BY <3>2 DEF Accounted
        <3>3. CASE f \in dropped \cup reported \cup contended
            BY <3>3 DEF Accounted
        <3>4. ASSUME NEW d \in Client, f \in Carried(d)
              PROVE  Accounted(f)'
            <4>1. CASE d = c
                BY <3>4, <4>1
            <4>2. CASE d # c
                <5>1. f \in Carried(d)'
                    BY <3>4, <4>2, CarriedSame
                <5> QED  BY <5>1 DEF Accounted
            <4> QED  BY <4>1, <4>2
        <3> QED  BY <3>1, <3>2, <3>3, <3>4
    <2> QED  BY <2>1, <2>2
<1> QED  BY <1>2, <1>3 DEF MovedInv

\* The same, for a request that goes on to other jobs.
LEMMA NextJobs ==
    ASSUME Typed, NEW c \in Client, NEW js, NEW d, NextJob(c, js, d)
    PROVE  /\ jobs'[c] = js /\ (js # << >> => pc'[c] = "link") /\ pc'[c] \notin {"insert", "read", "update"}
           /\ \A b \in Client \ {c} : jobs'[b] = jobs[b] /\ pc'[b] = pc[b] /\ new'[b] = new[b]
<1>1. jobs' = [jobs EXCEPT ![c] = js] /\ new' = [new EXCEPT ![c] = {}]
    BY DEF NextJob
<1>2. PICK p \in {"link", "finish", "idle"} : pc' = [pc EXCEPT ![c] = p] /\ (js # << >> => p = "link")
    <2>1. pc' = [pc EXCEPT ![c] = IF js # << >> THEN "link"
                                  ELSE IF Merging(c) THEN "finish" ELSE "idle"]
        BY DEF NextJob
    <2>2. CASE js # << >>
        BY <2>1, <2>2
    <2>3. CASE js = << >> /\ Merging(c)
        BY <2>1, <2>3
    <2>4. CASE js = << >> /\ ~Merging(c)
        BY <2>1, <2>4
    <2> QED  BY <2>2, <2>3, <2>4
<1>3. \A b \in Client \ {c} : jobs'[b] = jobs[b] /\ pc'[b] = pc[b] /\ new'[b] = new[b]
    BY <1>1, <1>2, OthersStay, OthersHold
<1>4. jobs'[c] = js /\ pc'[c] = p
    BY <1>1, <1>2, OthersStay
<1> QED  BY <1>2, <1>3, <1>4

-----------------------------------------------------------------------------
LEMMA InitMoved == Init => MovedInv
<1> SUFFICES ASSUME Init PROVE MovedInv
    OBVIOUS
<1>1. \A c \in Client : jobs[c] = << >>
    BY DEF Init
<1>2. \A c \in Client : SplitSafe(c)
    BY <1>1, NothingFits DEF SplitSafe
<1>3. \A f \in seen : \E i \in Incident : f \in linked[i]
    BY DEF Init
<1> QED  BY <1>2, <1>3 DEF MovedInv, Accounted

LEMMA AsksMoved ==
    ASSUME Typed, MovedInv, NEW c \in Client, Asks(c)
    PROVE  MovedInv'
<1>1. PICK js : Starts(js) /\ Start(c, js)
    BY AsksStart
<1>2. /\ pc[c] = "idle" /\ jobs' = [jobs EXCEPT ![c] = js] /\ pc' = [pc EXCEPT ![c] = "link"]
      /\ UNCHANGED <<linked, new, seen, dropped, reported, contended>>
    BY <1>1 DEF Start, MayStart, incidentVars, historyVars, linkHistory
<1>3. /\ jobs'[c] = js /\ pc'[c] = "link"
      /\ \A d \in Client \ {c} : jobs'[d] = jobs[d] /\ pc'[d] = pc[d] /\ new'[d] = new[d]
    BY <1>2, OthersStay
<1>4. SplitSafe(c)'
    BY <1>1, <1>3, SafeFirst
<1>5. jobs[c] = << >>
    BY <1>2 DEF Typed, ClientsFit
<1>6. Carried(c) = {}
    BY <1>5 DEF Carried
<1> QED  BY <1>2, <1>3, <1>4, <1>6, MovedByOne

\* Alerts that are all linked already are accounted for, whatever carried them;
\* the others are chosen.
LEMMA AddSelectMoved ==
    ASSUME Typed, MovedInv, NEW c \in Client, AddSelect(c)
    PROVE  MovedInv'
<1> DEFINE j == Head(jobs[c])
           S == j.alerts \ linked[j.to]
<1>1. /\ pc[c] = "link" /\ j.do = "add"
      /\ UNCHANGED <<linked, seen, dropped, reported, contended>>
    BY DEF AddSelect, incidentVars, historyVars, linkHistory
<1>2. /\ jobs[c] # << >> /\ JobsFit(jobs[c]) /\ j.to \in Incident /\ j.alerts \in SUBSET Alert
      /\ j = jobs[c][1]
    BY <1>1, HeadFits, TailFits
<1>3. Carried(c) \subseteq j.alerts /\ (Merging(c) \/ Carried(c) = {})
    BY <1>1 DEF Carried
<1>5. CASE S = {}
    <2>1. NextJob(c, Tail(jobs[c]), dirty[c])
        BY <1>5 DEF AddSelect
    <2>2. PICK ts : ts = Tail(jobs[c])
        OBVIOUS
    <2>3. /\ jobs'[c] = ts
          /\ \A d \in Client \ {c} : jobs'[d] = jobs[d] /\ pc'[d] = pc[d] /\ new'[d] = new[d]
        BY <2>1, <2>2, NextJobs
    <2>4. j.alerts \subseteq linked[j.to]
        BY <1>5
    <2>5. jobs[c][1].alerts \subseteq linked[jobs[c][1].to] \cup contended
        BY <1>2, <2>4
    <2>6. SplitSafe(c)'
        BY <1>1, <1>2, <2>2, <2>3, <2>5, SafeAfter
    <2>7. \A f \in Carried(c) : Accounted(f)'
        BY <1>1, <1>2, <1>3, <2>4 DEF Accounted
    <2> HIDE DEF j, S
    <2> QED  BY <1>1, <2>3, <2>6, <2>7, MovedByOne
<1>6. CASE S # {}
    <2>1. /\ new' = [new EXCEPT ![c] = S] /\ pc' = [pc EXCEPT ![c] = "insert"] /\ UNCHANGED jobs
        BY <1>6 DEF AddSelect
    <2>2. /\ \A d \in Client \ {c} : jobs'[d] = jobs[d] /\ pc'[d] = pc[d] /\ new'[d] = new[d]
          /\ jobs'[c] = jobs[c] /\ pc'[c] = "insert" /\ new'[c] = S
        <3> HIDE DEF S
        <3>1. new'[c] = S /\ \A d \in Client \ {c} : new'[d] = new[d]
            BY <2>1, OthersHold
        <3>2. pc'[c] = "insert" /\ \A d \in Client \ {c} : pc'[d] = pc[d]
            BY <2>1, OthersStay
        <3> QED  BY <2>1, <3>1, <3>2
    <2>3. Chosen(c)' = S /\ j.alerts \subseteq linked[j.to] \cup S
        BY <2>2 DEF Chosen
    <2>4. SplitSafe(c)'
        <3>1. /\ Single(jobs[c]) => jobs[c][1].do = "add"
              /\ jobs[c][1].alerts \subseteq linked'[jobs[c][1].to] \cup Chosen(c)'
            BY <1>1, <1>2, <2>3
        <3>2. PICK js : js = jobs[c] /\ jobs'[c] = js
            BY <2>2
        <3>3. /\ Single(js) => js[1].do = "add"
              /\ js[1].alerts \subseteq linked'[js[1].to] \cup Chosen(c)'
            BY <3>1, <3>2
        <3> QED  BY <3>2, <3>3 DEF SplitSafe, Single, Splitting
    <2>5. \A f \in Carried(c) : Accounted(f)'
        <3>1. Merging(c) => S = Carried(c)'
            BY <1>1, <1>2, <2>2, <2>3 DEF Carried, Merging
        <3> HIDE DEF S
        <3> QED  BY <1>1, <1>2, <1>3, <2>3, <3>1 DEF Accounted
    <2> HIDE DEF j, S
    <2> QED  BY <1>1, <2>2, <2>4, <2>5, MovedByOne
<1> QED  BY <1>5, <1>6

\* Alerts that are linked are accounted for, whatever carried them.
LEMMA AddLinkMoved ==
    ASSUME Typed, MovedInv, NEW c \in Client, AddLink(c)
    PROVE  MovedInv'
<1> DEFINE j == Head(jobs[c])
           S == new[c]
<1>1. /\ pc[c] = "insert"
      /\ linked' = [linked EXCEPT ![j.to] = @ \cup S]
      /\ pc' = [pc EXCEPT ![c] = "read"] /\ seen' = seen \cup S
      /\ dropped' = dropped \ S /\ reported' = reported \ S
      /\ UNCHANGED <<contended, jobs, new>>
    BY DEF AddLink
<1>2. /\ jobs[c] # << >> /\ JobsFit(jobs[c]) /\ j.to \in Incident /\ j = jobs[c][1] /\ j.do = "add"
    BY <1>1, HeadFits, TailFits, InsertFits
<1>3. Carried(c) \subseteq S
    BY <1>1, <1>2 DEF Carried, Chosen
<1>4. SplitSafe(c)
    BY DEF MovedInv
<1>5. /\ \A d \in Client \ {c} : jobs'[d] = jobs[d] /\ pc'[d] = pc[d] /\ new'[d] = new[d]
      /\ jobs'[c] = jobs[c] /\ pc'[c] = "read"
    BY <1>1, OthersStay
<1>6. /\ linked'[j.to] = linked[j.to] \cup S
      /\ \A i \in Incident : linked[i] \subseteq linked'[i]
    BY <1>1, <1>2 DEF Typed, RowsFit
<1>7. S \subseteq linked'[j.to]
    BY <1>6
<1>8. SplitSafe(c)'
    <2>1. PICK js : js = jobs[c] /\ jobs'[c] = js
        BY <1>5
    <2>2. Single(js) => js[1].do = "add"
        BY <1>2, <2>1
    <2>3. Splitting(js) => js[1].alerts \subseteq linked[js[1].to] \cup contended \cup S
        BY <1>1, <1>4, <2>1 DEF SplitSafe, Chosen
    <2>4. Splitting(js) => js[1].alerts \subseteq linked'[js[1].to] \cup contended'
        BY <1>1, <1>2, <1>6, <2>1, <2>3
    <2> QED  BY <2>1, <2>2, <2>4 DEF SplitSafe, Single, Splitting
<1>9. \A f \in Carried(c) : Accounted(f)'
    BY <1>2, <1>3, <1>7 DEF Accounted
<1>10. \A f \in seen' : f \in seen \/ \E i \in Incident : f \in linked'[i]
    BY <1>1, <1>2, <1>7
<1>11. \A f \in dropped \cup reported :
         f \in dropped' \cup reported' \/ \E i \in Incident : f \in linked'[i]
    BY <1>1, <1>2, <1>7
<1> HIDE DEF j, S
<1> QED  BY <1>1, <1>5, <1>6, <1>8, <1>9, <1>10, <1>11, MovedByOne

\* A lost race takes back what was chosen; when the request ends, a merge reports it.
LEMMA AddCollidesMoved ==
    ASSUME Typed, MovedInv, NEW c \in Client, AddCollides(c)
    PROVE  MovedInv'
<1>1. /\ pc[c] = "insert" /\ UNCHANGED <<linked, seen, dropped, contended>>
      /\ new' = [new EXCEPT ![c] = {}]
    BY DEF AddCollides, incidentVars
<1>2. /\ Head(jobs[c]).do = "add" /\ new[c] \subseteq Head(jobs[c]).alerts
      /\ jobs[c] # << >>
    BY <1>1, HeadFits, InsertFits
<1>3. Carried(c) \subseteq Head(jobs[c]).alerts /\ (~Merging(c) => Carried(c) = {})
    BY <1>1, <1>2 DEF Carried, Chosen
<1>4. \A d \in Client \ {c} : new'[d] = new[d]
    BY <1>1, OthersHold
<1>5. CASE tries[c] < 3
    <2>1. pc' = [pc EXCEPT ![c] = "link"] /\ UNCHANGED <<jobs, reported>>
        BY <1>5 DEF AddCollides
    <2>2. /\ \A d \in Client \ {c} : jobs'[d] = jobs[d] /\ pc'[d] = pc[d] /\ new'[d] = new[d]
          /\ jobs'[c] = jobs[c] /\ pc'[c] = "link"
        BY <1>4, <2>1, OthersStay
    <2>3. SplitSafe(c)'
        BY <1>1, <2>2, SafeStays DEF MovedInv
    <2>4. Carried(c) \subseteq Carried(c)'
        BY <1>2, <1>3, <2>2 DEF Carried, Merging
    <2>5. \A f \in Carried(c) : Accounted(f)'
        BY <2>4 DEF Accounted
    <2> QED  BY <1>1, <2>1, <2>2, <2>3, <2>5, MovedByOne
<1>6. CASE ~(tries[c] < 3)
    <2>1. /\ jobs' = [jobs EXCEPT ![c] = << >>] /\ pc' = [pc EXCEPT ![c] = "idle"]
          /\ reported' = IF Merging(c) THEN reported \cup Head(jobs[c]).alerts ELSE reported
        BY <1>6 DEF AddCollides
    <2>2. /\ jobs'[c] = << >>
          /\ \A d \in Client \ {c} : jobs'[d] = jobs[d] /\ pc'[d] = pc[d] /\ new'[d] = new[d]
        BY <1>4, <2>1, OthersStay
    <2>3. SplitSafe(c)'
        <3>1. PICK js : js = << >>
            OBVIOUS
        <3> QED  BY <2>2, <3>1, SafeFirst
    <2>4. \A f \in Carried(c) : Accounted(f)'
        BY <1>3, <2>1 DEF Accounted
    <2> QED  BY <1>1, <2>1, <2>2, <2>3, <2>4, MovedByOne
<1> QED  BY <1>5, <1>6

\* Reading and computing moves nothing.
LEMMA ReadMoved ==
    ASSUME Typed, MovedInv, NEW c \in Client, AddRead(c) \/ RemoveRead(c)
    PROVE  MovedInv'
<1>1. /\ pc[c] = "read" /\ pc' = [pc EXCEPT ![c] = "update"]
      /\ UNCHANGED <<linked, jobs, new, seen, dropped, reported, contended>>
    BY DEF AddRead, RemoveRead, incidentVars, historyVars, linkHistory
<1>2. /\ \A d \in Client \ {c} : jobs'[d] = jobs[d] /\ pc'[d] = pc[d] /\ new'[d] = new[d]
      /\ jobs'[c] = jobs[c] /\ pc'[c] = "update"
    BY <1>1, OthersStay
<1>3. SplitSafe(c)'
    <2>1. SplitSafe(c)
        BY DEF MovedInv
    <2> QED  BY <1>1, <1>2, <2>1, SafeStays
<1>4. Carried(c)' = Carried(c)
    BY <1>1, <1>2 DEF Carried, Chosen, Merging
<1>5. \A f \in Carried(c) : Accounted(f)'
    BY <1>4 DEF Accounted
<1> QED  BY <1>1, <1>2, <1>3, <1>5, MovedByOne

\* A merge that is done with a removal, or gives it up, goes on to the addition.
LEMMA CarriedOn ==
    ASSUME Typed, NEW c \in Client, pc[c] \in {"link", "insert", "read", "update"},
           pc[c] \notin {"link", "insert"} \/ Head(jobs[c]).do = "remove",
           Merging(c), jobs'[c] = Tail(jobs[c]), Tail(jobs[c]) # << >> => pc'[c] = "link"
    PROVE  Carried(c) \subseteq Carried(c)'
<1>1. jobs[c] # << >> /\ JobsFit(jobs[c]) /\ Head(jobs[c]).do \in {"add", "remove"}
    BY HeadFits
<1>2. Head(jobs[c]).of # NoIncident
    BY DEF Merging
<1>3. CASE Head(jobs[c]).do = "remove"
    <2>1. PICK ts : ts = Tail(jobs[c])
        OBVIOUS
    <2>2. /\ ts # << >> /\ Head(ts).do = "add"
          /\ Head(ts).alerts = Head(jobs[c]).alerts /\ Head(ts).of # NoIncident
        BY <1>1, <1>2, <1>3, <2>1, TailFits
    <2>3. jobs'[c] = ts /\ pc'[c] = "link"
        BY <2>1, <2>2
    <2>4. Carried(c)' = Head(ts).alerts
        BY <2>2, <2>3 DEF Carried, Merging
    <2>5. Carried(c) \subseteq Head(jobs[c]).alerts
        BY <1>3, InsertFits DEF Carried, Chosen
    <2> QED  BY <2>2, <2>4, <2>5
<1>4. CASE Head(jobs[c]).do = "add"
    BY <1>4 DEF Carried, Chosen
<1> QED  BY <1>1, <1>3, <1>4

LEMMA UpdateMoved ==
    ASSUME Typed, MovedInv, NEW c \in Client, Update(c)
    PROVE  MovedInv'
<1>1. /\ pc[c] = "update" /\ NextJob(c, Tail(jobs[c]), dirty[c])
      /\ UNCHANGED <<linked, seen, dropped, reported, contended>>
    BY DEF Update, historyVars, linkHistory
<1>2. PICK ts : ts = Tail(jobs[c])
    OBVIOUS
<1>3. /\ jobs'[c] = ts /\ (ts # << >> => pc'[c] = "link")
      /\ \A d \in Client \ {c} : jobs'[d] = jobs[d] /\ pc'[d] = pc[d] /\ new'[d] = new[d]
    BY <1>1, <1>2, NextJobs
<1>4. jobs[c] # << >>
    BY <1>1, HeadFits
<1>5. Splitting(jobs[c]) => jobs[c][1].alerts \subseteq linked[jobs[c][1].to] \cup contended
    BY <1>1 DEF MovedInv, SplitSafe, Chosen
<1>6. SplitSafe(c)'
    BY <1>1, <1>2, <1>3, <1>4, <1>5, SafeAfter
<1>7. Carried(c) \subseteq Carried(c)'
    <2>1. CASE Merging(c)
        BY <1>1, <1>2, <1>3, <2>1, CarriedOn
    <2>2. CASE ~Merging(c)
        BY <2>2 DEF Carried
    <2> QED  BY <2>1, <2>2
<1>8. \A f \in Carried(c) : Accounted(f)'
    BY <1>7 DEF Accounted
<1> QED  BY <1>1, <1>3, <1>6, <1>8, MovedByOne

\* A removal takes alerts that stay where the request first added them, that it
\* is to add, that a user wants removed, or that another request was to remove.
LEMMA RemoveLinkMoved ==
    ASSUME Typed, MovedInv, NEW c \in Client, RemoveLink(c)
    PROVE  MovedInv'
<1>1. PICK j : j = Head(jobs[c])
    OBVIOUS
<1>2. /\ pc[c] = "link" /\ j.do = "remove"
      /\ linked' = [linked EXCEPT ![j.to] = @ \ j.alerts] /\ pc' = [pc EXCEPT ![c] = "read"]
      /\ dropped' = IF j.drop THEN dropped \cup j.alerts ELSE dropped
      /\ contended' = contended \cup {f \in j.alerts : \E d \in Client \ {c} :
                \E k \in DOMAIN jobs[d] : jobs[d][k].do = "remove" /\ f \in jobs[d][k].alerts}
      /\ UNCHANGED <<jobs, new, seen, reported>>
    BY <1>1 DEF RemoveLink
<1>3. /\ jobs[c] # << >> /\ JobsFit(jobs[c]) /\ j = jobs[c][1] /\ j \in JobRecord
      /\ j.to \in Incident
      /\ j.of = NoIncident => Single(jobs[c]) \/ Splitting(jobs[c])
    <2>1. jobs[c] # << >> /\ JobsFit(jobs[c])
        BY <1>1, <1>2, HeadFits
    <2>2. j \in JobRecord /\ j = jobs[c][1] /\ (j.of = NoIncident => Single(jobs[c]) \/ Splitting(jobs[c]))
        BY <1>1, <2>1, TailFits
    <2> QED  BY <2>1, <2>2 DEF JobRecord
<1>4. ~Splitting(jobs[c])
    BY <1>2, <1>3 DEF Splitting
<1>5. /\ \A d \in Client \ {c} : jobs'[d] = jobs[d] /\ pc'[d] = pc[d] /\ new'[d] = new[d]
      /\ jobs'[c] = jobs[c] /\ pc'[c] = "read"
    BY <1>2, OthersStay
<1>6. /\ linked'[j.to] = linked[j.to] \ j.alerts
      /\ \A i \in Incident \ {j.to} : linked'[i] = linked[i]
    BY <1>2, <1>3 DEF Typed, RowsFit
<1>7. (\A d \in Client : SplitSafe(d)) /\ \A f \in seen : Accounted(f)
    BY DEF MovedInv
<1>8. contended \subseteq contended' /\ dropped \subseteq dropped'
    BY <1>2
<1>9. ASSUME NEW d \in Client
      PROVE  SplitSafe(d)'
    <2>1. PICK js : js = jobs[d]
        OBVIOUS
    <2>2. /\ Single(js) /\ js[1].do = "remove" /\ ~js[1].drop =>
               \A f \in js[1].alerts : f \in contended \/ \E i \in Incident \ {js[1].to} : f \in linked[i]
          /\ Splitting(js) /\ pc[d] # "link" =>
               js[1].alerts \subseteq linked[js[1].to] \cup contended \cup Chosen(d)
        BY <1>7, <2>1 DEF SplitSafe
    <2>3. JobsFit(js) /\ (js # << >> => js[1].to \in Incident)
        <3>1. JobsFit(js)
            BY <2>1 DEF Typed, ClientsFit
        <3> QED  BY <3>1, TailFits DEF JobRecord
    <2>4. \A i \in Incident : \A f : f \in linked[i] => f \in linked'[i] \/ (i = j.to /\ f \in j.alerts)
        BY <1>6
    <2>5. CASE d = c
        <3>1. js = jobs[c] /\ js[1] = j /\ ~Splitting(js)
            BY <1>3, <1>4, <2>1, <2>5
        <3>2. Single(js) /\ js[1].do = "remove" /\ ~js[1].drop =>
                \A f \in js[1].alerts : f \in contended' \/ \E i \in Incident \ {js[1].to} : f \in linked'[i]
            BY <1>6, <1>8, <2>2, <3>1
        <3>3. jobs'[d] = js
            BY <1>5, <2>1, <2>5
        <3> QED  BY <3>1, <3>2, <3>3 DEF SplitSafe, Single, Splitting
    <2>6. CASE d # c
        <3>1. jobs'[d] = js /\ pc'[d] = pc[d] /\ Chosen(d)' = Chosen(d)
            BY <1>2, <1>5, <2>1, <2>6 DEF Chosen
        <3>2. CASE Single(js) /\ js[1].do = "remove" /\ ~js[1].drop
            <4>1. 1 \in DOMAIN js /\ ~Splitting(js)
                <5>1. js \in Seq(JobRecord) /\ Len(js) = 1
                    BY <2>3, <3>2 DEF JobsFit, Single
                <5>2. 1 \in DOMAIN js
                    BY <5>1
                <5>3. ~Splitting(js)
                    BY <5>1 DEF Splitting
                <5> QED  BY <5>2, <5>3
            <4>2. \A f \in js[1].alerts : f \in j.alerts => f \in contended'
                BY <1>2, <2>1, <2>6, <3>2, <4>1
            <4>3. \A f \in js[1].alerts : f \in contended' \/ \E i \in Incident \ {js[1].to} : f \in linked'[i]
                BY <1>8, <2>2, <2>4, <3>2, <4>2
            <4> QED  BY <3>1, <4>1, <4>3 DEF SplitSafe, Single, Splitting
        <3>3. CASE Splitting(js) /\ pc[d] # "link"
            <4>1. 2 \in DOMAIN js /\ js[2].do = "remove" /\ js[2].alerts = js[1].alerts /\ ~Single(js)
                <5>1. /\ js \in Seq(JobRecord) /\ Len(js) = 2
                      /\ js[2].do = "remove" /\ js[2].alerts = js[1].alerts
                    BY <2>3, <3>3 DEF JobsFit, Splitting
                <5>2. 2 \in DOMAIN js
                    BY <5>1
                <5>3. ~Single(js)
                    BY <5>1 DEF Single
                <5> QED  BY <5>1, <5>2, <5>3
            <4>2. \A f \in js[1].alerts : f \in j.alerts => f \in contended'
                BY <1>2, <2>1, <2>6, <4>1
            <4>3. js # << >> /\ js[1].to \in Incident
                BY <2>3, <3>3, NothingFits
            <4>4. js[1].alerts \subseteq linked'[js[1].to] \cup contended' \cup Chosen(d)'
                BY <1>8, <2>2, <2>4, <3>1, <3>3, <4>2, <4>3
            <4> QED  BY <3>1, <4>1, <4>4 DEF SplitSafe, Single, Splitting
        <3>4. CASE ~(Single(js) /\ js[1].do = "remove" /\ ~js[1].drop) /\ ~(Splitting(js) /\ pc[d] # "link")
            BY <3>1, <3>4 DEF SplitSafe, Single, Splitting
        <3> QED  BY <3>2, <3>3, <3>4
    <2> QED  BY <2>5, <2>6
<1>10. ASSUME NEW f \in seen
       PROVE  Accounted(f)'
    <2>1. \/ \E i \in Incident : f \in linked[i]
          \/ f \in dropped \cup reported \cup contended
          \/ \E d \in Client : f \in Carried(d)
        BY <1>7 DEF Accounted
    <2>2. CASE f \in dropped \cup reported \cup contended
        BY <1>2, <1>8, <2>2 DEF Accounted
    <2>3. ASSUME NEW d \in Client, f \in Carried(d)
          PROVE  Accounted(f)'
        <3>1. d # c
            BY <1>1, <1>2, <2>3 DEF Carried, Chosen
        <3>2. f \in Carried(d)'
            BY <1>2, <1>5, <2>3, <3>1, CarriedSame
        <3> QED  BY <3>2 DEF Accounted
    <2>4. ASSUME NEW i \in Incident, f \in linked[i]
          PROVE  Accounted(f)'
        <3>1. CASE i # j.to \/ f \notin j.alerts
            BY <1>3, <1>6, <2>4, <3>1 DEF Accounted
        <3>2. CASE i = j.to /\ f \in j.alerts
            <4>1. CASE j.drop
                BY <1>2, <3>2, <4>1 DEF Accounted
            <4>2. CASE j.of # NoIncident
                <5>1. Carried(c)' = j.alerts
                    <6>1. jobs'[c] # << >> /\ Head(jobs'[c]) = j /\ pc'[c] = "read"
                        BY <1>1, <1>3, <1>5
                    <6> QED  BY <1>2, <4>2, <6>1 DEF Carried, Merging
                <5> QED  BY <3>2, <5>1 DEF Accounted
            <4>3. CASE ~j.drop /\ j.of = NoIncident
                <5>1. Single(jobs[c])
                    BY <1>3, <1>4, <4>3
                <5>2. f \in contended \/ \E k \in Incident \ {j.to} : f \in linked[k]
                    BY <1>2, <1>3, <1>7, <3>2, <4>3, <5>1 DEF SplitSafe
                <5>3. f \in contended' \/ \E k \in Incident : f \in linked'[k]
                    BY <1>6, <1>8, <5>2
                <5> QED  BY <5>3 DEF Accounted
            <4> QED  BY <4>1, <4>2, <4>3
        <3> QED  BY <3>1, <3>2
    <2> QED  BY <2>1, <2>2, <2>3, <2>4
<1>11. \A f \in seen' : Accounted(f)'
    BY <1>2, <1>10
<1> QED  BY <1>9, <1>11 DEF MovedInv

LEMMA FailingMoved ==
    ASSUME Typed, MovedInv, NEW c \in Client, Failing(c)
    PROVE  MovedInv'
<1>1. pc[c] \in {"link", "insert", "read", "update"} /\ UNCHANGED <<linked, seen, dropped, contended>>
    BY DEF Failing, AddRetried, AddRaises, AddAborts, RemoveRaises, Fault, Retried, incidentVars, historyVars, linkHistory
<1>2. jobs[c] # << >> /\ JobsFit(jobs[c]) /\ SplitSafe(c)
    BY <1>1, HeadFits DEF MovedInv
<1>3. Carried(c) \subseteq Head(jobs[c]).alerts /\ (~Merging(c) => Carried(c) = {})
    BY InsertFits DEF Carried, Chosen
<1>4. Merging(c) => ~Splitting(jobs[c])
    BY <1>2, TailFits DEF Merging
<1>5. PICK ts : ts = Tail(jobs[c])
    OBVIOUS
<1>6. CASE AddRetried(c)
    <2>1. /\ pc' = [pc EXCEPT ![c] = "link"] /\ UNCHANGED <<jobs, reported>>
          /\ new' = [new EXCEPT ![c] = {}] /\ Head(jobs[c]).do = "add"
        BY <1>6 DEF AddRetried, Retried, Fault, historyVars, linkHistory
    <2>2. /\ \A d \in Client \ {c} : jobs'[d] = jobs[d] /\ pc'[d] = pc[d] /\ new'[d] = new[d]
          /\ jobs'[c] = jobs[c] /\ pc'[c] = "link"
        BY <2>1, OthersStay, OthersHold
    <2>3. SplitSafe(c)'
        BY <1>1, <1>2, <2>2, SafeStays
    <2>4. Carried(c) \subseteq Carried(c)'
        BY <1>3, <2>1, <2>2 DEF Carried, Merging
    <2>5. \A f \in Carried(c) : Accounted(f)'
        BY <2>4 DEF Accounted
    <2> QED  BY <1>1, <2>1, <2>2, <2>3, <2>5, MovedByOne
<1>7. ASSUME \A f \in Carried(c) : Accounted(f)', reported \subseteq reported',
             \A d \in Client \ {c} : jobs'[d] = jobs[d] /\ pc'[d] = pc[d] /\ new'[d] = new[d],
             \/ jobs'[c] = << >>
             \/ Merging(c) /\ jobs'[c] = ts
      PROVE  MovedInv'
    <2>1. SplitSafe(c)'
        <3>1. CASE jobs'[c] = << >>
            <4>1. PICK js : js = << >>
                OBVIOUS
            <4> QED  BY <3>1, <4>1, SafeFirst
        <3>2. CASE Merging(c) /\ jobs'[c] = ts
            BY <1>1, <1>2, <1>4, <1>5, <3>2, SafeAfter
        <3> QED  BY <1>7, <3>1, <3>2
    <2> QED  BY <1>1, <1>7, <2>1, MovedByOne
<1>8. CASE AddRaises(c)
    <2>1. PICK d : NextJob(c, IF Merging(c) THEN Tail(jobs[c]) ELSE << >>, d)
        BY <1>8 DEF AddRaises
    <2>2. PICK js : js = IF Merging(c) THEN Tail(jobs[c]) ELSE << >>
        OBVIOUS
    <2>3. NextJob(c, js, d)
        BY <2>1, <2>2
    <2>4. jobs'[c] = js /\ \A b \in Client \ {c} : jobs'[b] = jobs[b] /\ pc'[b] = pc[b] /\ new'[b] = new[b]
        BY <2>3, NextJobs
    <2>5. reported' = IF Merging(c) THEN reported \cup Head(jobs[c]).alerts ELSE reported
        BY <1>8 DEF AddRaises
    <2>6. \A f \in Carried(c) : Accounted(f)'
        BY <1>3, <2>5 DEF Accounted
    <2> QED  BY <1>5, <1>7, <2>2, <2>4, <2>5, <2>6
<1>9. CASE AddAborts(c)
    <2>1. /\ jobs' = [jobs EXCEPT ![c] = << >>] /\ pc' = [pc EXCEPT ![c] = "idle"]
          /\ new' = [new EXCEPT ![c] = {}]
          /\ reported' = IF Merging(c) THEN reported \cup Head(jobs[c]).alerts ELSE reported
        BY <1>9 DEF AddAborts
    <2>2. jobs'[c] = << >> /\ \A b \in Client \ {c} : jobs'[b] = jobs[b] /\ pc'[b] = pc[b] /\ new'[b] = new[b]
        BY <2>1, OthersStay, OthersHold
    <2>3. \A f \in Carried(c) : Accounted(f)'
        BY <1>3, <2>1 DEF Accounted
    <2> QED  BY <1>7, <2>1, <2>2, <2>3
<1>10. CASE RemoveRaises(c)
    <2>1. PICK js : js = IF Merging(c) THEN Tail(jobs[c]) ELSE << >>
        OBVIOUS
    <2>2. NextJob(c, js, dirty[c]) /\ UNCHANGED reported /\ Head(jobs[c]).do = "remove"
        BY <1>10, <2>1 DEF RemoveRaises, Fault, historyVars, linkHistory
    <2>3. /\ jobs'[c] = js /\ (js # << >> => pc'[c] = "link")
          /\ \A b \in Client \ {c} : jobs'[b] = jobs[b] /\ pc'[b] = pc[b] /\ new'[b] = new[b]
        BY <2>2, NextJobs
    <2>4. Carried(c) \subseteq Carried(c)'
        <3>1. CASE Merging(c)
            BY <1>1, <2>1, <2>2, <2>3, <3>1, CarriedOn
        <3>2. CASE ~Merging(c)
            BY <1>3, <3>2
        <3> QED  BY <3>1, <3>2
    <2>5. \A f \in Carried(c) : Accounted(f)'
        BY <2>4 DEF Accounted
    <2> QED  BY <1>5, <1>7, <2>1, <2>2, <2>3, <2>5
<1> QED  BY <1>6, <1>8, <1>9, <1>10 DEF Failing

\* Every other step leaves links, jobs and histories alone.
LEMMA AsideMoved ==
    ASSUME Typed, MovedInv, NEW c \in Client, Aside(c)
    PROVE  MovedInv'
<1>1. UNCHANGED <<linked, jobs, new, seen, dropped, reported, contended>>
    BY DEF Aside, FinishMerge, FinishRaises, change_status, update_severity, delete_incident_by_id, ResolveAlert,
           check_incident_resolution, JobIdle, ClientIdle, incidentVars, historyVars, linkHistory
<1>2. pc[c] \notin {"link", "insert", "read", "update"} /\ \E p : pc' = [pc EXCEPT ![c] = p]
    <2>1. CASE FinishMerge(c) \/ FinishRaises(c) \/ check_incident_resolution(c)
        BY <2>1 DEF FinishMerge, FinishRaises, check_incident_resolution
    <2>2. CASE ResolveAlert(c)
        BY <2>2 DEF ResolveAlert, Request, MayStart
    <2>3. CASE change_status(c) \/ update_severity(c) \/ delete_incident_by_id(c)
        <3>1. pc[c] = "idle" /\ UNCHANGED pc
            BY <2>3 DEF change_status, update_severity, delete_incident_by_id, Request, MayStart
        <3>2. pc' = [pc EXCEPT ![c] = pc[c]]
            BY <3>1 DEF Typed, ClientsFit
        <3> QED  BY <3>1, <3>2
    <2> QED  BY <2>1, <2>2, <2>3 DEF Aside
<1>3. \A d \in Client \ {c} : jobs'[d] = jobs[d] /\ pc'[d] = pc[d] /\ new'[d] = new[d]
    BY <1>1, <1>2, OthersStay
<1>4. jobs[c] = << >> /\ jobs'[c] = << >>
    BY <1>1, <1>2 DEF Typed, ClientsFit
<1>5. SplitSafe(c)'
    <2>1. PICK js : js = << >>
        OBVIOUS
    <2> QED  BY <1>4, <2>1, SafeFirst
<1>6. Carried(c) = {}
    BY <1>4 DEF Carried
<1> QED  BY <1>1, <1>3, <1>5, <1>6, MovedByOne

LEMMA StutterMoved ==
    ASSUME Typed, MovedInv, Refire \/ UNCHANGED vars
    PROVE  MovedInv'
<1>1. UNCHANGED <<linked, jobs, pc, new, seen, dropped, reported, contended>>
    BY DEF Refire, vars, incidentVars, clientVars, historyVars, linkHistory
<1>2. \A d \in Client : SplitSafe(d)'
    BY <1>1, SafeStays DEF MovedInv
<1>3. \A d \in Client : Carried(d)' = Carried(d)
    BY <1>1, CarriedSame
<1>4. \A f \in seen : Accounted(f)
    BY DEF MovedInv
<1>5. \A f \in seen' : Accounted(f)'
    BY <1>1, <1>3, <1>4 DEF Accounted
<1> QED  BY <1>2, <1>5 DEF MovedInv

LEMMA NextMoved == Typed /\ MovedInv /\ [Next]_vars => MovedInv'
<1>1. ASSUME Typed, MovedInv, NEW c \in Client, Job(c)
      PROVE  MovedInv'
    BY <1>1, AddSelectMoved, AddLinkMoved, AddCollidesMoved, ReadMoved, RemoveLinkMoved, UpdateMoved DEF Job
<1> QED  BY <1>1, NextKinds, AsksMoved, FailingMoved, AsideMoved, StutterMoved

\* An alert that moves between incidents is never lost on the way: whichever
\* statement fails, and in whatever order the requests interleave, it is in an
\* incident, is about to be added to one, was removed by a user, was reported, or
\* was to be removed by two requests at once.
THEOREM MovedTheorem == Spec => []MovedIsNeverLost
<1>1. Init => Typed /\ MovedInv
    BY InitTyped, InitMoved
<1>2. Typed /\ MovedInv /\ [Next]_vars => Typed' /\ MovedInv'
    BY NextTyped, NextMoved
<1>3. Typed /\ MovedInv => MovedIsNeverLost
    <2> SUFFICES ASSUME Typed, MovedInv, NEW f \in seen
                 PROVE  \/ \E i \in Incident : f \in linked[i]
                        \/ f \in dropped \cup reported \cup contended
                        \/ \E c \in Client : \E k \in DOMAIN jobs[c] :
                              jobs[c][k].do = "add" /\ f \in jobs[c][k].alerts
        BY DEF MovedIsNeverLost
    <2>1. Accounted(f)
        BY DEF MovedInv
    <2>2. ASSUME NEW c \in Client, f \in Carried(c)
          PROVE  \E k \in DOMAIN jobs[c] : jobs[c][k].do = "add" /\ f \in jobs[c][k].alerts
        <3>1. PICK js : js = jobs[c]
            OBVIOUS
        <3>2. js # << >> /\ JobsFit(js) /\ Head(js).of # NoIncident /\ f \in Head(js).alerts
            BY <2>2, <3>1, InsertFits DEF Carried, Chosen, Merging, Typed, ClientsFit
        <3>3. js \in Seq(JobRecord) /\ Head(js) = js[1] /\ Len(js) \in Nat /\ Len(js) >= 1 /\ Head(js) \in JobRecord
            BY <3>2, TailFacts DEF JobsFit
        <3>4. 1 \in DOMAIN js
            BY <3>3
        <3>5. js[1].do \in {"add", "remove"}
            BY <3>3 DEF JobRecord
        <3>6. CASE js[1].do = "add"
            BY <3>1, <3>2, <3>3, <3>4, <3>6
        <3>7. CASE js[1].do = "remove"
            <4>1. Moving(js)
                BY <3>2, TailFits
            <4>2. 1 + 1 \in 1..Len(js) /\ js[1 + 1].do = "add" /\ js[1 + 1].alerts = js[1].alerts
                BY <3>3, <3>7, <4>1 DEF Moving
            <4>3. 1 + 1 \in DOMAIN js
                BY <3>3, <4>2
            <4> QED  BY <3>1, <3>2, <3>3, <4>2, <4>3
        <3> QED  BY <3>5, <3>6, <3>7
    <2> QED  BY <2>1, <2>2 DEF Accounted
<1> QED  BY <1>1, <1>2, <1>3, PTL DEF Spec

-----------------------------------------------------------------------------
\* What was judged of some alerts stays so, however many incidents are misjudged
\* and whatever a user forces.
LEMMA JudgedStays ==
    ASSUME NEW i \in Incident, NEW sv, NEW sy, NEW ty, NEW S, Judged(i, sv, sy, S),
           misjudged \subseteq misjudged', forced[i] => forced'[i], forced'[i] \/ ty = sy
    PROVE  Judged(i, sv, ty, S)'
BY DEF Judged

\* A step that leaves the links of i and what is stored of them alone, or forces
\* its severity, and whoever changes i where he is.
LEMMA QuietAt ==
    ASSUME NEW i \in Incident, Counted(i), Follows(i),
           \A d \in Client : Changes(d, i)' <=> Changes(d, i),
           \A d \in Client : Changes(d, i) =>
              pc'[d] = pc[d] /\ jobs'[d] = jobs[d] /\ new'[d] = new[d] /\ values'[d] = values[d],
           linked'[i] = linked[i], count'[i] = count[i], services'[i] = services[i],
           forced[i] => forced'[i], forced'[i] \/ severity'[i] = severity[i],
           raced \subseteq raced', misjudged \subseteq misjudged'
    PROVE  Counted(i)' /\ Follows(i)'
<1>1. Counted(i)'
    BY DEF Counted
<1>2. ASSUME i \notin raced'
      PROVE  /\ \A c, d \in Client : Changes(c, i)' /\ Changes(d, i)' => c = d
             /\ (\A c \in Client : ~Changes(c, i)') => Judged(i, services[i], severity[i], linked[i])'
             /\ \A c \in Client : Changes(c, i)' => Pending(c, i)'
    <2>1. /\ \A c, d \in Client : Changes(c, i) /\ Changes(d, i) => c = d
          /\ (\A c \in Client : ~Changes(c, i)) => Judged(i, services[i], severity[i], linked[i])
          /\ \A c \in Client : Changes(c, i) => Pending(c, i)
        BY <1>2 DEF Follows
    <2>2. PICK L, sv, sy, ty : /\ L = linked[i] /\ sv = services[i] /\ sy = severity[i] /\ ty = severity'[i]
                               /\ forced'[i] \/ ty = sy
        OBVIOUS
    <2>3. ASSUME Judged(i, services[i], severity[i], linked[i])
          PROVE  Judged(i, services[i], severity[i], linked[i])'
        <3>1. Judged(i, sv, sy, L)
            BY <2>2, <2>3
        <3>2. Judged(i, sv, ty, L)'
            BY <2>2, <3>1, JudgedStays
        <3> QED  BY <2>2, <3>2 DEF Judged
    <2>4. ASSUME NEW c \in Client, Changes(c, i), Pending(c, i)
          PROVE  Pending(c, i)'
        <3>1. PICK p, j, n, v : /\ p = pc[c] /\ j = Head(jobs[c]) /\ n = new[c] /\ v = values[c]
                                /\ p = pc'[c] /\ j = Head(jobs'[c]) /\ n = new'[c] /\ v = values'[c]
            BY <2>4
        <3>2. p = "update" => Judged(i, v.services, v.severity, L)'
            <4>1. p = "update" => Judged(i, v.services, v.severity, L)
                BY <2>2, <2>4, <3>1 DEF Pending
            <4> QED  BY <4>1, JudgedStays
        <3>3. p = "read" /\ j.do = "add" =>
                /\ n # {} /\ n \subseteq L /\ count'[i] = Cardinality(L \ n)
                /\ Judged(i, sv, ty, L \ n)'
            <4>1. p = "read" /\ j.do = "add" =>
                    /\ n # {} /\ n \subseteq L /\ count[i] = Cardinality(L \ n)
                    /\ Judged(i, sv, sy, L \ n)
                BY <2>2, <2>4, <3>1 DEF Pending
            <4> QED  BY <2>2, <4>1, JudgedStays
        <3>4. p = "read" /\ j.do = "remove" /\ i \notin misjudged' =>
                ServicesOf(L) \subseteq sv /\ sv \subseteq ServicesOf(L \cup j.alerts)
            BY <2>2, <2>4, <3>1 DEF Pending
        <3> QED  BY <2>2, <3>1, <3>2, <3>3, <3>4 DEF Pending, Judged
    <2> QED  BY <2>1, <2>3, <2>4
<1> QED  BY <1>1, <1>2 DEF Follows

\* The step of the only request that changes i.
LEMMA OnlyChanger ==
    ASSUME NEW i \in Incident, NEW c \in Client, Changes(c, i)',
           i \notin raced' => (\A d \in Client \ {c} : ~Changes(d, i)') /\ Pending(c, i)'
    PROVE  Counted(i)' /\ Follows(i)'
<1>1. Counted(i)'
    BY DEF Counted
<1>2. Follows(i)'
    BY DEF Follows
<1> QED  BY <1>1, <1>2

\* A request that changes the links of i while no other changes i.
LEMMA NotRaced ==
    ASSUME NEW c \in Client, NEW i \in Incident, Race(c, i), ~Changes(c, i), i \notin raced'
    PROVE  i \notin raced /\ \A d \in Client : ~Changes(d, i)
<1>1. ~\E d \in Client \ {c} : pc[d] \in {"read", "update"} /\ Head(jobs[d]).to = i
    BY DEF Race
<1> QED  BY <1>1 DEF Race, Changes

\* Where the others are.
LEMMA ChangesSame ==
    ASSUME NEW d \in Client, NEW i, jobs'[d] = jobs[d], pc'[d] = pc[d]
    PROVE  Changes(d, i)' <=> Changes(d, i)
BY DEF Changes

\* Nothing to do with the links of any incident.
LEMMA QuietStep ==
    ASSUME \A i \in Incident : Counted(i) /\ Follows(i), NEW c \in Client,
           pc[c] \notin {"read", "update"}, pc'[c] \notin {"read", "update"},
           \A d \in Client \ {c} : /\ pc'[d] = pc[d] /\ jobs'[d] = jobs[d]
                                   /\ new'[d] = new[d] /\ values'[d] = values[d],
           UNCHANGED <<linked, count, services, raced, misjudged>>,
           \A i \in Incident : forced[i] => forced'[i],
           \A i \in Incident : forced'[i] \/ severity'[i] = severity[i]
    PROVE  \A i \in Incident : Counted(i)' /\ Follows(i)'
<1> TAKE i \in Incident
<1>1. ~Changes(c, i) /\ ~Changes(c, i)'
    BY DEF Changes
<1>2. \A d \in Client : Changes(d, i)' <=> Changes(d, i)
    <2> TAKE d \in Client
    <2>1. CASE d = c
        BY <1>1, <2>1
    <2>2. CASE d # c
        BY <2>2, ChangesSame
    <2> QED  BY <2>1, <2>2
<1>3. \A d \in Client : Changes(d, i) =>
        pc'[d] = pc[d] /\ jobs'[d] = jobs[d] /\ new'[d] = new[d] /\ values'[d] = values[d]
    BY <1>1
<1> QED  BY <1>2, <1>3, QuietAt

\* A step of a request that works on another incident.
LEMMA QuietElsewhere ==
    ASSUME NEW i \in Incident, Counted(i), Follows(i), NEW c \in Client,
           ~Changes(c, i), ~Changes(c, i)',
           \A d \in Client \ {c} : /\ pc'[d] = pc[d] /\ jobs'[d] = jobs[d]
                                   /\ new'[d] = new[d] /\ values'[d] = values[d],
           linked'[i] = linked[i], count'[i] = count[i], services'[i] = services[i],
           severity'[i] = severity[i], forced' = forced,
           raced \subseteq raced', misjudged \subseteq misjudged'
    PROVE  Counted(i)' /\ Follows(i)'
<1>1. \A d \in Client : Changes(d, i)' <=> Changes(d, i)
    <2> TAKE d \in Client
    <2>1. CASE d = c
        BY <2>1
    <2>2. CASE d # c
        BY <2>2, ChangesSame
    <2> QED  BY <2>1, <2>2
<1>2. \A d \in Client : Changes(d, i) =>
        pc'[d] = pc[d] /\ jobs'[d] = jobs[d] /\ new'[d] = new[d] /\ values'[d] = values[d]
    OBVIOUS
<1> QED  BY <1>1, <1>2, QuietAt

LEMMA NextJobsQuiet ==
    ASSUME Typed, NEW c \in Client, NEW js, NEW d, NextJob(c, js, d)
    PROVE  /\ pc'[c] \notin {"read", "update"}
           /\ \A b \in Client \ {c} : /\ pc'[b] = pc[b] /\ jobs'[b] = jobs[b]
                                      /\ new'[b] = new[b] /\ values'[b] = values[b]
<1>1. values' = [values EXCEPT ![c] = NoValues]
    BY DEF NextJob
<1>2. \A b \in Client \ {c} : values'[b] = values[b]
    BY <1>1, OthersHold
<1> QED  BY <1>2, NextJobs

\* Choosing the alerts to add, and losing the race for them, changes no incident.
LEMMA ChooseFollows ==
    ASSUME Typed, \A i \in Incident : Counted(i) /\ Follows(i), NEW c \in Client,
           AddSelect(c) \/ AddCollides(c)
    PROVE  \A i \in Incident : Counted(i)' /\ Follows(i)'
<1>1. UNCHANGED <<linked, count, services, severity, forced, raced, misjudged>>
    BY DEF AddSelect, AddCollides, incidentVars, historyVars, linkHistory
<1>2. CASE AddSelect(c) /\ Head(jobs[c]).alerts \ linked[Head(jobs[c]).to] = {}
    <2>1. NextJob(c, Tail(jobs[c]), dirty[c]) /\ pc[c] = "link"
        BY <1>2 DEF AddSelect
    <2> QED  BY <1>1, <2>1, NextJobsQuiet, QuietStep
<1>3. CASE AddSelect(c) /\ Head(jobs[c]).alerts \ linked[Head(jobs[c]).to] # {}
    <2>1. PICK S : new' = [new EXCEPT ![c] = S]
        BY <1>3 DEF AddSelect
    <2>2. /\ pc[c] = "link" /\ pc' = [pc EXCEPT ![c] = "insert"] /\ UNCHANGED <<jobs, values>>
        BY <1>3 DEF AddSelect
    <2>3. /\ pc'[c] \notin {"read", "update"}
          /\ \A b \in Client \ {c} : /\ pc'[b] = pc[b] /\ jobs'[b] = jobs[b]
                                     /\ new'[b] = new[b] /\ values'[b] = values[b]
        BY <2>1, <2>2, OthersStay, OthersHold
    <2> QED  BY <1>1, <2>2, <2>3, QuietStep
<1>4. CASE AddCollides(c)
    <2>1. pc[c] = "insert" /\ new' = [new EXCEPT ![c] = {}] /\ UNCHANGED values
        BY <1>4 DEF AddCollides
    <2>2. PICK p \in {"link", "idle"} : pc' = [pc EXCEPT ![c] = p]
        BY <1>4 DEF AddCollides
    <2>3. \A b \in Client \ {c} : jobs'[b] = jobs[b]
        <3>1. CASE tries[c] < 3
            BY <1>4, <3>1 DEF AddCollides
        <3>2. CASE ~(tries[c] < 3)
            <4>1. jobs' = [jobs EXCEPT ![c] = << >>]
                BY <1>4, <3>2 DEF AddCollides
            <4> QED  BY <4>1, OthersStay
        <3> QED  BY <3>1, <3>2
    <2>4. /\ pc'[c] \notin {"read", "update"}
          /\ \A b \in Client \ {c} : /\ pc'[b] = pc[b] /\ jobs'[b] = jobs[b]
                                     /\ new'[b] = new[b] /\ values'[b] = values[b]
        BY <2>1, <2>2, <2>3, OthersStay, OthersHold
    <2> QED  BY <1>1, <2>1, <2>4, QuietStep
<1> QED  BY <1>2, <1>3, <1>4

LEMMA AddLinkFollows ==
    ASSUME Typed, \A i \in Incident : Counted(i) /\ Follows(i), NEW c \in Client, AddLink(c)
    PROVE  \A i \in Incident : Counted(i)' /\ Follows(i)'
<1>1. PICK at, S : at = Head(jobs[c]).to /\ S = new[c]
    OBVIOUS
<1>2. /\ pc[c] = "insert" /\ S \cap linked[at] = {}
      /\ linked' = [linked EXCEPT ![at] = @ \cup S] /\ pc' = [pc EXCEPT ![c] = "read"] /\ Race(c, at)
      /\ UNCHANGED <<count, services, severity, forced, new, misjudged, jobs, values>>
    BY <1>1 DEF AddLink
<1>3. at \in Incident /\ Head(jobs[c]).do = "add" /\ S # {}
    BY <1>1, <1>2, HeadFits, InsertFits
<1>4. /\ pc'[c] = "read" /\ new'[c] = S /\ jobs'[c] = jobs[c]
      /\ \A b \in Client \ {c} : /\ pc'[b] = pc[b] /\ jobs'[b] = jobs[b]
                                 /\ new'[b] = new[b] /\ values'[b] = values[b]
    BY <1>1, <1>2, OthersStay
<1>5. /\ linked'[at] = linked[at] \cup S
      /\ \A i \in Incident \ {at} : linked'[i] = linked[i]
    BY <1>2, <1>3 DEF Typed, RowsFit
<1>6. raced \subseteq raced'
    BY <1>2 DEF Race
<1>7. ASSUME NEW i \in Incident, i # at
      PROVE  Counted(i)' /\ Follows(i)'
    <2>1. ~Changes(c, i) /\ ~Changes(c, i)'
        BY <1>1, <1>2, <1>4, <1>7 DEF Changes
    <2> QED  BY <1>2, <1>4, <1>5, <1>6, <1>7, <2>1, QuietElsewhere
<1>8. ASSUME NEW i \in Incident, i = at
      PROVE  Counted(i)' /\ Follows(i)'
    <2>1. Changes(c, i)' /\ ~Changes(c, i)
        BY <1>1, <1>2, <1>4, <1>8 DEF Changes
    <2>2. ASSUME i \notin raced'
          PROVE  (\A d \in Client \ {c} : ~Changes(d, i)') /\ Pending(c, i)'
        <3>1. i \notin raced /\ \A d \in Client : ~Changes(d, i)
            BY <1>2, <1>8, <2>1, <2>2, NotRaced
        <3>2. \A d \in Client \ {c} : ~Changes(d, i)'
            BY <1>4, <3>1, ChangesSame
        <3>3. count[i] = Cardinality(linked[i]) /\ Judged(i, services[i], severity[i], linked[i])
            BY <3>1 DEF Counted, Follows
        <3>4. PICK L : L = linked[i] /\ linked'[i] \ S = L /\ S \subseteq linked'[i]
            BY <1>2, <1>5, <1>8
        <3>5. PICK sv, sy : sv = services[i] /\ sy = severity[i] /\ sv = services'[i] /\ sy = severity'[i]
            BY <1>2
        <3>6. Judged(i, sv, sy, L)
            BY <3>3, <3>4, <3>5
        <3>7. Judged(i, sv, sy, L)'
            BY <1>2, <3>6, JudgedStays
        <3>8. count'[i] = Cardinality(L)
            BY <1>2, <3>3, <3>4
        <3>9. pc'[c] = "read" /\ Head(jobs'[c]).do = "add"
            BY <1>3, <1>4
        <3>10. Pending(c, i)'
            BY <1>3, <1>4, <3>4, <3>5, <3>7, <3>8, <3>9 DEF Pending, Judged
        <3> QED  BY <3>2, <3>10
    <2> QED  BY <2>1, <2>2, OnlyChanger
<1> QED  BY <1>7, <1>8

\* A step of a request that changes i, after which only it does.
LEMMA ReadStep ==
    ASSUME Typed, \A i \in Incident : Counted(i) /\ Follows(i), NEW c \in Client,
           pc[c] = "read", pc' = [pc EXCEPT ![c] = "update"],
           NEW v, values' = [values EXCEPT ![c] = v],
           UNCHANGED <<linked, count, services, severity, forced, jobs, new, raced>>,
           NEW at \in Incident, at = Head(jobs[c]).to,
           misjudged \subseteq misjudged',
           at \notin raced => Judged(at, v.services, v.severity, linked[at])'
    PROVE  \A i \in Incident : Counted(i)' /\ Follows(i)'
<1>1. pc'[c] = "update" /\ \A b \in Client \ {c} : pc'[b] = pc[b] /\ jobs'[b] = jobs[b] /\ new'[b] = new[b]
    BY OthersStay
<1>2. values'[c] = v /\ \A b \in Client \ {c} : values'[b] = values[b]
    BY OthersHold
<1>3. ASSUME NEW i \in Incident, i # at
      PROVE  Counted(i)' /\ Follows(i)'
    <2>1. ~Changes(c, i) /\ ~Changes(c, i)'
        BY <1>3 DEF Changes
    <2> QED  BY <1>1, <1>2, <2>1, QuietElsewhere
<1>4. ASSUME NEW i \in Incident, i = at
      PROVE  Counted(i)' /\ Follows(i)'
    <2>1. Changes(c, i) /\ Changes(c, i)'
        BY <1>1, <1>4 DEF Changes
    <2>2. ASSUME i \notin raced'
          PROVE  (\A d \in Client \ {c} : ~Changes(d, i)') /\ Pending(c, i)'
        <3>1. \A d \in Client \ {c} : ~Changes(d, i)
            BY <2>1, <2>2 DEF Follows
        <3>2. \A d \in Client \ {c} : ~Changes(d, i)'
            BY <1>1, <3>1, ChangesSame
        <3>3. PICK L : L = linked'[i]
            OBVIOUS
        <3>4. Judged(i, v.services, v.severity, L)'
            BY <1>4, <2>2, <3>3 DEF Judged
        <3>5. Pending(c, i)'
            BY <1>1, <1>2, <3>3, <3>4 DEF Pending, Judged
        <3> QED  BY <3>2, <3>5
    <2> QED  BY <2>1, <2>2, OnlyChanger
<1> QED  BY <1>3, <1>4

\* The only request that changes the links of an incident.
LEMMA OneChanger ==
    ASSUME NEW i \in Incident, Follows(i), NEW c \in Client, Changes(c, i), i \notin raced
    PROVE  Pending(c, i)
BY DEF Follows

LEMMA ServicesOfBoth ==
    ASSUME NEW S, NEW T
    PROVE  ServicesOf(S) \cup ServicesOf(T) = ServicesOf(S \cup T)
BY DEF ServicesOf

\* An addition widens the services, and raises the severity, by the alerts added.
LEMMA AddReadFollows ==
    ASSUME Typed, \A i \in Incident : Counted(i) /\ Follows(i), NEW c \in Client, AddRead(c)
    PROVE  \A i \in Incident : Counted(i)' /\ Follows(i)'
<1>1. PICK i : i = Head(jobs[c]).to
    OBVIOUS
<1>2. PICK v : v = [services |-> services[i] \cup ServicesOf(new[c]), severity |-> Raised(i, new[c])]
    OBVIOUS
<1>3. /\ pc[c] = "read" /\ Head(jobs[c]).do = "add" /\ i \in Incident
      /\ values' = [values EXCEPT ![c] = v]
    BY <1>1, <1>2, AddReadValue
<1>4. /\ pc' = [pc EXCEPT ![c] = "update"]
      /\ UNCHANGED <<linked, count, services, severity, forced, jobs, new, raced, misjudged>>
    BY DEF AddRead, incidentVars, historyVars, linkHistory
<1>5. v.services = services[i] \cup ServicesOf(new[c]) /\ v.severity = Raised(i, new[c])
    BY <1>2
<1>6. ASSUME i \notin raced
      PROVE  Judged(i, v.services, v.severity, linked[i])
    <2>1. PICK old, n, L : old = linked[i] \ new[c] /\ n = new[c] /\ L = linked[i]
        OBVIOUS
    <2>2. Pending(c, i)
        BY <1>1, <1>3, <1>6, OneChanger DEF Changes
    <2>3. /\ n # {} /\ n \subseteq L /\ count[i] = Cardinality(old)
          /\ Judged(i, services[i], severity[i], old)
        BY <1>3, <2>1, <2>2 DEF Pending
    <2>4. L = old \cup n /\ L \subseteq Alert
        BY <1>3, <2>1, <2>3, RowsOfOne
    <2>5. count[i] # 0 <=> old # {}
        BY <2>3, <2>4, CountFact
    <2>6. i \notin misjudged => v.services = ServicesOf(L)
        <3>1. ServicesOf(old) \cup ServicesOf(n) = ServicesOf(L)
            BY <2>4, ServicesOfBoth
        <3> QED  BY <1>5, <2>1, <2>3, <3>1 DEF Judged
    <2>7. ASSUME ~forced[i]
          PROVE  v.severity = Worst(L)
        <3>1. v.severity = IF count[i] # 0 THEN Max({severity[i], Worst(n)}) ELSE Worst(n)
            BY <1>5, <2>1, <2>7 DEF Raised
        <3>2. CASE old # {}
            <4>1. severity[i] = Worst(old)
                BY <2>3, <2>7, <3>2 DEF Judged
            <4>2. Max({Worst(old), Worst(n)}) = Worst(L)
                <5>1. old \subseteq Alert /\ n \subseteq Alert
                    BY <2>4
                <5>2. Max({Worst(old), Worst(n)}) = Worst(old \cup n)
                    BY <2>3, <3>2, <5>1, WorstOfBoth
                <5> QED  BY <2>4, <5>2
            <4> QED  BY <2>5, <3>1, <3>2, <4>1, <4>2
        <3>3. CASE old = {}
            <4>1. L = n
                BY <2>4, <3>3
            <4> QED  BY <2>5, <3>1, <3>3, <4>1
        <3> QED  BY <3>2, <3>3
    <2> QED  BY <2>1, <2>6, <2>7 DEF Judged
<1>7. i \notin raced => Judged(i, v.services, v.severity, linked[i])'
    BY <1>4, <1>6 DEF Judged
<1> QED  BY <1>1, <1>3, <1>4, <1>7, ReadStep

\* A removal takes links, and nothing yet of what is stored.
LEMMA RemoveLinkFollows ==
    ASSUME Typed, \A i \in Incident : Counted(i) /\ Follows(i), NEW c \in Client, RemoveLink(c)
    PROVE  \A i \in Incident : Counted(i)' /\ Follows(i)'
<1>1. PICK j : j = Head(jobs[c])
    OBVIOUS
<1>2. /\ pc[c] = "link" /\ j.do = "remove"
      /\ linked' = [linked EXCEPT ![j.to] = @ \ j.alerts] /\ pc' = [pc EXCEPT ![c] = "read"]
      /\ Race(c, j.to)
      /\ UNCHANGED <<count, services, severity, forced, jobs, new, values, misjudged>>
    BY <1>1 DEF RemoveLink
<1>3. j.to \in Incident
    BY <1>1, <1>2, HeadFits
<1>4. /\ pc'[c] = "read" /\ jobs'[c] = jobs[c]
      /\ \A b \in Client \ {c} : /\ pc'[b] = pc[b] /\ jobs'[b] = jobs[b]
                                 /\ new'[b] = new[b] /\ values'[b] = values[b]
    BY <1>2, OthersStay
<1>5. /\ linked'[j.to] = linked[j.to] \ j.alerts
      /\ \A i \in Incident \ {j.to} : linked'[i] = linked[i]
    BY <1>2, <1>3 DEF Typed, RowsFit
<1>6. raced \subseteq raced'
    BY <1>2 DEF Race
<1>7. ASSUME NEW i \in Incident, i # j.to
      PROVE  Counted(i)' /\ Follows(i)'
    <2>1. ~Changes(c, i) /\ ~Changes(c, i)'
        BY <1>1, <1>2, <1>4, <1>7 DEF Changes
    <2> QED  BY <1>2, <1>4, <1>5, <1>6, <1>7, <2>1, QuietElsewhere
<1>8. ASSUME NEW i \in Incident, i = j.to
      PROVE  Counted(i)' /\ Follows(i)'
    <2>1. Changes(c, i)' /\ ~Changes(c, i)
        BY <1>1, <1>2, <1>4, <1>8 DEF Changes
    <2>2. ASSUME i \notin raced'
          PROVE  (\A d \in Client \ {c} : ~Changes(d, i)') /\ Pending(c, i)'
        <3>1. i \notin raced /\ \A d \in Client : ~Changes(d, i)
            BY <1>2, <1>8, <2>1, <2>2, NotRaced
        <3>2. \A d \in Client \ {c} : ~Changes(d, i)'
            BY <1>4, <3>1, ChangesSame
        <3>3. PICK L, sv : L = linked'[i] /\ sv = services[i]
            OBVIOUS
        <3>4. i \notin misjudged => ServicesOf(L) \subseteq sv /\ sv \subseteq ServicesOf(L \cup j.alerts)
            <4>1. i \notin misjudged => sv = ServicesOf(linked[i])
                BY <3>1, <3>3 DEF Follows, Judged
            <4>2. L \subseteq linked[i] /\ linked[i] \subseteq L \cup j.alerts
                BY <1>5, <1>8, <3>3
            <4> QED  BY <4>1, <4>2 DEF ServicesOf
        <3>5. pc'[c] = "read" /\ Head(jobs'[c]) = j
            BY <1>1, <1>4
        <3>6. Pending(c, i)'
            BY <1>2, <3>3, <3>4, <3>5 DEF Pending
        <3> QED  BY <3>2, <3>6
    <2> QED  BY <2>1, <2>2, OnlyChanger
<1> QED  BY <1>7, <1>8

-----------------------------------------------------------------------------
\* A sequence of the elements of a finite set holds every one of them.
LEMMA AllInSeq ==
    ASSUME NEW S, IsFiniteSet(S), NEW s \in SetToSeqs(S)
    PROVE  DOMAIN s = 1..Cardinality(S) /\ \A x \in S : \E k \in DOMAIN s : s[k] = x
<1> DEFINE D == 1..Cardinality(S)
<1>1. Cardinality(S) \in Nat
    BY FS_CardinalityType
<1>2. IsFiniteSet(D) /\ Cardinality(D) = Cardinality(S)
    BY <1>1, FS_Interval
<1>3. s \in [D -> S] /\ \A i, j \in D : i # j => s[i] # s[j]
    BY DEF SetToSeqs
<1>4. s \in Injection(D, S)
    BY <1>3 DEF Injection, IsInjective
<1>5. s \in Surjection(D, S)
    BY <1>2, <1>4, FS_Injection
<1> QED  BY <1>3, <1>5 DEF Surjection

\* Where no row is left, nothing is found.
LEMMA NoneFound ==
    ASSUME NEW S, IsFiniteSet(S), NEW wanted \in SetToSeqs(S), NEW rows \in SetToSeqs({})
    PROVE  S \subseteq NotFound(wanted, rows)
<1>1. DOMAIN rows = {}
    <2>1. DOMAIN rows = 1..0
        BY FS_EmptySet, AllInSeq
    <2> QED  BY <2>1
<1>2. DOMAIN wanted = 1..Cardinality(S) /\ \A x \in S : \E k \in DOMAIN wanted : wanted[k] = x
    BY AllInSeq
<1>3. \A k \in DOMAIN wanted : ~Found(k, wanted, rows)
    <2> SUFFICES ASSUME NEW k \in DOMAIN wanted, NEW at \in [1..k -> DOMAIN rows] PROVE FALSE
        BY DEF Found
    <2>1. Cardinality(S) \in Nat
        BY FS_CardinalityType
    <2>2. 1 \in 1..k
        BY <1>2, <2>1
    <2>3. at[1] \in DOMAIN rows
        BY <2>2
    <2> QED  BY <1>1, <2>3
<1>4. NotFound(wanted, rows) = {wanted[n] : n \in DOMAIN wanted}
    BY <1>3 DEF NotFound
<1> QED  BY <1>2, <1>4

\* Where nothing is wanted, or the only thing wanted is there, all is found.
LEMMA AllFound ==
    ASSUME NEW S, IsFiniteSet(S), Cardinality(S) <= 1, NEW wanted \in SetToSeqs(S),
           NEW rows \in SetToSeqs(S)
    PROVE  NotFound(wanted, rows) = {}
<1>1. /\ DOMAIN wanted = 1..Cardinality(S) /\ DOMAIN rows = 1..Cardinality(S)
      /\ wanted \in [1..Cardinality(S) -> S] /\ rows \in [1..Cardinality(S) -> S]
    BY AllInSeq DEF SetToSeqs
<1>2. Cardinality(S) \in Nat
    BY FS_CardinalityType
<1>3. CASE Cardinality(S) = 0
    <2>1. DOMAIN wanted = {}
        BY <1>1, <1>3
    <2> QED  BY <2>1 DEF NotFound
<1>4. CASE Cardinality(S) = 1
    <2>1. PICK x : S = {x}
        BY <1>4, FS_Singleton
    <2>2. DOMAIN wanted = 1..1 /\ DOMAIN rows = 1..1 /\ wanted[1] = x /\ rows[1] = x
        BY <1>1, <1>4, <2>1
    <2>3. Found(1, wanted, rows)
        <3> DEFINE at == [k \in 1..1 |-> 1]
        <3>1. at \in [1..1 -> DOMAIN rows]
            BY <2>2
        <3>2. \A k \in 1..1 : rows[at[k]] = wanted[k]
            BY <2>2
        <3>3. \A k, l \in 1..1 : k < l => at[k] < at[l]
            OBVIOUS
        <3> HIDE DEF at
        <3> QED  BY <3>1, <3>2, <3>3 DEF Found
    <2>4. \A k \in DOMAIN wanted : Found(k, wanted, rows)
        BY <2>2, <2>3
    <2> QED  BY <2>4 DEF NotFound
<1> QED  BY <1>2, <1>3, <1>4

\* A removal takes away the services that the alerts left do not have, except
\* where it is misjudged.
LEMMA RemoveReadFollows ==
    ASSUME Typed, \A i \in Incident : Counted(i) /\ Follows(i), NEW c \in Client, RemoveRead(c)
    PROVE  \A i \in Incident : Counted(i)' /\ Follows(i)'
<1>1. PICK i, A : i = Head(jobs[c]).to /\ A = Head(jobs[c]).alerts
    OBVIOUS
<1>2. PICK gone, existed : gone = ServicesOf(A) /\ existed = gone \cap ServicesOf(linked[i])
    OBVIOUS
<1>3. /\ pc[c] = "read" /\ Head(jobs[c]).do = "remove" /\ i \in Incident /\ A \in SUBSET Alert
    <2>1. pc[c] = "read" /\ Head(jobs[c]).do = "remove"
        BY DEF RemoveRead
    <2> QED  BY <1>1, <2>1, HeadFits
<1>4. /\ pc' = [pc EXCEPT ![c] = "update"]
      /\ UNCHANGED <<linked, count, services, severity, forced, jobs, new, raced>>
    BY DEF RemoveRead, incidentVars, linkHistory
<1>5. /\ misjudged' = IF Cardinality(gone) > 1 /\ existed # {} THEN misjudged \cup {i} ELSE misjudged
      /\ \E wanted \in SetToSeqs(gone), rows \in SetToSeqs(existed) :
            values' = [values EXCEPT ![c] = [services |-> services[i] \ NotFound(wanted, rows),
                                             severity |-> Lowered(i)]]
    <2>1. misjudged' = IF Cardinality(gone) > 1 /\ existed # {} THEN misjudged \cup {i} ELSE misjudged
        BY <1>1, <1>2 DEF RemoveRead
    <2>2. \E wanted \in SetToSeqs(gone), rows \in SetToSeqs(existed) :
            values' = [values EXCEPT ![c] = [services |-> services[i] \ NotFound(wanted, rows),
                                             severity |-> Lowered(i)]]
        BY <1>1, <1>2, RemoveReadValue
    <2> QED  BY <2>1, <2>2
<1>6. PICK wanted \in SetToSeqs(gone), rows \in SetToSeqs(existed) :
            values' = [values EXCEPT ![c] = [services |-> services[i] \ NotFound(wanted, rows),
                                             severity |-> Lowered(i)]]
    BY <1>5
<1>7. PICK v : v = [services |-> services[i] \ NotFound(wanted, rows), severity |-> Lowered(i)]
    OBVIOUS
<1>8. v.services = services[i] \ NotFound(wanted, rows) /\ v.severity = Lowered(i)
    BY <1>7
<1>9. ASSUME i \notin raced
      PROVE  Judged(i, v.services, v.severity, linked[i])'
    <2>1. PICK L, sv : L = linked[i] /\ L = linked'[i] /\ sv = services[i]
        BY <1>4
    <2>2. Pending(c, i)
        BY <1>1, <1>3, <1>9, OneChanger DEF Changes
    <2>3. ASSUME i \notin misjudged'
          PROVE  v.services = ServicesOf(L)
        <3>1. i \notin misjudged /\ (Cardinality(gone) <= 1 \/ existed = {})
            <4>1. Cardinality(gone) \in Nat
                BY <1>2, <1>3, ServicesFinite
            <4> QED  BY <1>5, <2>3, <4>1
        <3>2. ServicesOf(L) \subseteq sv /\ sv \subseteq ServicesOf(L \cup A)
            BY <1>1, <1>3, <2>1, <2>2, <3>1 DEF Pending
        <3>3. sv \subseteq ServicesOf(L) \cup gone /\ IsFiniteSet(gone)
            BY <1>2, <1>3, <3>2, ServicesOfBoth, ServicesFinite
        <3>4. existed = gone \cap ServicesOf(L)
            BY <1>2, <2>1
        <3>5. CASE existed = {}
            <4>1. gone \subseteq NotFound(wanted, rows)
                BY <1>6, <3>3, <3>5, NoneFound
            <4>2. NotFound(wanted, rows) \subseteq gone
                <5>1. wanted \in [1..Cardinality(gone) -> gone]
                    BY <1>6 DEF SetToSeqs
                <5> QED  BY <5>1 DEF NotFound
            <4> QED  BY <1>8, <2>1, <3>2, <3>3, <3>4, <3>5, <4>1, <4>2
        <3>6. CASE existed # {} /\ Cardinality(gone) <= 1
            <4>1. gone # {} /\ existed \subseteq gone
                BY <3>4, <3>6
            <4>2. Cardinality(gone) \in Nat /\ Cardinality(gone) # 0
                BY <3>3, <4>1, FS_CardinalityType, FS_EmptySet
            <4>3. PICK x : gone = {x}
                <5>1. Cardinality(gone) = 1
                    BY <3>6, <4>2
                <5> QED  BY <3>3, <5>1, FS_Singleton
            <4>4. existed = gone
                BY <3>6, <4>1, <4>3
            <4>5. NotFound(wanted, rows) = {}
                BY <1>6, <3>3, <3>6, <4>4, AllFound
            <4> QED  BY <1>8, <2>1, <3>2, <3>3, <3>4, <4>4, <4>5
        <3> QED  BY <3>1, <3>5, <3>6
    <2>4. ~forced'[i] /\ L # {} => v.severity = Worst(L)
        BY <1>4, <1>8, <2>1 DEF Lowered
    <2> QED  BY <2>1, <2>3, <2>4 DEF Judged
<1>10. misjudged \subseteq misjudged'
    BY <1>5
<1> QED  BY <1>1, <1>3, <1>4, <1>6, <1>7, <1>9, <1>10, ReadStep

\* The UPDATE stores what was computed, and counts the links there are.
LEMMA UpdateFollows ==
    ASSUME Typed, \A i \in Incident : Counted(i) /\ Follows(i), NEW c \in Client, Update(c)
    PROVE  \A i \in Incident : Counted(i)' /\ Follows(i)'
<1>1. PICK at : at = Head(jobs[c]).to
    OBVIOUS
<1>2. /\ pc[c] = "update"
      /\ count' = [count EXCEPT ![at] = Cardinality(linked[at])]
      /\ services' = [services EXCEPT ![at] = values[c].services]
      /\ severity' = [severity EXCEPT ![at] = values[c].severity]
      /\ NextJob(c, Tail(jobs[c]), dirty[c])
      /\ UNCHANGED <<linked, forced, raced, misjudged>>
    BY <1>1 DEF Update, historyVars, linkHistory
<1>3. at \in Incident
    BY <1>1, <1>2, HeadFits
<1>4. /\ pc'[c] \notin {"read", "update"}
      /\ \A b \in Client \ {c} : /\ pc'[b] = pc[b] /\ jobs'[b] = jobs[b]
                                 /\ new'[b] = new[b] /\ values'[b] = values[b]
    BY <1>2, NextJobsQuiet
<1>5. ASSUME NEW i \in Incident, i # at
      PROVE  Counted(i)' /\ Follows(i)'
    <2>1. ~Changes(c, i) /\ ~Changes(c, i)'
        BY <1>1, <1>4, <1>5 DEF Changes
    <2>2. count'[i] = count[i] /\ services'[i] = services[i] /\ severity'[i] = severity[i]
        BY <1>2, <1>5 DEF Typed, RowsFit
    <2> QED  BY <1>2, <1>4, <2>1, <2>2, QuietElsewhere
<1>6. ASSUME NEW i \in Incident, i = at
      PROVE  Counted(i)' /\ Follows(i)'
    <2>1. PICK L, sv, sy : L = linked[i] /\ sv = values[c].services /\ sy = values[c].severity
        OBVIOUS
    <2>2. linked'[i] = L /\ count'[i] = Cardinality(L) /\ services'[i] = sv /\ severity'[i] = sy
        BY <1>2, <1>6, <2>1 DEF Typed, RowsFit
    <2>3. Counted(i)'
        BY <2>2 DEF Counted
    <2>4. ASSUME i \notin raced'
          PROVE  (\A d \in Client : ~Changes(d, i)') /\ Judged(i, sv, sy, L)'
        <3>1. Changes(c, i) /\ i \notin raced
            BY <1>1, <1>2, <1>6, <2>4 DEF Changes
        <3>2. \A d \in Client \ {c} : ~Changes(d, i)
            BY <3>1 DEF Follows
        <3>3. \A d \in Client : ~Changes(d, i)'
            <4> TAKE d \in Client
            <4>1. CASE d = c
                BY <1>4, <4>1 DEF Changes
            <4>2. CASE d # c
                BY <1>4, <3>2, <4>2, ChangesSame
            <4> QED  BY <4>1, <4>2
        <3>4. Judged(i, sv, sy, L)
            <4>1. Pending(c, i)
                BY <3>1, OneChanger
            <4> QED  BY <1>2, <2>1, <4>1 DEF Pending
        <3>5. Judged(i, sv, sy, L)'
            BY <1>2, <3>4, JudgedStays
        <3> QED  BY <3>3, <3>5
    <2>5. Follows(i)'
        BY <2>2, <2>4 DEF Follows, Judged
    <2> QED  BY <2>3, <2>5
<1> QED  BY <1>5, <1>6

LEMMA AsksFollows ==
    ASSUME Typed, \A i \in Incident : Counted(i) /\ Follows(i), NEW c \in Client, Asks(c)
    PROVE  \A i \in Incident : Counted(i)' /\ Follows(i)'
<1>1. PICK js : Start(c, js)
    BY AsksStart
<1>2. /\ pc[c] = "idle" /\ jobs' = [jobs EXCEPT ![c] = js] /\ pc' = [pc EXCEPT ![c] = "link"]
      /\ UNCHANGED <<linked, count, services, severity, forced, new, values, raced, misjudged>>
    BY <1>1 DEF Start, MayStart, incidentVars, historyVars, linkHistory
<1>3. /\ pc'[c] = "link"
      /\ \A b \in Client \ {c} : /\ pc'[b] = pc[b] /\ jobs'[b] = jobs[b]
                                 /\ new'[b] = new[b] /\ values'[b] = values[b]
    BY <1>2, OthersStay
<1> QED  BY <1>2, <1>3, QuietStep

\* A user's severity is kept and not judged; the other single requests change
\* nothing that follows the links.
LEMMA AsideFollows ==
    ASSUME Typed, \A i \in Incident : Counted(i) /\ Follows(i), NEW c \in Client, Aside(c)
    PROVE  \A i \in Incident : Counted(i)' /\ Follows(i)'
<1>1. UNCHANGED <<linked, count, services, jobs, new, values, raced, misjudged>>
    BY DEF Aside, FinishMerge, FinishRaises, change_status, update_severity, delete_incident_by_id, ResolveAlert,
           check_incident_resolution, JobIdle, ClientIdle, incidentVars, historyVars, linkHistory
<1>2. pc[c] \notin {"read", "update"} /\ \E p \in {"idle", "check"} : pc' = [pc EXCEPT ![c] = p]
    <2>1. CASE FinishMerge(c) \/ FinishRaises(c) \/ check_incident_resolution(c)
        BY <2>1 DEF FinishMerge, FinishRaises, check_incident_resolution
    <2>2. CASE ResolveAlert(c)
        BY <2>2 DEF ResolveAlert, Request, MayStart
    <2>3. CASE change_status(c) \/ update_severity(c) \/ delete_incident_by_id(c)
        <3>1. pc[c] = "idle" /\ UNCHANGED pc
            BY <2>3 DEF change_status, update_severity, delete_incident_by_id, Request, MayStart
        <3>2. pc' = [pc EXCEPT ![c] = "idle"]
            BY <3>1 DEF Typed, ClientsFit
        <3> QED  BY <3>1, <3>2
    <2> QED  BY <2>1, <2>2, <2>3 DEF Aside
<1>3. pc'[c] \notin {"read", "update"} /\ \A d \in Client \ {c} : pc'[d] = pc[d]
    BY <1>2, OthersStay
<1>4. \A i \in Incident : (forced[i] => forced'[i]) /\ (forced'[i] \/ severity'[i] = severity[i])
    <2>1. CASE update_severity(c)
        <3>1. PICK i \in Incident, f \in Alert :
                severity' = [severity EXCEPT ![i] = Severity[f]] /\ forced' = [forced EXCEPT ![i] = TRUE]
            BY <2>1 DEF update_severity
        <3>2. /\ forced'[i] /\ \A k \in Incident \ {i} : forced'[k] = forced[k]
              /\ \A k \in Incident \ {i} : severity'[k] = severity[k]
            BY <3>1 DEF Typed, RowsFit
        <3> QED  BY <3>2
    <2>2. CASE ~update_severity(c)
        <3>1. UNCHANGED <<severity, forced>>
            BY <2>2 DEF Aside, FinishMerge, FinishRaises, change_status, delete_incident_by_id, ResolveAlert,
                        check_incident_resolution, incidentVars
        <3> QED  BY <3>1
    <2> QED  BY <2>1, <2>2
<1> QED  BY <1>1, <1>2, <1>3, <1>4, QuietStep

LEMMA StutterFollows ==
    ASSUME Typed, \A i \in Incident : Counted(i) /\ Follows(i), Refire \/ UNCHANGED vars
    PROVE  \A i \in Incident : Counted(i)' /\ Follows(i)'
<1>1. UNCHANGED <<linked, count, services, severity, forced, pc, jobs, new, values, raced, misjudged>>
    BY DEF Refire, vars, incidentVars, clientVars, historyVars, linkHistory
<1> TAKE i \in Incident
<1>2. \A d \in Client : Changes(d, i)' <=> Changes(d, i)
    BY <1>1, ChangesSame
<1> QED  BY <1>1, <1>2, QuietAt

LEMMA InitAggregates == Init => AggregatesInv
<1> SUFFICES ASSUME Init, NEW i \in Incident PROVE Counted(i) /\ Follows(i)
    BY DEF AggregatesInv
<1>1. \A c \in Client : ~Changes(c, i)
    BY DEF Init, Changes
<1>2. /\ count[i] = Cardinality(linked[i]) /\ services[i] = ServicesOf(linked[i])
      /\ linked[i] # {} => severity[i] = Worst(linked[i])
    BY DEF Init
<1> QED  BY <1>1, <1>2 DEF Counted, Follows, Judged

LEMMA NextAggregates == Typed /\ AggregatesInv /\ [Next]_vars => AggregatesInv'
<1> SUFFICES ASSUME Typed, AggregatesInv, [Next]_vars, ~faulty' PROVE \A i \in Incident : Counted(i)' /\ Follows(i)'
    BY DEF AggregatesInv
<1>1. \A c \in Client : ~Failing(c)
    BY DEF Failing, AddRetried, AddRaises, AddAborts, RemoveRaises, Fault
<1>2. ~faulty
    <2>1. ASSUME NEW c \in Client, Asks(c)
          PROVE  faulty' = faulty
        BY <2>1 DEF Asks, add_alerts_to_incident, delete_alerts_from_incident, split_incident, merge_incidents, Start
    <2>2. ASSUME NEW c \in Client, Job(c)
          PROVE  faulty' = faulty
        BY <2>2 DEF Job, AddSelect, AddLink, AddCollides, AddRead, RemoveLink, RemoveRead, Update
    <2>3. ASSUME NEW c \in Client, Aside(c)
          PROVE  faulty' = faulty
        BY <2>3 DEF Aside, FinishMerge, FinishRaises, change_status, update_severity, delete_incident_by_id, ResolveAlert,
                    check_incident_resolution, JobIdle, ClientIdle
    <2>4. ASSUME Refire \/ UNCHANGED vars
          PROVE  faulty' = faulty
        BY <2>4 DEF Refire, vars
    <2> QED  BY <1>1, <2>1, <2>2, <2>3, <2>4, NextKinds
<1>3. \A i \in Incident : Counted(i) /\ Follows(i)
    BY <1>2 DEF AggregatesInv
<1>4. ASSUME NEW c \in Client, Job(c)
      PROVE  \A i \in Incident : Counted(i)' /\ Follows(i)'
    BY <1>3, <1>4, ChooseFollows, AddLinkFollows, AddReadFollows, RemoveLinkFollows, RemoveReadFollows, UpdateFollows DEF Job
<1> QED  BY <1>1, <1>3, <1>4, NextKinds, AsksFollows, AsideFollows, StutterFollows

\* Once nobody is changing an incident and while no statement has failed, it counts
\* the alerts linked to it; where no two requests changed it at once, its severity
\* is that of the worst of them unless a user forced one, and its services are
\* theirs.  A forced severity stays, whatever fails and whoever overlaps, but where
\* a request had read the incident before it was forced.
THEOREM AggregatesTheorem == Spec => []AggregatesFollowLinks
<1>1. Init => Typed /\ AggregatesInv
    BY InitTyped, InitAggregates
<1>2. Typed /\ AggregatesInv /\ [Next]_vars => Typed' /\ AggregatesInv'
    BY NextTyped, NextAggregates
<1>3. AggregatesInv => CountMatchesLinks /\ SeverityIsWorst /\ ServicesAreOfAlerts
    <2> SUFFICES ASSUME AggregatesInv, NEW i \in Incident, ~Busy(i), ~faulty
                 PROVE  /\ count[i] = Cardinality(linked[i])
                        /\ i \notin raced /\ ~forced[i] /\ linked[i] # {} => severity[i] = Worst(linked[i])
                        /\ i \notin raced /\ i \notin misjudged => services[i] = ServicesOf(linked[i])
        BY DEF CountMatchesLinks, SeverityIsWorst, ServicesAreOfAlerts
    <2>1. \A c \in Client : ~Changes(c, i)
        BY DEF Busy, Changes
    <2>2. Counted(i) /\ Follows(i)
        BY DEF AggregatesInv
    <2> QED  BY <2>1, <2>2 DEF Counted, Follows, Judged
<1>4. ForcedInv => ForcedStands
    BY DEF ForcedInv
<1> QED  BY <1>1, <1>2, <1>3, <1>4, ForcedTheorem, PTL DEF Spec, AggregatesFollowLinks

-----------------------------------------------------------------------------

(***************************************************************************)
(* IncidentDesk: for any sets of incidents, requests, users and statuses,  *)
(* every assignee is on record, and a note stands until a request replaces all *)
(* enrichments, sends None for it, or writes what it had read before the note *)
(* was there.                                                              *)
(***************************************************************************)

\* The enrichments a request can store.
Value == {"text", "", Null, "prod"}
Keyed == UNION {[D -> Value] : D \in SUBSET {"note", "env"}}
WithStatus == {[status |-> s] : s \in Status}

\* What a request holds between its steps, by the step it is at.
Fits(step, fm) ==
    /\ DOMAIN fm = {"on", "todo", "user", "body", "force", "read"}
    /\ fm.on \in Incident \cup {NoIncident} /\ fm.user \in User \cup {NoUser}
    /\ step \in {"status", "assign", "enrich", "merge"} => fm.on \in Incident
    /\ step = "status" => fm.body \in WithStatus
    /\ step = "assign" => fm.body \in WithStatus \cup {[status |-> Null], << >>}
    /\ step \in {"enrich", "merge"} =>
         /\ fm.body \in Keyed /\ fm.force \in BOOLEAN
         /\ fm.force = FALSE => fm.body \in Bodies
    /\ step = "merge" => fm.read \in Keyed \cup {NoEnrichments}

Steps == {"idle", "delete", "status", "assign", "enrich", "merge"}
RequestsFit ==
    /\ deskPc \in [Client -> Steps] /\ DOMAIN form = Client
    /\ \A c \in Client : Fits(deskPc[c], form[c])
    /\ deskOps \in [Client -> 0..MaxRequests]

DeskRowsFit ==
    /\ deskStatus \in [Incident -> {"none", "firing", "deleted"} \cup Status]
    /\ assignee \in [Incident -> User \cup {NoUser}] /\ audits \subseteq Incident \X User
    /\ enrichments \in [Incident -> Keyed \cup {NoEnrichments}]
    /\ DOMAIN given = Incident /\ noted \subseteq Incident

DeskTyped == RequestsFit /\ DeskRowsFit

\* Whoever a request is about to assign is on record already; its incident is
\* there, so that nobody creates it again.
OnRecord(i, u) == u \in {NoUser, given[i]} \/ <<i, u>> \in audits
AssignmentsAreOnRecord ==
    \A c \in Client : deskPc[c] = "assign" => Exists(form[c].on) /\ OnRecord(form[c].on, form[c].user)

RecordInv == AssigneeIsOnRecord /\ AssignmentsAreOnRecord

-----------------------------------------------------------------------------
\* A set of enrichments is a function on some of the keys.
LEMMA KeyedIff ==
    ASSUME NEW p
    PROVE  p \in Keyed <=> /\ DOMAIN p \subseteq {"note", "env"}
                          /\ p = [k \in DOMAIN p |-> p[k]]
                          /\ \A k \in DOMAIN p : p[k] \in Value
<1>1. ASSUME p \in Keyed
      PROVE  /\ DOMAIN p \subseteq {"note", "env"} /\ p = [k \in DOMAIN p |-> p[k]]
             /\ \A k \in DOMAIN p : p[k] \in Value
  <2>1. PICK D \in SUBSET {"note", "env"} : p \in [D -> Value]
    BY <1>1 DEF Keyed
  <2> QED BY <2>1
<1>2. ASSUME DOMAIN p \subseteq {"note", "env"}, p = [k \in DOMAIN p |-> p[k]],
             \A k \in DOMAIN p : p[k] \in Value
      PROVE  p \in Keyed
  <2>1. p \in [DOMAIN p -> Value]
    BY <1>2
  <2> QED BY <1>2, <2>1 DEF Keyed
<1> QED BY <1>1, <1>2

\* One key and its value.
LEMMA OneKey ==
    ASSUME NEW v \in Value, NEW r, r = [note |-> v] \/ r = [env |-> v]
    PROVE  r \in Keyed
<1>1. CASE r = [note |-> v]
  <2>1. DOMAIN r = {"note"} /\ r["note"] = v
    BY <1>1
  <2>2. r = [k \in {"note"} |-> r[k]]
    BY <1>1
  <2> QED BY <2>1, <2>2, KeyedIff
<1>2. CASE r = [env |-> v]
  <2>1. DOMAIN r = {"env"} /\ r["env"] = v
    BY <1>2
  <2>2. r = [k \in {"env"} |-> r[k]]
    BY <1>2
  <2> QED BY <2>1, <2>2, KeyedIff
<1> QED BY <1>1, <1>2

\* The bodies of a request can be stored.
LEMMA BodyKeyed == Bodies \subseteq Keyed
<1>1. "text" \in Value /\ "" \in Value /\ Null \in Value /\ "prod" \in Value
  BY DEF Value
<1>2. /\ [note |-> "text"] \in Keyed /\ [note |-> ""] \in Keyed
      /\ [note |-> Null] \in Keyed /\ [env |-> "prod"] \in Keyed
  BY <1>1, OneKey
<1> QED BY <1>2 DEF Bodies

\* What is left of storable enrichments can be stored.
LEMMA OnlyKeyed ==
    ASSUME NEW p, NEW K, DOMAIN p \subseteq {"note", "env"}, \A k \in DOMAIN p : p[k] \in Value
    PROVE  Only(p, K) \in Keyed
<1> DEFINE o == Only(p, K)
<1>1. /\ DOMAIN o \subseteq {"note", "env"} /\ o = [k \in DOMAIN o |-> o[k]]
      /\ \A k \in DOMAIN o : o[k] \in Value
  BY DEF Only
<1> HIDE DEF o
<1>2. o \in Keyed
  BY <1>1, KeyedIff
<1> QED BY <1>2 DEF o

\* What _enrich_incident writes can be stored again.
LEMMA MergeKeyed ==
    ASSUME NEW old \in Keyed, NEW p \in Keyed, NEW force \in BOOLEAN
    PROVE  Merge(old, p, force) \in Keyed
<1> DEFINE kept == IF Text(old) /\ ~Text(p) THEN [note |-> old["note"]] ELSE << >>
           whole == IF force THEN p ELSE Over(kept, Over(p, old))
<1>1. /\ DOMAIN old \subseteq {"note", "env"} /\ \A k \in DOMAIN old : old[k] \in Value
      /\ DOMAIN p \subseteq {"note", "env"} /\ \A k \in DOMAIN p : p[k] \in Value
  BY KeyedIff
<1>2. DOMAIN kept \subseteq {"note", "env"} /\ \A k \in DOMAIN kept : kept[k] \in Value
  <2>1. CASE Text(old) /\ ~Text(p)
    <3>1. kept = [note |-> old["note"]] /\ old["note"] \in Value
      BY <1>1, <2>1 DEF Text
    <3>2. kept \in Keyed
      BY <3>1, OneKey
    <3> HIDE DEF kept
    <3> QED BY <3>2, KeyedIff
  <2>2. CASE ~(Text(old) /\ ~Text(p))
    <3>1. DOMAIN kept = {}
      BY <2>2
    <3> QED BY <3>1
  <2> QED BY <2>1, <2>2
<1> HIDE DEF kept
<1>3. DOMAIN whole \subseteq {"note", "env"} /\ \A k \in DOMAIN whole : whole[k] \in Value
  BY <1>1, <1>2 DEF Over
<1>4. Merge(old, p, force) = Only(whole, {k \in DOMAIN whole : ~(k \in DOMAIN p /\ p[k] = Null)})
  BY DEF Merge, kept
<1> HIDE DEF whole
<1> QED BY <1>3, <1>4, OnlyKeyed

\* A form filled in from NoForm holds what it was filled in with.
LEMMA NoFormFits == Fits("idle", NoForm)
BY DEF Fits, NoForm

\* A request that ends leaves the others as they are.
LEMMA CloseFits ==
    ASSUME RequestsFit, NEW c \in Client, Close(c), UNCHANGED deskOps
    PROVE  RequestsFit'
<1> USE DEF RequestsFit, Steps
<1>1. deskPc' \in [Client -> Steps] /\ DOMAIN form' = Client
  BY DEF Close
<1>2. ASSUME NEW d \in Client PROVE Fits(deskPc'[d], form'[d])
  <2>1. CASE d = c
    <3>1. deskPc'[d] = "idle" /\ form'[d] = NoForm
      BY <2>1 DEF Close
    <3> QED BY <3>1, NoFormFits
  <2>2. CASE d # c
    <3>1. deskPc'[d] = deskPc[d] /\ form'[d] = form[d]
      BY <2>2 DEF Close
    <3> QED BY <3>1
  <2> QED BY <2>1, <2>2
<1> QED BY <1>1, <1>2

\* So does a request that goes on to another step with another form.
LEMMA MoveFits ==
    ASSUME RequestsFit, NEW c \in Client, NEW step \in Steps, NEW fm, Fits(step, fm),
           deskPc' = [deskPc EXCEPT ![c] = step], form' = [form EXCEPT ![c] = fm],
           UNCHANGED deskOps \/ DeskRequest(c)
    PROVE  RequestsFit'
<1> USE DEF RequestsFit, Steps
<1>1. deskPc' \in [Client -> Steps] /\ DOMAIN form' = Client
  OBVIOUS
<1>2. ASSUME NEW d \in Client PROVE Fits(deskPc'[d], form'[d])
  <2>1. CASE d = c
    <3>1. deskPc'[d] = step /\ form'[d] = fm
      BY <2>1
    <3> QED BY <3>1
  <2>2. CASE d # c
    <3>1. deskPc'[d] = deskPc[d] /\ form'[d] = form[d]
      BY <2>2
    <3> QED BY <3>1
  <2> QED BY <2>1, <2>2
<1>3. deskOps' \in [Client -> 0..MaxRequests]
  <2>1. CASE UNCHANGED deskOps
    BY <2>1
  <2>2. CASE DeskRequest(c)
    <3>1. deskOps[c] + 1 \in 0..MaxRequests
      BY <2>2, DeskAssumption DEF DeskRequest
    <3> QED BY <2>2, <3>1 DEF DeskRequest
  <2> QED BY <2>1, <2>2
<1> QED BY <1>1, <1>2, <1>3

\* The forms the requests open with.
LEMMA OpenFits ==
    ASSUME RequestsFit, NEW c \in Client, NEW step \in Steps, NEW fm, Fits(step, fm),
           Open(c, step, fm)
    PROVE  RequestsFit'
BY MoveFits DEF Open

\* Every step of a request leaves it with a form that its next step reads.
LEMMA RequestsStep == DeskTyped /\ [DeskNext]_deskVars => RequestsFit'
<1> SUFFICES ASSUME DeskTyped, [DeskNext]_deskVars PROVE RequestsFit'
  OBVIOUS
<1>t. RequestsFit /\ DeskRowsFit
  BY DEF DeskTyped
<1>1. ASSUME NEW c \in Client, create_incident(c) PROVE RequestsFit'
  <2>1. deskOps[c] + 1 \in 0..MaxRequests
    BY <1>t, <1>1, DeskAssumption DEF create_incident, DeskRequest, RequestsFit
  <2> QED BY <1>t, <1>1, <2>1 DEF create_incident, DeskRequest, RequestsFit
<1>2. ASSUME NEW c \in Client, bulk_delete_incidents(c) PROVE RequestsFit'
  <2>1. PICK q : Open(c, "delete", [NoForm EXCEPT !.todo = q])
    BY <1>2 DEF bulk_delete_incidents
  <2>2. Fits("delete", [NoForm EXCEPT !.todo = q])
    BY DEF Fits, NoForm
  <2>3. "delete" \in Steps
    BY DEF Steps
  <2> QED BY <1>t, <2>1, <2>2, <2>3, OpenFits
<1>3. ASSUME NEW c \in Client, delete_incident(c) PROVE RequestsFit'
  <2>1. CASE Close(c)
    BY <1>t, <1>3, <2>1, CloseFits DEF delete_incident
  <2>2. CASE ~Close(c)
    <3> DEFINE fm == [form[c] EXCEPT !.todo = Tail(@)]
    <3>1. /\ form' = [form EXCEPT ![c] = fm] /\ UNCHANGED deskPc /\ UNCHANGED deskOps
          /\ deskPc[c] = "delete"
      BY <1>3, <2>2 DEF delete_incident
    <3>2. Fits("delete", fm)
      BY <1>t, <3>1 DEF RequestsFit, Fits
    <3>3. "delete" \in Steps /\ deskPc' = [deskPc EXCEPT ![c] = "delete"]
      BY <1>t, <3>1 DEF RequestsFit, Steps
    <3> HIDE DEF fm
    <3> QED BY <1>t, <3>1, <3>2, <3>3, MoveFits
  <2> QED BY <2>1, <2>2
<1>4. ASSUME NEW c \in Client, change_incident_status(c) PROVE RequestsFit'
  <2>1. PICK i \in Incident, u \in User, s \in Status :
          Open(c, "status", [NoForm EXCEPT !.on = i, !.body = [status |-> s],
                                           !.user = IF assignee[i] = u THEN NoUser ELSE u])
    BY <1>4 DEF change_incident_status
  <2> DEFINE v == IF assignee[i] = u THEN NoUser ELSE u
             fm == [NoForm EXCEPT !.on = i, !.body = [status |-> s], !.user = v]
  <2>2. v \in User \cup {NoUser}
    OBVIOUS
  <2>3. Open(c, "status", fm)
    BY <2>1
  <2> HIDE DEF v
  <2>4. Fits("status", fm)
    BY <2>2 DEF Fits, NoForm, WithStatus
  <2>5. "status" \in Steps
    BY DEF Steps
  <2> HIDE DEF fm
  <2> QED BY <1>t, <2>3, <2>4, <2>5, OpenFits
<1>5. ASSUME NEW c \in Client, WriteStatus(c) \/ WriteIncident(c) \/ _enrich_incident(c) \/ DeskFails(c)
      PROVE  RequestsFit'
  BY <1>t, <1>5, CloseFits DEF WriteStatus, WriteIncident, _enrich_incident, DeskFails
<1>6. ASSUME NEW c \in Client, assign_incident(c) PROVE RequestsFit'
  <2>1. PICK i \in Incident, u \in User : Open(c, "assign", [NoForm EXCEPT !.on = i, !.user = u])
    BY <1>6 DEF assign_incident
  <2> DEFINE fm == [NoForm EXCEPT !.on = i, !.user = u]
  <2>2. Fits("assign", fm) /\ "assign" \in Steps
    BY DEF Fits, NoForm, Steps
  <2>3. Open(c, "assign", fm)
    BY <2>1
  <2> HIDE DEF fm
  <2> QED BY <1>t, <2>2, <2>3, OpenFits
<1>7. ASSUME NEW c \in Client, update_incident(c) PROVE RequestsFit'
  <2>1. PICK i \in Incident, u \in User \cup {NoUser}, st \in {Null} \cup Status :
          Open(c, "assign", [NoForm EXCEPT !.on = i, !.user = u, !.body = [status |-> st]])
    BY <1>7 DEF update_incident
  <2> DEFINE fm == [NoForm EXCEPT !.on = i, !.user = u, !.body = [status |-> st]]
  <2>2. Fits("assign", fm) /\ "assign" \in Steps
    BY DEF Fits, NoForm, Steps, WithStatus
  <2>3. Open(c, "assign", fm)
    BY <2>1
  <2> HIDE DEF fm
  <2> QED BY <1>t, <2>2, <2>3, OpenFits
<1>8. ASSUME NEW c \in Client, enrich_incident(c) PROVE RequestsFit'
  <2>1. PICK i \in Incident, p \in Bodies, force \in BOOLEAN :
          Open(c, "enrich", [NoForm EXCEPT !.on = i, !.body = p, !.force = force])
    BY <1>8 DEF enrich_incident
  <2> DEFINE fm == [NoForm EXCEPT !.on = i, !.body = p, !.force = force]
  <2>2. Fits("enrich", fm) /\ "enrich" \in Steps
    <3>1. p \in Keyed
      BY BodyKeyed
    <3> QED BY <3>1 DEF Fits, NoForm, Steps
  <2>3. Open(c, "enrich", fm)
    BY <2>1
  <2> HIDE DEF fm
  <2> QED BY <1>t, <2>2, <2>3, OpenFits
<1>9. ASSUME NEW c \in Client, unenrich_incident(c) PROVE RequestsFit'
  <2>1. PICK i \in Incident, keys \in {{"note"}, {"env"}} :
          /\ enrichments[i] # NoEnrichments
          /\ Open(c, "enrich", [NoForm EXCEPT !.on = i, !.force = TRUE,
                                  !.body = Only(enrichments[i], DOMAIN enrichments[i] \ keys)])
    BY <1>9 DEF unenrich_incident
  <2> DEFINE p == Only(enrichments[i], DOMAIN enrichments[i] \ keys)
             fm == [NoForm EXCEPT !.on = i, !.force = TRUE, !.body = p]
  <2>2. Open(c, "enrich", fm)
    BY <2>1
  <2>3. p \in Keyed
    <3>1. enrichments[i] \in Keyed
      BY <1>t, <2>1 DEF DeskRowsFit
    <3> QED BY <3>1, KeyedIff, OnlyKeyed
  <2> HIDE DEF p
  <2>4. Fits("enrich", fm) /\ "enrich" \in Steps
    BY <2>3 DEF Fits, NoForm, Steps
  <2> HIDE DEF fm
  <2> QED BY <1>t, <2>2, <2>4, OpenFits
<1>10. ASSUME NEW c \in Client, get_enrichment_with_session(c) PROVE RequestsFit'
  <2> DEFINE fm == [form[c] EXCEPT !.read = enrichments[form[c].on]]
  <2>1. /\ deskPc[c] = "enrich" /\ deskPc' = [deskPc EXCEPT ![c] = "merge"] /\ UNCHANGED deskOps
        /\ form' = [form EXCEPT ![c] = fm]
    BY <1>10 DEF get_enrichment_with_session
  <2>2. form[c].on \in Incident
    BY <1>t, <2>1 DEF RequestsFit, Fits
  <2>3. enrichments[form[c].on] \in Keyed \cup {NoEnrichments}
    BY <1>t, <2>2 DEF DeskRowsFit
  <2>4. Fits("merge", fm) /\ "merge" \in Steps
    BY <1>t, <2>1, <2>3 DEF RequestsFit, Fits, Steps
  <2> HIDE DEF fm
  <2> QED BY <1>t, <2>1, <2>4, MoveFits
<1>11. CASE UNCHANGED deskVars
  BY <1>t, <1>11 DEF deskVars, RequestsFit
<1> QED
  BY <1>1, <1>2, <1>3, <1>4, <1>5, <1>6, <1>7, <1>8, <1>9, <1>10, <1>11 DEF DeskNext

\* Every step of a request stores rows of the incidents' columns.
LEMMA RowsStep == DeskTyped /\ [DeskNext]_deskVars => DeskRowsFit'
<1> SUFFICES ASSUME DeskTyped, [DeskNext]_deskVars PROVE DeskRowsFit'
  OBVIOUS
<1>t. RequestsFit /\ DeskRowsFit
  BY DEF DeskTyped
<1>f. \A c \in Client : Fits(deskPc[c], form[c])
  BY <1>t DEF RequestsFit
<1>0. ASSUME UNCHANGED <<rowVars, deskHistory>> PROVE DeskRowsFit'
  BY <1>t, <1>0 DEF DeskRowsFit, rowVars, deskHistory
<1>1. ASSUME NEW c \in Client, create_incident(c) PROVE DeskRowsFit'
  BY <1>t, <1>1 DEF create_incident, DeskRowsFit
<1>2. ASSUME NEW c \in Client, delete_incident(c) PROVE DeskRowsFit'
  BY <1>t, <1>2 DEF delete_incident, DeskRowsFit, deskHistory
<1>3. ASSUME NEW c \in Client, WriteStatus(c) PROVE DeskRowsFit'
  <2>1. /\ form[c].on \in Incident /\ form[c].body \in WithStatus
        /\ form[c].user \in User \cup {NoUser}
    BY <1>f, <1>3 DEF WriteStatus, Fits
  <2>2. form[c].body.status \in Status
    BY <2>1 DEF WithStatus
  <2>3. deskStatus' \in [Incident -> {"none", "firing", "deleted"} \cup Status]
    BY <1>t, <1>3, <2>2 DEF WriteStatus, DeskRowsFit
  <2>4. assignee' \in [Incident -> User \cup {NoUser}] /\ audits' \subseteq Incident \X User
    BY <1>t, <1>3, <2>1 DEF WriteStatus, DeskRowsFit
  <2> QED BY <1>t, <1>3, <2>3, <2>4 DEF WriteStatus, DeskRowsFit, deskHistory
<1>4. ASSUME NEW c \in Client, assign_incident(c) \/ update_incident(c) PROVE DeskRowsFit'
  <2>1. CASE assign_incident(c)
    <3>1. PICK i \in Incident, u \in User : audits' = audits \cup {<<i, u>>}
      BY <2>1 DEF assign_incident
    <3> QED BY <1>t, <2>1, <3>1 DEF assign_incident, DeskRowsFit, deskHistory
  <2>2. CASE update_incident(c)
    <3>1. PICK i \in Incident, u \in User \cup {NoUser} :
            audits' = IF u \in {NoUser, assignee[i]} THEN audits ELSE audits \cup {<<i, u>>}
      BY <2>2 DEF update_incident
    <3>2. audits' \subseteq Incident \X User
      BY <1>t, <3>1 DEF DeskRowsFit
    <3> QED BY <1>t, <2>2, <3>2 DEF update_incident, DeskRowsFit, deskHistory
  <2> QED BY <1>4, <2>1, <2>2
<1>5. ASSUME NEW c \in Client, WriteIncident(c) PROVE DeskRowsFit'
  <2> DEFINE b == form[c].body
             st == IF DOMAIN b = {} THEN Null ELSE b.status
  <2>1. /\ form[c].user \in User \cup {NoUser}
        /\ b \in WithStatus \cup {[status |-> Null], << >>}
    BY <1>f, <1>5 DEF WriteIncident, Fits
  <2>2. st \in Status \cup {Null}
    <3>1. CASE b = << >>
      BY <3>1
    <3>2. CASE b # << >>
      BY <2>1, <3>2 DEF WithStatus
    <3> QED BY <3>1, <3>2
  <2>3. deskStatus' = IF st = Null THEN deskStatus ELSE [deskStatus EXCEPT ![form[c].on] = st]
    BY <1>5 DEF WriteIncident
  <2> HIDE DEF st
  <2>4. deskStatus' \in [Incident -> {"none", "firing", "deleted"} \cup Status]
    BY <1>t, <2>2, <2>3 DEF DeskRowsFit
  <2>5. assignee' \in [Incident -> User \cup {NoUser}]
    BY <1>t, <1>5, <2>1 DEF WriteIncident, DeskRowsFit
  <2> QED BY <1>t, <1>5, <2>4, <2>5 DEF WriteIncident, DeskRowsFit, deskHistory
<1>6. ASSUME NEW c \in Client, _enrich_incident(c) PROVE DeskRowsFit'
  <2> DEFINE fm == form[c]
             now == enrichments[fm.on]
             then == IF fm.read # NoEnrichments THEN Merge(fm.read, fm.body, fm.force)
                     ELSE IF now = NoEnrichments THEN fm.body ELSE now
  <2>1. /\ fm.on \in Incident /\ fm.body \in Keyed /\ fm.force \in BOOLEAN
        /\ fm.read \in Keyed \cup {NoEnrichments}
    BY <1>f, <1>6 DEF _enrich_incident, Fits
  <2>2. then \in Keyed \cup {NoEnrichments}
    <3>1. now \in Keyed \cup {NoEnrichments}
      BY <1>t, <2>1 DEF DeskRowsFit
    <3>2. fm.read # NoEnrichments => Merge(fm.read, fm.body, fm.force) \in Keyed
      BY <2>1, MergeKeyed
    <3> HIDE DEF fm, now
    <3> QED BY <2>1, <3>1, <3>2
  <2>3. enrichments' = [enrichments EXCEPT ![fm.on] = then]
    BY <1>6 DEF _enrich_incident
  <2>4. noted' \subseteq noted \cup {fm.on}
    BY <1>6 DEF _enrich_incident
  <2>5. UNCHANGED <<deskStatus, assignee, audits, given>>
    BY <1>6 DEF _enrich_incident
  <2> HIDE DEF then
  <2>6. enrichments' \in [Incident -> Keyed \cup {NoEnrichments}]
    BY <1>t, <2>2, <2>3 DEF DeskRowsFit
  <2> QED BY <1>t, <2>1, <2>4, <2>5, <2>6 DEF DeskRowsFit
<1>7. ASSUME NEW c \in Client,
             \/ bulk_delete_incidents(c) \/ change_incident_status(c) \/ enrich_incident(c)
             \/ unenrich_incident(c) \/ get_enrichment_with_session(c) \/ DeskFails(c)
      PROVE  DeskRowsFit'
  BY <1>0, <1>7 DEF bulk_delete_incidents, change_incident_status, enrich_incident, unenrich_incident,
                    get_enrichment_with_session, DeskFails
<1>8. CASE UNCHANGED deskVars
  BY <1>0, <1>8 DEF deskVars
<1> QED
  BY <1>1, <1>2, <1>3, <1>4, <1>5, <1>6, <1>7, <1>8 DEF DeskNext

\* Some incidents exist, nobody's, with at most a note.
LEMMA TypedInit == DeskInit => DeskTyped
<1> SUFFICES ASSUME DeskInit PROVE DeskTyped
  OBVIOUS
<1>1. [note |-> "text"] \in Keyed
  BY BodyKeyed DEF Bodies
<1>2. DeskRowsFit
  BY <1>1 DEF DeskInit, DeskRowsFit
<1>3. RequestsFit
  <2>1. 0 \in 0..MaxRequests
    BY DeskAssumption
  <2> QED BY <2>1, NoFormFits DEF DeskInit, RequestsFit, Steps
<1> QED BY <1>2, <1>3 DEF DeskTyped

-----------------------------------------------------------------------------
\* Every assignment of change_status, assign_incident and update_incident.
LEMMA RecordStep == DeskTyped /\ RecordInv /\ [DeskNext]_deskVars => RecordInv'
<1> SUFFICES ASSUME DeskTyped, RecordInv, [DeskNext]_deskVars PROVE RecordInv'
  OBVIOUS
<1> USE DEF RecordInv, AssigneeIsOnRecord, AssignmentsAreOnRecord, OnRecord, Exists
<1>t. /\ assignee \in [Incident -> User \cup {NoUser}] /\ DOMAIN deskStatus = Incident
      /\ DOMAIN given = Incident /\ DOMAIN deskPc = Client /\ DOMAIN form = Client
  BY DEF DeskTyped, DeskRowsFit, RequestsFit
<1>0. ASSUME UNCHANGED <<assignee, audits, given>>,
             \A i \in Incident : Exists(i) => Exists(i)',
             \A c \in Client : deskPc'[c] = "assign" =>
                deskPc[c] = "assign" /\ form'[c].on = form[c].on /\ form'[c].user = form[c].user
      PROVE  RecordInv'
  <2>1. \A c \in Client : deskPc[c] = "assign" => form[c].on \in Incident
    BY DEF DeskTyped, RequestsFit, Fits
  <2> QED BY <1>0, <2>1
<1>1. ASSUME NEW c \in Client, create_incident(c) PROVE RecordInv'
  BY <1>t, <1>1 DEF create_incident
<1>2. ASSUME NEW c \in Client, bulk_delete_incidents(c) PROVE RecordInv'
  BY <1>t, <1>2 DEF bulk_delete_incidents, Open, rowVars, deskHistory
<1>3. ASSUME NEW c \in Client, delete_incident(c) PROVE RecordInv'
  BY <1>t, <1>3 DEF delete_incident, Close, deskHistory
<1>4. ASSUME NEW c \in Client, change_incident_status(c) PROVE RecordInv'
  BY <1>t, <1>4 DEF change_incident_status, Open, rowVars, deskHistory
<1>5. ASSUME NEW c \in Client, WriteStatus(c) PROVE RecordInv'
  <2>1. form[c].on \in Incident /\ form[c].body.status \in Status
    BY <1>5 DEF WriteStatus, DeskTyped, RequestsFit, Fits, WithStatus
  <2>2. \A i \in Incident : Exists(i) => deskStatus'[i] # "none"
    BY <1>t, <1>5, <2>1, DeskAssumption DEF WriteStatus
  <2>3. /\ deskPc' = [deskPc EXCEPT ![c] = "idle"] /\ form' = [form EXCEPT ![c] = NoForm] /\ UNCHANGED given
        /\ \/ UNCHANGED <<assignee, audits>>
           \/ /\ assignee' = [assignee EXCEPT ![form[c].on] = form[c].user]
              /\ audits' = audits \cup {<<form[c].on, form[c].user>>}
    BY <1>5 DEF WriteStatus, Close, deskHistory
  <2>4. AssigneeIsOnRecord'
    BY <1>t, <2>1, <2>3
  <2>5. AssignmentsAreOnRecord'
    <3>1. \A d \in Client : deskPc[d] = "assign" => form[d].on \in Incident
      BY DEF DeskTyped, RequestsFit, Fits
    <3> QED BY <1>t, <2>2, <2>3, <3>1
  <2> QED BY <2>4, <2>5
<1>6. ASSUME NEW c \in Client, assign_incident(c) PROVE RecordInv'
  BY <1>t, <1>6 DEF assign_incident, Open, deskHistory, NoForm
<1>7. ASSUME NEW c \in Client, update_incident(c) PROVE RecordInv'
  BY <1>t, <1>7 DEF update_incident, Open, deskHistory, NoForm
<1>8. ASSUME NEW c \in Client, WriteIncident(c) PROVE RecordInv'
  <2> DEFINE b == form[c].body
             st == IF DOMAIN b = {} THEN Null ELSE b.status
  <2>1. form[c].on \in Incident /\ b \in WithStatus \cup {[status |-> Null], << >>}
    BY <1>8 DEF WriteIncident, DeskTyped, RequestsFit, Fits
  <2>2. st = Null \/ st \in Status
    <3>1. CASE b = << >>
      BY <3>1
    <3>2. CASE b # << >>
      BY <2>1, <3>2 DEF WithStatus
    <3> QED BY <3>1, <3>2
  <2>3. /\ deskPc' = [deskPc EXCEPT ![c] = "idle"] /\ form' = [form EXCEPT ![c] = NoForm]
        /\ UNCHANGED <<given, audits>> /\ deskPc[c] = "assign"
        /\ assignee' = IF form[c].user = NoUser THEN assignee
                       ELSE [assignee EXCEPT ![form[c].on] = form[c].user]
        /\ deskStatus' = IF st = Null THEN deskStatus ELSE [deskStatus EXCEPT ![form[c].on] = st]
    BY <1>8 DEF WriteIncident, Close, deskHistory
  <2> HIDE DEF st
  <2>4. \A i \in Incident : Exists(i) => deskStatus'[i] # "none"
    BY <1>t, <2>1, <2>2, <2>3, DeskAssumption
  <2>5. AssigneeIsOnRecord'
    BY <1>t, <2>1, <2>3
  <2>6. AssignmentsAreOnRecord'
    <3>1. \A d \in Client : deskPc[d] = "assign" => form[d].on \in Incident
      BY DEF DeskTyped, RequestsFit, Fits
    <3> QED BY <1>t, <2>3, <2>4, <3>1
  <2> QED BY <2>5, <2>6
<1>9. ASSUME NEW c \in Client, enrich_incident(c) \/ unenrich_incident(c) PROVE RecordInv'
  BY <1>t, <1>9 DEF enrich_incident, unenrich_incident, Open, rowVars, deskHistory
<1>10. ASSUME NEW c \in Client, get_enrichment_with_session(c) PROVE RecordInv'
  BY <1>t, <1>10 DEF get_enrichment_with_session, rowVars, deskHistory
<1>11. ASSUME NEW c \in Client, _enrich_incident(c) PROVE RecordInv'
  BY <1>t, <1>11 DEF _enrich_incident, Close
<1>12. ASSUME NEW c \in Client, DeskFails(c) PROVE RecordInv'
  BY <1>t, <1>12 DEF DeskFails, Close, rowVars, deskHistory
<1>13. CASE UNCHANGED deskVars
  BY <1>13 DEF deskVars, rowVars, deskHistory
<1> QED
  BY <1>1, <1>2, <1>3, <1>4, <1>5, <1>6, <1>7, <1>8, <1>9, <1>10, <1>11, <1>12, <1>13 DEF DeskNext

\* Whoever an incident is assigned to, by whichever of the three requests and
\* wherever it failed, was audited as assigned, for any number of requests.
THEOREM RecordTheorem == DeskSpec => []AssigneeIsOnRecord
<1>1. DeskInit => DeskTyped /\ RecordInv
  <2> SUFFICES ASSUME DeskInit PROVE RecordInv
    BY TypedInit
  <2> QED BY DEF DeskInit, RecordInv, AssigneeIsOnRecord, AssignmentsAreOnRecord
<1>2. DeskTyped /\ RecordInv /\ [DeskNext]_deskVars => (DeskTyped /\ RecordInv)'
  BY RequestsStep, RowsStep, RecordStep DEF DeskTyped
<1>3. RecordInv => AssigneeIsOnRecord
  BY DEF RecordInv
<1> QED BY <1>1, <1>2, <1>3, PTL DEF DeskSpec

-----------------------------------------------------------------------------
\* The row that is not there holds no note.
LEMMA NoNoteYet == ~Text(NoEnrichments)
<1>1. DOMAIN NoEnrichments = {"none"}
  BY DEF NoEnrichments
<1> QED BY <1>1 DEF Text

\* The merge keeps a note unless its body removes it: an empty note, or no note,
\* does not.
LEMMA MergeKeepsNote ==
    ASSUME NEW old \in Keyed, NEW p \in Bodies, Text(old), p # [note |-> Null]
    PROVE  Text(Merge(old, p, FALSE))
<1> DEFINE kept == IF Text(old) /\ ~Text(p) THEN [note |-> old["note"]] ELSE << >>
           whole == Over(kept, Over(p, old))
           K == {k \in DOMAIN whole : ~(k \in DOMAIN p /\ p[k] = Null)}
<1>1. Merge(old, p, FALSE) = Only(whole, K)
  BY DEF Merge
<1>2. \/ DOMAIN p = {"note"} /\ p["note"] \in {"text", ""}
      \/ DOMAIN p = {"env"}
  <2>1. ASSUME NEW v, p = [note |-> v] PROVE DOMAIN p = {"note"} /\ p["note"] = v
    BY <2>1
  <2>2. ASSUME p = [env |-> "prod"] PROVE DOMAIN p = {"env"}
    BY <2>2
  <2>3. p \in {[note |-> "text"], [note |-> ""], [env |-> "prod"]}
    BY Zenon DEF Bodies
  <2> QED BY <2>1, <2>2, <2>3
<1>3. "note" \in DOMAIN whole /\ whole["note"] \notin {"", Null}
  <2>1. CASE Text(p)
    <3>1. kept = << >>
      BY <2>1
    <3>2. DOMAIN kept = {}
      BY <3>1
    <3> HIDE DEF kept
    <3> QED BY <2>1, <3>2 DEF Over, Text
  <2>2. CASE ~Text(p)
    <3>1. DOMAIN kept = {"note"} /\ kept["note"] = old["note"]
      BY <2>2
    <3> HIDE DEF kept
    <3> QED BY <3>1 DEF Over, Text
  <2> QED BY <2>1, <2>2
<1>4. "note" \in K
  BY <1>2, <1>3 DEF Null
<1> HIDE DEF whole, K
<1>5. "note" \in DOMAIN Only(whole, K) /\ Only(whole, K)["note"] = whole["note"]
  BY <1>3, <1>4 DEF Only
<1> QED BY <1>1, <1>3, <1>5 DEF Text

\* _enrich_incident: a note it erases was removed, replaced with everything
\* else, or not there when the request read the row.
LEMMA NoteStep == DeskTyped /\ NoteStands /\ [DeskNext]_deskVars => NoteStands'
<1> SUFFICES ASSUME DeskTyped, NoteStands, [DeskNext]_deskVars PROVE NoteStands'
  OBVIOUS
<1>1. ASSUME NEW c \in Client, _enrich_incident(c) PROVE NoteStands'
  <2> DEFINE fm == form[c]
             i == fm.on
             now == enrichments[i]
             then == IF fm.read # NoEnrichments THEN Merge(fm.read, fm.body, fm.force)
                     ELSE IF now = NoEnrichments THEN fm.body ELSE now
  <2>1. /\ enrichments' = [enrichments EXCEPT ![i] = then]
        /\ noted' = IF Text(then) /\ (Text(fm.body) \/ i \in noted) THEN noted \cup {i}
                    ELSE IF fm.force \/ fm.read # now \/ fm.body = [note |-> Null]
                         THEN noted \ {i} ELSE noted
    BY <1>1 DEF _enrich_incident
  <2>2. /\ i \in Incident /\ noted \subseteq Incident /\ DOMAIN enrichments = Incident
        /\ now \in Keyed \cup {NoEnrichments}
        /\ fm.force \in BOOLEAN /\ fm.force = FALSE => fm.body \in Bodies
    BY <1>1 DEF _enrich_incident, DeskTyped, DeskRowsFit, RequestsFit, Fits
  <2>3. ASSUME i \in noted, ~fm.force, fm.read = now, fm.body # [note |-> Null]
        PROVE  Text(then)
    <3>1. Text(now)
      BY <2>3 DEF NoteStands
    <3> HIDE DEF fm, now
    <3>2. now # NoEnrichments
      BY <3>1, NoNoteYet
    <3>3. fm.force = FALSE
      BY <2>2, <2>3
    <3>4. fm.body \in Bodies /\ now \in Keyed
      BY <2>2, <3>2, <3>3
    <3>5. then = Merge(now, fm.body, FALSE)
      BY <2>3, <3>2, <3>3
    <3> HIDE DEF then
    <3> QED BY <2>3, <3>1, <3>4, <3>5, MergeKeepsNote
  <2> HIDE DEF then, i
  <2>4. \A j \in noted' : Text(enrichments'[j])
    <3> TAKE j \in noted'
    <3>1. CASE j = i
      <4>1. Text(then)
        BY <2>1, <2>3, <3>1
      <4> QED BY <2>1, <2>2, <3>1, <4>1
    <3>2. CASE j # i
      <4>1. j \in noted /\ enrichments'[j] = enrichments[j]
        BY <2>1, <2>2, <3>2
      <4> QED BY <4>1 DEF NoteStands
    <3> QED BY <3>1, <3>2
  <2> QED BY <2>4 DEF NoteStands
<1>2. ASSUME NEW c \in Client, ~_enrich_incident(c),
             \/ create_incident(c) \/ bulk_delete_incidents(c) \/ delete_incident(c)
             \/ change_incident_status(c) \/ WriteStatus(c)
             \/ assign_incident(c) \/ update_incident(c) \/ WriteIncident(c)
             \/ enrich_incident(c) \/ unenrich_incident(c)
             \/ get_enrichment_with_session(c) \/ DeskFails(c)
      PROVE  NoteStands'
  <2>1. UNCHANGED <<enrichments, noted>>
    BY <1>2 DEF create_incident, bulk_delete_incidents, delete_incident, change_incident_status,
                WriteStatus, assign_incident, update_incident, WriteIncident, enrich_incident,
                unenrich_incident, get_enrichment_with_session, DeskFails, rowVars, deskHistory
  <2> QED BY <2>1 DEF NoteStands, Text
<1>3. CASE UNCHANGED deskVars
  BY <1>3 DEF deskVars, rowVars, deskHistory, NoteStands, Text
<1> QED BY <1>1, <1>2, <1>3 DEF DeskNext

\* What is stored of an incident is well typed.
LEMMA TypedIsTypeOK == DeskTyped => DeskTypeOK
<1> SUFFICES ASSUME DeskTyped PROVE DeskTypeOK
  OBVIOUS
<1>1. \A i \in Incident : \/ enrichments[i] = NoEnrichments
                           \/ DOMAIN enrichments[i] \subseteq {"note", "env"}
  BY KeyedIff DEF DeskTyped, DeskRowsFit
<1> QED BY <1>1 DEF DeskTyped, DeskRowsFit, RequestsFit, Steps, Fits, DeskTypeOK

\* enrich and unenrich requests that overlap in any order, for any number of
\* them: a note stands until one of them replaces everything, sends None for it,
\* or writes what it had read before the note.
THEOREM NotesTheorem == DeskSpec => []NotesAreSound
<1>1. DeskInit => DeskTyped /\ NoteStands
  <2> SUFFICES ASSUME DeskInit PROVE NoteStands
    BY TypedInit
  <2>1. \A i \in noted : enrichments[i] = [note |-> "text"]
    BY DEF DeskInit
  <2>2. Text([note |-> "text"])
    BY DEF Text, Null
  <2> QED BY <2>1, <2>2 DEF NoteStands
<1>2. DeskTyped /\ NoteStands /\ [DeskNext]_deskVars => (DeskTyped /\ NoteStands)'
  BY RequestsStep, RowsStep, NoteStep DEF DeskTyped
<1>3. DeskTyped /\ NoteStands => NotesAreSound
  BY TypedIsTypeOK DEF NotesAreSound
<1> QED BY <1>1, <1>2, <1>3, PTL DEF DeskSpec
=============================================================================
