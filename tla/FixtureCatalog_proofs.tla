------------------------ MODULE FixtureCatalog_proofs ------------------------
(***************************************************************************)
(* What the catalog once decided: a mapping that is quarantined or         *)
(* rejected, or that is VERIFIED, is not changed behind the reviewer's     *)
(* back.  match is one step, but a long one, along one of three paths, and *)
(* SaveId and SaveEventId, which every path ends in, overwrite a VERIFIED  *)
(* row.  So most of the lemmas say what a path has looked at by then.      *)
(* Then, that rows lead somewhere, and at last that no two fixtures share  *)
(* an event, if what the providers report is curated.                      *)
(***************************************************************************)
EXTENDS FixtureCatalog, FiniteSetTheorems, WellFoundedInduction, TLAPS

Fields == {"ok", "competitions", "teams", "plays", "events"} \cup Mappings

(* Every row of a mapping table has a target and a trust state.            *)
Rows(m) == \A k \in DOMAIN m : {"to", "trust"} \subseteq DOMAIN m[k]
Tables(c) == DOMAIN c = Fields /\ \A x \in Mappings : Rows(c[x])

(* The decisions in m still stand in n.                                    *)
Stands(m, n) ==
  \A k \in DOMAIN m :
    /\ m[k].trust \in Closed =>
         k \in DOMAIN n /\ n[k].to = m[k].to /\ n[k].trust = m[k].trust
    /\ m[k].trust = "VERIFIED" =>
         k \in DOMAIN n /\ n[k].to = m[k].to /\ n[k].trust \in {"VERIFIED", "SUSPECT"}

Upholds(c, d) == Tables(d) /\ \A x \in Mappings : Stands(c[x], d[x])

(* The mapping tables of d are those of c.                                 *)
SameMappings(c, d) == DOMAIN d = Fields /\ \A x \in Mappings : d[x] = c[x]

(* No VERIFIED mapping tells the event of s.                               *)
Unmapped(m, s) ==
  LET key == <<s.provider, s.eventId>> IN
  s.eventId # None /\ key \in DOMAIN m => m[key].trust # "VERIFIED"

Inv == Tables(cat) /\ reviews \in Nat

-----------------------------------------------------------------------------
(* Standing is reflexive and transitive: a SUSPECT row is closed.          *)
LEMMA StandsSelf == ASSUME NEW m PROVE Stands(m, m)
BY DEF Stands, Closed

LEMMA StandsOn ==
  ASSUME NEW m, NEW n, NEW o, Stands(m, n), Stands(n, o) PROVE Stands(m, o)
BY DEF Stands, Closed

LEMMA UpholdsSelf == ASSUME NEW c, Tables(c) PROVE Upholds(c, c)
BY StandsSelf DEF Upholds

LEMMA UpholdsOn ==
  ASSUME NEW c, NEW d, NEW e, Upholds(c, d), Upholds(d, e) PROVE Upholds(c, e)
BY StandsOn DEF Upholds

LEMMA SameUpholds ==
  ASSUME NEW b, NEW c, NEW d, Upholds(b, c), SameMappings(c, d) PROVE Upholds(b, d)
BY DEF Upholds, SameMappings, Tables

-----------------------------------------------------------------------------
(* The operators on one mapping table.                                     *)

LEMMA PutFacts ==
  ASSUME NEW f, NEW k, NEW row
  PROVE  /\ DOMAIN Put(f, k, row) = DOMAIN f \cup {k}
         /\ Put(f, k, row)[k] = row
         /\ \A x \in DOMAIN f : x # k => Put(f, k, row)[x] = f[x]
BY DEF Put

LEMMA PutRows ==
  ASSUME NEW m, Rows(m), NEW k, NEW row, {"to", "trust"} \subseteq DOMAIN row
  PROVE  Rows(Put(m, k, row))
BY DEF Rows, Put

(* A row is written over only if the base did not decide about it, or says *)
(* the same.                                                               *)
LEMMA PutStands ==
  ASSUME NEW b, NEW m, Stands(b, m), NEW k, NEW row,
         k \in DOMAIN b =>
           /\ b[k].trust \notin Closed
           /\ b[k].trust = "VERIFIED" => row.to = b[k].to /\ row.trust = "VERIFIED"
  PROVE  Stands(b, Put(m, k, row))
<1> DEFINE n == Put(m, k, row)
<1>1. \A x \in DOMAIN m : x \in DOMAIN n /\ (x # k => n[x] = m[x])
  BY DEF Put
<1>2. n[k] = row /\ k \in DOMAIN n
  BY DEF Put
<1> HIDE DEF n
<1>3. Stands(b, n)
  BY <1>1, <1>2 DEF Stands
<1>4. QED BY <1>3 DEF n

LEMMA SaveNameStands ==
  ASSUME NEW m, Rows(m), NEW k, NEW to, NEW trust
  PROVE  Rows(SaveName(m, k, to, trust)) /\ Stands(m, SaveName(m, k, to, trust))
<1> DEFINE row == [to |-> to, trust |-> trust, manual |-> FALSE]
<1>1. {"to", "trust"} \subseteq DOMAIN row
  OBVIOUS
<1>2. CASE k \in DOMAIN m /\ m[k].trust # "UNVERIFIED"
  BY <1>2, StandsSelf DEF SaveName
<1>3. CASE ~ (k \in DOMAIN m /\ m[k].trust # "UNVERIFIED")
  <2> HIDE DEF row
  <2>1. SaveName(m, k, to, trust) = Put(m, k, row)
    BY <1>3 DEF SaveName, row
  <2>2. k \in DOMAIN m => m[k].trust \notin Closed /\ m[k].trust # "VERIFIED"
    BY <1>3 DEF Closed
  <2>3. QED BY <2>1, <2>2, <1>1, StandsSelf, PutStands, PutRows
<1>4. QED BY <1>2, <1>3

LEMMA SaveIdStands ==
  ASSUME NEW b, NEW m, Rows(m), Stands(b, m),
         NEW p, NEW id, NEW to, NEW raw, NEW trust,
         id # None /\ <<p, id>> \in DOMAIN b /\ b[<<p, id>>].trust = "VERIFIED" =>
           \/ m[<<p, id>>].trust \in Closed
           \/ b[<<p, id>>].to = to /\ trust = "VERIFIED"
  PROVE  /\ Rows(SaveIdIfAny(m, p, id, to, raw, trust))
         /\ Stands(b, SaveIdIfAny(m, p, id, to, raw, trust))
<1> DEFINE k == <<p, id>>
           row == [to |-> to, trust |-> trust,
                   first |-> IF k \in DOMAIN m THEN m[k].first ELSE raw,
                   verified |-> IF trust = "VERIFIED" THEN raw
                                ELSE IF k \in DOMAIN m THEN m[k].verified ELSE None]
<1>1. {"to", "trust"} \subseteq DOMAIN row /\ row.to = to /\ row.trust = trust
  OBVIOUS
<1> HIDE DEF k, row
<1>2. CASE id = None \/ (k \in DOMAIN m /\ m[k].trust \in Closed)
  BY <1>2 DEF SaveIdIfAny, SaveId, k
<1>3. CASE id # None /\ ~ (k \in DOMAIN m /\ m[k].trust \in Closed)
  <2>1. SaveIdIfAny(m, p, id, to, raw, trust) = Put(m, k, row)
    BY <1>3 DEF SaveIdIfAny, SaveId, k, row
  <2>2. k \in DOMAIN b =>
           /\ b[k].trust \notin Closed
           /\ b[k].trust = "VERIFIED" => row.to = b[k].to /\ row.trust = "VERIFIED"
    BY <1>1, <1>3 DEF Stands, k
  <2>3. QED BY <2>1, <2>2, <1>1, PutStands, PutRows
<1>4. QED BY <1>2, <1>3

(* A row just saved as VERIFIED, or one that was not, says what was saved. *)
LEMMA SaveIdLeads ==
  ASSUME NEW m, NEW p, NEW id, NEW to, NEW raw, NEW trust
  PROVE  LeadsTo(SaveIdIfAny(m, p, id, to, raw, trust), p, id, to)
<1> DEFINE k == <<p, id>>
           row == [to |-> to, trust |-> trust,
                   first |-> IF k \in DOMAIN m THEN m[k].first ELSE raw,
                   verified |-> IF trust = "VERIFIED" THEN raw
                                ELSE IF k \in DOMAIN m THEN m[k].verified ELSE None]
<1>1. row.to = to
  OBVIOUS
<1> HIDE DEF k, row
<1>2. CASE id = None
  BY <1>2 DEF LeadsTo
<1>3. CASE id # None /\ k \in DOMAIN m /\ m[k].trust \in Closed
  BY <1>3 DEF SaveIdIfAny, SaveId, LeadsTo, Closed, k
<1>4. CASE id # None /\ ~ (k \in DOMAIN m /\ m[k].trust \in Closed)
  <2>1. SaveIdIfAny(m, p, id, to, raw, trust) = Put(m, k, row)
    BY <1>4 DEF SaveIdIfAny, SaveId, k, row
  <2>2. QED BY <2>1, <1>1, <1>4 DEF LeadsTo, k, Put
<1>5. QED BY <1>2, <1>3, <1>4

LEMMA MarkSuspectStands ==
  ASSUME NEW m, Rows(m), NEW k \in DOMAIN m, m[k].trust = "VERIFIED"
  PROVE  /\ Rows(MarkSuspect(m, k)) /\ Stands(m, MarkSuspect(m, k))
         /\ MarkSuspect(m, k)[k].trust = "SUSPECT"
         /\ DOMAIN MarkSuspect(m, k) = DOMAIN m
<1> DEFINE n == MarkSuspect(m, k)
<1>1. {"to", "trust"} \subseteq DOMAIN m[k]
  BY DEF Rows
<1>2. DOMAIN n = DOMAIN m /\ DOMAIN n[k] = DOMAIN m[k]
  BY DEF MarkSuspect
<1>3. n[k].trust = "SUSPECT" /\ n[k].to = m[k].to
  BY <1>1 DEF MarkSuspect
<1>4. \A x \in DOMAIN m \ {k} : n[x] = m[x]
  BY DEF MarkSuspect
<1> HIDE DEF n
<1>5. Rows(n)
  BY <1>2, <1>4 DEF Rows
<1>6. Stands(m, n)
  BY <1>2, <1>3, <1>4 DEF Stands, Closed
<1>7. QED BY <1>2, <1>3, <1>5, <1>6 DEF n

LEMMA SaveEventIdStands ==
  ASSUME NEW m, Rows(m), NEW s, NEW e, NEW trust,
         LET k == <<s.provider, s.eventId>> IN
         k \in DOMAIN m /\ m[k].trust = "VERIFIED" => m[k].to = e /\ trust = "VERIFIED"
  PROVE  Rows(SaveEventId(m, s, e, trust)) /\ Stands(m, SaveEventId(m, s, e, trust))
<1> DEFINE k == <<s.provider, s.eventId>>
<1>1. PICK row :
        /\ SaveEventId(m, s, e, trust) = Put(m, k, row)
        /\ {"to", "trust"} \subseteq DOMAIN row
        /\ k \in DOMAIN m /\ m[k].trust \in Closed =>
             row.to = m[k].to /\ row.trust = m[k].trust
        /\ k \in DOMAIN m /\ m[k].trust \notin Closed => row.to = e /\ row.trust = trust
  BY DEF SaveEventId
<1> DEFINE n == Put(m, k, row)
<1>2. k \in DOMAIN m /\ m[k].trust = "VERIFIED" => row.to = m[k].to /\ row.trust = "VERIFIED"
  BY <1>1 DEF Closed
<1>3. \A x \in DOMAIN m : x \in DOMAIN n /\ (x # k => n[x] = m[x])
  BY DEF Put
<1>4. n[k] = row
  BY DEF Put
<1> HIDE DEF n, k
<1>5. Stands(m, n)
  BY <1>1, <1>2, <1>3, <1>4 DEF Stands
<1>6. Rows(n)
  BY <1>1, PutRows DEF n
<1>7. QED BY <1>1, <1>5, <1>6 DEF n, k

-----------------------------------------------------------------------------
(* The operators that leave the mapping tables alone.                      *)

LEMMA OtherTables ==
  ASSUME NEW c, DOMAIN c = Fields
  PROVE  /\ \A p, k, id, country : SameMappings(c, PromoteCompetition(c, p, k, id, country))
         /\ \A p, name, country, id : SameMappings(c, CreateCompetition(c, p, name, country, id))
         /\ \A p, t, id : SameMappings(c, PromoteTeam(c, p, t, id))
         /\ \A p, name, id : SameMappings(c, CreateTeam(c, p, name, id))
         /\ \A p, e, id : SameMappings(c, PromoteEvent(c, p, e, id))
         /\ \A s, e : SameMappings(c, SyncStart(c, s, e))
<1> USE DEF SameMappings, Fields, Mappings
<1>1. ASSUME NEW p, NEW k, NEW id, NEW country
      PROVE  SameMappings(c, PromoteCompetition(c, p, k, id, country))
  BY DEF PromoteCompetition
<1>2. ASSUME NEW p, NEW name, NEW country, NEW id
      PROVE  SameMappings(c, CreateCompetition(c, p, name, country, id))
  BY DEF CreateCompetition
<1>3. ASSUME NEW p, NEW t, NEW id PROVE SameMappings(c, PromoteTeam(c, p, t, id))
  BY DEF PromoteTeam
<1>4. ASSUME NEW p, NEW name, NEW id PROVE SameMappings(c, CreateTeam(c, p, name, id))
  BY DEF CreateTeam
<1>5. ASSUME NEW p, NEW e, NEW id PROVE SameMappings(c, PromoteEvent(c, p, e, id))
  BY DEF PromoteEvent
<1>6. ASSUME NEW s, NEW e PROVE SameMappings(c, SyncStart(c, s, e))
  BY DEF SyncStart
<1> HIDE DEF SameMappings, Fields, Mappings
<1>7. QED BY <1>1, <1>2, <1>3, <1>4, <1>5, <1>6

-----------------------------------------------------------------------------
(* _resolve_competition: it stands by what was decided, and leaves the id  *)
(* of the league, if VERIFIED, pointing at the competition it returns.     *)

LEMMA MarkedLeague ==
  ASSUME NEW c, Tables(c), NEW s
  PROVE  LET k == <<s.provider, s.leagueId>>
             says == IdSays(c.leagueIds, s.provider, s.leagueId, s.league)
             d == IF says = "drifted"
                  THEN [c EXCEPT !.leagueIds = MarkSuspect(@, k)] ELSE c
         IN /\ Upholds(c, d)
            /\ d.teamNames = c.teamNames /\ d.teamIds = c.teamIds /\ d.eventIds = c.eventIds
            /\ says # "known" /\ s.leagueId # None /\ k \in DOMAIN d.leagueIds =>
                 d.leagueIds[k].trust # "VERIFIED"
<1> DEFINE k == <<s.provider, s.leagueId>>
           m == c.leagueIds
           says == IdSays(c.leagueIds, s.provider, s.leagueId, s.league)
           d == IF says = "drifted"
                THEN [c EXCEPT !.leagueIds = MarkSuspect(@, k)] ELSE c
<1>1. Rows(m) /\ DOMAIN c = Fields
  BY DEF Tables, Mappings
<1>2. CASE says = "drifted"
  <2>1. s.leagueId # None /\ k \in DOMAIN m /\ m[k].trust = "VERIFIED"
    BY <1>2 DEF IdSays
  <2>2. d = [c EXCEPT !.leagueIds = MarkSuspect(@, k)]
    BY <1>2
  <2>3. /\ Rows(MarkSuspect(m, k)) /\ Stands(m, MarkSuspect(m, k))
        /\ MarkSuspect(m, k)[k].trust = "SUSPECT"
    BY <2>1, <1>1, MarkSuspectStands
  <2>4. DOMAIN d = Fields /\ d.leagueIds = MarkSuspect(m, k)
    BY <2>2, <1>1 DEF Fields, Mappings
  <2>5. /\ d.teamNames = c.teamNames /\ d.teamIds = c.teamIds
        /\ d.eventIds = c.eventIds /\ d.leagueNames = c.leagueNames
    BY <2>2, <1>1 DEF Fields, Mappings
  <2> HIDE DEF k, m
  <2>6. Upholds(c, d)
    BY <2>3, <2>4, <2>5, StandsSelf DEF Upholds, Tables, Mappings, m
  <2>7. QED BY <2>3, <2>4, <2>5, <2>6 DEF k
<1>3. CASE says # "drifted"
  <2>1. d = c
    BY <1>3
  <2>2. says # "known" /\ s.leagueId # None /\ k \in DOMAIN m => m[k].trust # "VERIFIED"
    BY <1>3 DEF IdSays
  <2>3. QED BY <2>1, <2>2, UpholdsSelf
<1>4. QED BY <1>2, <1>3

LEMMA AdoptCompetitionStands ==
  ASSUME NEW c, Tables(c), NEW s, NEW k, NEW trust,
         LET key == <<s.provider, s.leagueId>> IN
         s.leagueId # None /\ key \in DOMAIN c.leagueIds => c.leagueIds[key].trust # "VERIFIED"
  PROVE  LET r == AdoptCompetition(c, s, k, trust) IN
         /\ Upholds(c, r.cat)
         /\ r.cat.teamNames = c.teamNames /\ r.cat.teamIds = c.teamIds
         /\ r.cat.eventIds = c.eventIds
         /\ LeadsTo(r.cat.leagueIds, s.provider, s.leagueId, r.id)
<1> DEFINE c1 == IF trust = "VERIFIED"
                 THEN PromoteCompetition(c, s.provider, k, s.leagueId, s.country) ELSE c
           names == SaveName(c1.leagueNames, <<s.provider, s.league, s.country>>, k, trust)
           ids == SaveIdIfAny(c1.leagueIds, s.provider, s.leagueId, k, s.league, trust)
           d == [c1 EXCEPT
             !.leagueNames = SaveName(@, <<s.provider, s.league, s.country>>, k, trust),
             !.leagueIds   = SaveIdIfAny(@, s.provider, s.leagueId, k, s.league, trust)]
           r == AdoptCompetition(c, s, k, trust)
<1>1. r.id = k /\ r.cat = d
  BY DEF AdoptCompetition
<1>2. SameMappings(c, c1)
  <2>1. DOMAIN c = Fields
    BY DEF Tables
  <2>2. SameMappings(c, c)
    BY <2>1 DEF SameMappings
  <2>3. QED BY <2>1, <2>2, OtherTables
<1> HIDE DEF c1
<1>3. /\ DOMAIN d = Fields /\ d.leagueNames = names /\ d.leagueIds = ids
      /\ d.teamNames = c.teamNames /\ d.teamIds = c.teamIds /\ d.eventIds = c.eventIds
  BY <1>2 DEF SameMappings, Fields, Mappings
<1>4. c1.leagueNames = c.leagueNames /\ c1.leagueIds = c.leagueIds
  BY <1>2 DEF SameMappings, Mappings
<1> HIDE DEF d, r
<1>5. Rows(names) /\ Stands(c.leagueNames, names)
  BY <1>4, SaveNameStands DEF Tables, Mappings
<1>6. Rows(ids) /\ Stands(c.leagueIds, ids)
  BY <1>4, SaveIdStands, StandsSelf DEF Tables, Mappings
<1>7. LeadsTo(ids, s.provider, s.leagueId, k)
  BY SaveIdLeads
<1> HIDE DEF names, ids
<1>8. Upholds(c, d)
  BY <1>3, <1>5, <1>6, StandsSelf DEF Upholds, Tables, Mappings
<1>9. QED BY <1>1, <1>3, <1>7, <1>8 DEF r

LEMMA LearnCompetitionStands ==
  ASSUME NEW c, Tables(c), NEW s, NEW suspect,
         LET key == <<s.provider, s.leagueId>> IN
         s.leagueId # None /\ key \in DOMAIN c.leagueIds => c.leagueIds[key].trust # "VERIFIED"
  PROVE  LET r == LearnCompetition(c, s, suspect) IN
         /\ Upholds(c, r.cat)
         /\ r.cat.teamNames = c.teamNames /\ r.cat.teamIds = c.teamIds
         /\ r.cat.eventIds = c.eventIds
         /\ LeadsTo(r.cat.leagueIds, s.provider, s.leagueId, r.id)
<1>1. PICK k, trust, name :
        \/ LearnCompetition(c, s, suspect) = AdoptCompetition(c, s, k, trust)
        \/ LearnCompetition(c, s, suspect) =
             AdoptCompetition(CreateCompetition(c, s.provider, name, s.country, s.leagueId),
                              s, k, trust)
  BY DEF LearnCompetition
<1>2. CASE LearnCompetition(c, s, suspect) = AdoptCompetition(c, s, k, trust)
  BY <1>2, AdoptCompetitionStands
<1>3. CASE LearnCompetition(c, s, suspect) =
             AdoptCompetition(CreateCompetition(c, s.provider, name, s.country, s.leagueId),
                              s, k, trust)
  <2> DEFINE d == CreateCompetition(c, s.provider, name, s.country, s.leagueId)
             r == AdoptCompetition(d, s, k, trust)
  <2>1. SameMappings(c, d)
    BY OtherTables DEF Tables
  <2> HIDE DEF d
  <2>2. Upholds(c, d)
    BY <2>1, UpholdsSelf, SameUpholds
  <2>3. /\ d.teamNames = c.teamNames /\ d.teamIds = c.teamIds
        /\ d.eventIds = c.eventIds /\ d.leagueIds = c.leagueIds
    BY <2>1 DEF SameMappings, Mappings
  <2>4. Tables(d)
    BY <2>2 DEF Upholds
  <2>5. /\ Upholds(d, r.cat)
        /\ r.cat.teamNames = d.teamNames /\ r.cat.teamIds = d.teamIds
        /\ r.cat.eventIds = d.eventIds
        /\ LeadsTo(r.cat.leagueIds, s.provider, s.leagueId, r.id)
    BY <2>3, <2>4, AdoptCompetitionStands
  <2>6. LearnCompetition(c, s, suspect) = r
    BY <1>3 DEF d
  <2> HIDE DEF r
  <2>7. Upholds(c, r.cat)
    BY <2>2, <2>5, UpholdsOn
  <2>8. QED BY <2>3, <2>5, <2>6, <2>7
<1>4. QED BY <1>1, <1>2, <1>3

LEMMA ResolveCompetitionStands ==
  ASSUME NEW c, Tables(c), NEW s
  PROVE  LET r == ResolveCompetition(c, s) IN
         /\ Upholds(c, r.cat)
         /\ r.cat.teamNames = c.teamNames /\ r.cat.teamIds = c.teamIds
         /\ r.cat.eventIds = c.eventIds
         /\ LeadsTo(r.cat.leagueIds, s.provider, s.leagueId, r.id)
<1> DEFINE key == <<s.provider, s.leagueId>>
           says == IdSays(c.leagueIds, s.provider, s.leagueId, s.league)
           c1 == IF says = "drifted"
                 THEN [c EXCEPT !.leagueIds = MarkSuspect(@, key)] ELSE c
           mapped == {k \in MappedLeague(c, s.provider, s.league, s.country) :
                        ~ OtherReference(c.competitions[k], s.provider, s.leagueId)}
           suspect == says \in {"drifted", "quarantined"}
           Known(k, t, d) ==
             [id |-> k, trust |-> t,
              cat |-> [d EXCEPT !.leagueIds =
                         SaveIdIfAny(@, s.provider, s.leagueId, k, s.league, t)]]
           r == ResolveCompetition(c, s)
           Fine(x) == /\ Upholds(c, x.cat)
                      /\ x.cat.teamNames = c.teamNames /\ x.cat.teamIds = c.teamIds
                      /\ x.cat.eventIds = c.eventIds
                      /\ LeadsTo(x.cat.leagueIds, s.provider, s.leagueId, x.id)
<1>1. /\ Upholds(c, c1)
      /\ c1.teamNames = c.teamNames /\ c1.teamIds = c.teamIds /\ c1.eventIds = c.eventIds
      /\ says # "known" /\ s.leagueId # None /\ key \in DOMAIN c1.leagueIds =>
           c1.leagueIds[key].trust # "VERIFIED"
  BY MarkedLeague
<1>2. Tables(c1)
  BY <1>1 DEF Upholds
<1>3. /\ says = "known" => r = Known(c.leagueIds[key].to, "VERIFIED", c)
      /\ says # "known" =>
           \/ \E k, t : r = Known(k, t, c1)
           \/ r = LearnCompetition(c1, s, suspect)
  BY DEF ResolveCompetition
<1>4. ASSUME NEW k, NEW t, NEW d, Tables(d), Upholds(c, d),
             d.teamNames = c.teamNames, d.teamIds = c.teamIds, d.eventIds = c.eventIds,
             s.leagueId # None /\ key \in DOMAIN d.leagueIds
               /\ d.leagueIds[key].trust = "VERIFIED" =>
                 d.leagueIds[key].to = k /\ t = "VERIFIED"
      PROVE  Fine(Known(k, t, d))
  <2> DEFINE ids == SaveIdIfAny(d.leagueIds, s.provider, s.leagueId, k, s.league, t)
             e == Known(k, t, d).cat
  <2>1. DOMAIN d = Fields
    BY <1>4 DEF Tables
  <2>2. /\ DOMAIN e = Fields /\ e.leagueIds = ids /\ e.leagueNames = d.leagueNames
        /\ e.teamNames = d.teamNames /\ e.teamIds = d.teamIds /\ e.eventIds = d.eventIds
        /\ Known(k, t, d).id = k
    BY <2>1 DEF Fields, Mappings
  <2> HIDE DEF e
  <2>3. Rows(ids) /\ Stands(d.leagueIds, ids)
    BY <1>4, SaveIdStands, StandsSelf DEF Tables, Mappings
  <2>4. LeadsTo(ids, s.provider, s.leagueId, k)
    BY SaveIdLeads
  <2> HIDE DEF ids
  <2>5. Upholds(d, e)
    BY <1>4, <2>2, <2>3, StandsSelf DEF Upholds, Tables, Mappings
  <2>6. Upholds(c, e)
    BY <1>4, <2>5, UpholdsOn
  <2>7. QED BY <1>4, <2>2, <2>4, <2>6 DEF e
<1>5. CASE says = "known"
  <2>1. c.leagueIds[key].trust = "VERIFIED" /\ key \in DOMAIN c.leagueIds
    BY <1>5 DEF IdSays
  <2>2. Upholds(c, c)
    BY UpholdsSelf
  <2> HIDE DEF Known, Fine
  <2>3. Fine(Known(c.leagueIds[key].to, "VERIFIED", c))
    BY <1>4, <2>1, <2>2
  <2>4. QED BY <1>3, <1>5, <2>3 DEF Fine
<1>6. CASE says # "known" /\ r = LearnCompetition(c1, s, suspect)
  <2> HIDE DEF c1, says, suspect, r, key
  <2> DEFINE x == LearnCompetition(c1, s, suspect)
  <2>1. /\ Upholds(c1, x.cat)
        /\ x.cat.teamNames = c1.teamNames /\ x.cat.teamIds = c1.teamIds
        /\ x.cat.eventIds = c1.eventIds
        /\ LeadsTo(x.cat.leagueIds, s.provider, s.leagueId, x.id)
    BY <1>1, <1>2, <1>6, LearnCompetitionStands DEF key
  <2> HIDE DEF x
  <2>2. Upholds(c, x.cat)
    BY <1>1, <2>1, UpholdsOn
  <2>3. r = x
    BY <1>6 DEF x
  <2>4. QED BY <1>1, <2>1, <2>2, <2>3 DEF r
<1>7. CASE says # "known" /\ \E k, t : r = Known(k, t, c1)
  <2> HIDE DEF c1, says, Known, Fine, r, key
  <2>1. PICK k, t : r = Known(k, t, c1)
    BY <1>7
  <2>2. Fine(Known(k, t, c1))
    BY <1>1, <1>2, <1>4, <1>7
  <2>3. QED BY <2>1, <2>2 DEF Fine, r
<1>8. QED BY <1>3, <1>5, <1>6, <1>7

-----------------------------------------------------------------------------
(* _resolve_team: the same, but nobody relies on where the id leads then.  *)

LEMMA MarkedTeam ==
  ASSUME NEW c, Tables(c), NEW p, NEW id, NEW raw
  PROVE  LET k == <<p, id>>
             says == IdSays(c.teamIds, p, id, raw)
             d == IF says = "drifted"
                  THEN [c EXCEPT !.teamIds = MarkSuspect(@, k)] ELSE c
         IN /\ Upholds(c, d) /\ d.eventIds = c.eventIds
            /\ says # "known" /\ id # None /\ k \in DOMAIN d.teamIds =>
                 d.teamIds[k].trust # "VERIFIED"
<1> DEFINE k == <<p, id>>
           m == c.teamIds
           says == IdSays(c.teamIds, p, id, raw)
           d == IF says = "drifted"
                THEN [c EXCEPT !.teamIds = MarkSuspect(@, k)] ELSE c
<1>1. Rows(m) /\ DOMAIN c = Fields
  BY DEF Tables, Mappings
<1>2. CASE says = "drifted"
  <2>1. id # None /\ k \in DOMAIN m /\ m[k].trust = "VERIFIED"
    BY <1>2 DEF IdSays
  <2>2. d = [c EXCEPT !.teamIds = MarkSuspect(@, k)]
    BY <1>2
  <2>3. /\ Rows(MarkSuspect(m, k)) /\ Stands(m, MarkSuspect(m, k))
        /\ MarkSuspect(m, k)[k].trust = "SUSPECT"
    BY <2>1, <1>1, MarkSuspectStands
  <2>4. DOMAIN d = Fields /\ d.teamIds = MarkSuspect(m, k)
    BY <2>2, <1>1 DEF Fields, Mappings
  <2>5. /\ d.teamNames = c.teamNames /\ d.leagueIds = c.leagueIds
        /\ d.eventIds = c.eventIds /\ d.leagueNames = c.leagueNames
    BY <2>2, <1>1 DEF Fields, Mappings
  <2> HIDE DEF k, m
  <2>6. Upholds(c, d)
    BY <2>3, <2>4, <2>5, StandsSelf DEF Upholds, Tables, Mappings, m
  <2>7. QED BY <2>3, <2>4, <2>5, <2>6 DEF k
<1>3. CASE says # "drifted"
  <2>1. d = c
    BY <1>3
  <2>2. says # "known" /\ id # None /\ k \in DOMAIN m => m[k].trust # "VERIFIED"
    BY <1>3 DEF IdSays
  <2>3. QED BY <2>1, <2>2, UpholdsSelf
<1>4. QED BY <1>2, <1>3

(* What every way of finding or making a team ends in.                     *)
LEMMA SaveTeamStands ==
  ASSUME NEW c, NEW d, Tables(d), Upholds(c, d), d.eventIds = c.eventIds,
         NEW p, NEW raw, NEW k, NEW id, NEW t, NEW trust, NEW names,
         id # None /\ <<p, id>> \in DOMAIN d.teamIds
           /\ d.teamIds[<<p, id>>].trust = "VERIFIED" =>
             d.teamIds[<<p, id>>].to = t /\ trust = "VERIFIED",
         names \in {d.teamNames, SaveName(d.teamNames, <<p, raw, k>>, t, trust)},
         NEW e, DOMAIN e = Fields, e.eventIds = d.eventIds,
         e.leagueNames = d.leagueNames, e.leagueIds = d.leagueIds, e.teamNames = names,
         e.teamIds = SaveIdIfAny(d.teamIds, p, id, t, raw, trust)
  PROVE  Upholds(c, e) /\ e.eventIds = c.eventIds
<1>1. Rows(d.teamIds) /\ Rows(d.teamNames)
  BY DEF Tables, Mappings
<1>2. Rows(e.teamNames) /\ Stands(d.teamNames, e.teamNames)
  BY <1>1, SaveNameStands, StandsSelf
<1>3. Rows(e.teamIds) /\ Stands(d.teamIds, e.teamIds)
  BY <1>1, SaveIdStands, StandsSelf
<1>4. Upholds(d, e)
  BY <1>2, <1>3, StandsSelf DEF Upholds, Tables, Mappings
<1>5. QED BY <1>4, UpholdsOn

LEMMA AdoptTeamStands ==
  ASSUME NEW c, NEW d, Tables(d), Upholds(c, d), d.eventIds = c.eventIds,
         NEW p, NEW raw, NEW k, NEW id, NEW t, NEW trust,
         id # None /\ <<p, id>> \in DOMAIN d.teamIds => d.teamIds[<<p, id>>].trust # "VERIFIED"
  PROVE  LET r == AdoptTeam(d, p, raw, k, id, t, trust) IN
         /\ DOMAIN r = {"id", "trust", "cat"}
         /\ Upholds(c, r.cat) /\ r.cat.eventIds = c.eventIds
<1> DEFINE d1 == IF trust = "VERIFIED" THEN PromoteTeam(d, p, t, id) ELSE d
           names == SaveName(d1.teamNames, <<p, raw, k>>, t, trust)
           ids == SaveIdIfAny(d1.teamIds, p, id, t, raw, trust)
           e == [d1 EXCEPT !.teamNames = SaveName(@, <<p, raw, k>>, t, trust),
                           !.teamIds = SaveIdIfAny(@, p, id, t, raw, trust)]
           r == AdoptTeam(d, p, raw, k, id, t, trust)
<1>1. r.cat = e /\ DOMAIN r = {"id", "trust", "cat"}
  BY DEF AdoptTeam
<1>2. SameMappings(d, d1)
  <2>1. DOMAIN d = Fields
    BY DEF Tables
  <2>2. SameMappings(d, d)
    BY <2>1 DEF SameMappings
  <2>3. QED BY <2>1, <2>2, OtherTables
<1> HIDE DEF d1
<1>3. /\ DOMAIN e = Fields /\ e.teamNames = names /\ e.teamIds = ids
      /\ e.leagueNames = d.leagueNames /\ e.leagueIds = d.leagueIds /\ e.eventIds = d.eventIds
  BY <1>2 DEF SameMappings, Fields, Mappings
<1>4. d1.teamNames = d.teamNames /\ d1.teamIds = d.teamIds
  BY <1>2 DEF SameMappings, Mappings
<1> HIDE DEF e, r
<1>5. Upholds(c, e) /\ e.eventIds = c.eventIds
  BY <1>3, <1>4, SaveTeamStands
<1>6. QED BY <1>1, <1>5 DEF r

LEMMA LearnTeamStands ==
  ASSUME NEW c, NEW d, Tables(d), Upholds(c, d), d.eventIds = c.eventIds,
         NEW p, NEW raw, NEW k, NEW id, NEW suspect, NEW last,
         id # None /\ <<p, id>> \in DOMAIN d.teamIds => d.teamIds[<<p, id>>].trust # "VERIFIED"
  PROVE  LET r == LearnTeam(d, p, raw, k, id, suspect, last) IN
         /\ DOMAIN r = {"id", "trust", "cat"}
         /\ Upholds(c, r.cat) /\ r.cat.eventIds = c.eventIds
<1> DEFINE r == LearnTeam(d, p, raw, k, id, suspect, last)
<1>1. PICK t, trust, name :
        \/ r = AdoptTeam(d, p, raw, k, id, t, trust)
        \/ r = AdoptTeam(CreateTeam(d, p, name, id), p, raw, k, id, t, trust)
  BY DEF LearnTeam
<1> HIDE DEF r
<1>2. CASE r = AdoptTeam(d, p, raw, k, id, t, trust)
  BY <1>2, AdoptTeamStands DEF r
<1>3. CASE r = AdoptTeam(CreateTeam(d, p, name, id), p, raw, k, id, t, trust)
  <2> DEFINE e == CreateTeam(d, p, name, id)
  <2>1. SameMappings(d, e)
    BY OtherTables DEF Tables
  <2>2. r = AdoptTeam(e, p, raw, k, id, t, trust)
    BY <1>3
  <2> HIDE DEF e
  <2>3. Upholds(c, e)
    BY <2>1, SameUpholds
  <2>4. e.teamIds = d.teamIds /\ e.eventIds = c.eventIds /\ Tables(e)
    BY <2>1, <2>3 DEF SameMappings, Mappings, Upholds
  <2>5. QED BY <2>2, <2>3, <2>4, AdoptTeamStands DEF r
<1>4. QED BY <1>1, <1>2, <1>3

LEMMA ResolveTeamStands ==
  ASSUME NEW c, Tables(c), NEW p, NEW raw, NEW k, NEW id, NEW last
  PROVE  LET r == ResolveTeam(c, p, raw, k, id, last) IN
         Upholds(c, r.cat) /\ r.cat.eventIds = c.eventIds
<1> DEFINE key == <<p, id>>
           says == IdSays(c.teamIds, p, id, raw)
           suspect == says \in {"drifted", "quarantined"}
           c1 == IF says = "drifted"
                 THEN [c EXCEPT !.teamIds = MarkSuspect(@, key)] ELSE c
           Known(t, trust, d) ==
             [id |-> t, trust |-> trust,
              cat |-> [d EXCEPT !.teamIds = SaveIdIfAny(@, p, id, t, raw, trust)]]
           Plays(x) == [x EXCEPT !.cat.plays = @ \cup {<<x.id, k>>}]
           Named(t) == [PromoteTeam(c1, p, t, id) EXCEPT
                          !.teamNames = SaveName(@, <<p, raw, k>>, t, "VERIFIED")]
           Fine(x) == /\ DOMAIN x = {"id", "trust", "cat"}
                      /\ Upholds(c, x.cat) /\ x.cat.eventIds = c.eventIds
           r == ResolveTeam(c, p, raw, k, id, last)
<1>1. /\ Upholds(c, c1) /\ c1.eventIds = c.eventIds
      /\ says # "known" /\ id # None /\ key \in DOMAIN c1.teamIds =>
           c1.teamIds[key].trust # "VERIFIED"
  BY MarkedTeam
<1>2. Tables(c1)
  BY <1>1 DEF Upholds
<1>3. /\ says = "known" => r = Plays(Known(c.teamIds[key].to, "VERIFIED", c))
      /\ says # "known" =>
           \/ \E t, trust : r = Plays(Known(t, trust, c1))
           \/ \E t : r = Plays(Known(t, "VERIFIED", Named(t)))
           \/ r = Plays(LearnTeam(c1, p, raw, k, id, suspect, last))
  BY DEF ResolveTeam
<1>4. ASSUME NEW x, Fine(x) PROVE Fine(Plays(x))
  <2>1. DOMAIN x.cat = Fields /\ Tables(x.cat)
    BY <1>4 DEF Upholds, Tables
  <2>2. /\ DOMAIN Plays(x) = {"id", "trust", "cat"}
        /\ Plays(x).cat = [x.cat EXCEPT !.plays = @ \cup {<<x.id, k>>}]
    BY <1>4
  <2>3. SameMappings(x.cat, Plays(x).cat)
    BY <2>1, <2>2 DEF SameMappings, Fields, Mappings
  <2> HIDE DEF Plays
  <2>4. Upholds(c, Plays(x).cat)
    BY <1>4, <2>3, SameUpholds
  <2>5. QED BY <1>4, <2>2, <2>3, <2>4 DEF SameMappings, Mappings
<1>5. ASSUME NEW t, NEW trust, NEW d, Tables(d), Upholds(c, d), d.eventIds = c.eventIds,
             id # None /\ key \in DOMAIN d.teamIds /\ d.teamIds[key].trust = "VERIFIED" =>
               d.teamIds[key].to = t /\ trust = "VERIFIED"
      PROVE  Fine(Known(t, trust, d))
  <2> DEFINE e == Known(t, trust, d).cat
  <2>1. DOMAIN d = Fields
    BY <1>5 DEF Tables
  <2>2. /\ DOMAIN e = Fields /\ e.teamIds = SaveIdIfAny(d.teamIds, p, id, t, raw, trust)
        /\ e.teamNames = d.teamNames /\ e.leagueNames = d.leagueNames
        /\ e.leagueIds = d.leagueIds /\ e.eventIds = d.eventIds
    BY <2>1 DEF Fields, Mappings
  <2> HIDE DEF e
  <2>3. Upholds(c, e) /\ e.eventIds = c.eventIds
    BY <1>5, <2>2, SaveTeamStands
  <2>4. QED BY <2>3 DEF e
<1>6. ASSUME NEW t PROVE Tables(Named(t)) /\ Upholds(c, Named(t))
                         /\ Named(t).eventIds = c1.eventIds /\ Named(t).teamIds = c1.teamIds
  <2> DEFINE d == PromoteTeam(c1, p, t, id)
             names == SaveName(d.teamNames, <<p, raw, k>>, t, "VERIFIED")
             e == Named(t)
  <2> HIDE DEF c1
  <2>1. SameMappings(c1, d)
    BY <1>2, OtherTables DEF Tables
  <2> HIDE DEF d
  <2>2. Upholds(c, d) /\ Tables(d)
    BY <1>1, <2>1, SameUpholds DEF Upholds
  <2>3. /\ DOMAIN e = Fields /\ e.teamNames = names /\ e.teamIds = d.teamIds
        /\ e.leagueNames = d.leagueNames /\ e.leagueIds = d.leagueIds
        /\ e.eventIds = d.eventIds
    BY <2>1 DEF SameMappings, Fields, Mappings, d
  <2> HIDE DEF e
  <2>4. Rows(names) /\ Stands(d.teamNames, names)
    BY <2>2, SaveNameStands DEF Tables, Mappings
  <2> HIDE DEF names
  <2>5. Upholds(d, e)
    BY <2>2, <2>3, <2>4, StandsSelf DEF Upholds, Tables, Mappings
  <2>6. Upholds(c, e) /\ Tables(e)
    BY <2>2, <2>5, UpholdsOn DEF Upholds
  <2>7. e.eventIds = c1.eventIds /\ e.teamIds = c1.teamIds
    BY <2>1, <2>3 DEF SameMappings, Mappings
  <2>8. QED BY <2>6, <2>7 DEF e
<1> HIDE DEF Plays, Named, c1, r, key, says
<1>7. CASE says = "known"
  <2>1. key \in DOMAIN c.teamIds
    BY <1>7 DEF IdSays, says, key
  <2>2. Fine(Known(c.teamIds[key].to, "VERIFIED", c))
    <3> HIDE DEF Known, Fine
    <3>1. QED BY <1>5, UpholdsSelf
  <2> HIDE DEF Known
  <2>3. Fine(r)
    BY <1>3, <1>4, <1>7, <2>2
  <2>4. QED BY <2>3 DEF r
<1>8. ASSUME NEW t, NEW trust, r = Plays(Known(t, trust, c1)), says # "known"
      PROVE  Fine(r)
  <2> HIDE DEF Known, Fine
  <2>1. Fine(Known(t, trust, c1))
    BY <1>1, <1>2, <1>5, <1>8
  <2>2. QED BY <1>4, <1>8, <2>1
<1>9. ASSUME NEW t, r = Plays(Known(t, "VERIFIED", Named(t))), says # "known"
      PROVE  Fine(r)
  <2> HIDE DEF Known, Fine
  <2>1. Fine(Known(t, "VERIFIED", Named(t)))
    BY <1>1, <1>5, <1>6, <1>9
  <2>2. QED BY <1>4, <1>9, <2>1
<1>10. ASSUME r = Plays(LearnTeam(c1, p, raw, k, id, suspect, last)), says # "known"
       PROVE  Fine(r)
  <2> HIDE DEF suspect
  <2>1. Fine(LearnTeam(c1, p, raw, k, id, suspect, last))
    BY <1>1, <1>2, <1>10, LearnTeamStands DEF key
  <2> HIDE DEF Fine
  <2>2. QED BY <1>4, <1>10, <2>1
<1>11. CASE says # "known"
  <2>1. Fine(r)
    <3> HIDE DEF Fine, Known
    <3>1. QED BY <1>3, <1>8, <1>9, <1>10, <1>11
  <2>2. QED BY <2>1 DEF r
<1>12. QED BY <1>7, <1>11

-----------------------------------------------------------------------------
(* _learn_identity_from_event_context.  The home side is saved before the  *)
(* away side is, possibly under the same id: what may be written over is   *)
(* decided by the tables b before both.                                    *)

LEMMA LearnSideStands ==
  ASSUME NEW b, NEW c, Tables(c), Upholds(b, c),
         NEW p, NEW k, NEW raw, NEW t, NEW id, LeadsTo(b.teamIds, p, id, t)
  PROVE  LET d == LearnSide(c, p, k, raw, t, id) IN
         Upholds(b, d) /\ d.eventIds = c.eventIds
<1> DEFINE c1 == [c EXCEPT !.teamNames = SaveName(@, <<p, raw, k>>, t, "VERIFIED"),
                           !.teamIds = SaveIdIfAny(@, p, id, t, raw, "VERIFIED"),
                           !.plays = @ \cup {<<t, k>>}]
           names == SaveName(c.teamNames, <<p, raw, k>>, t, "VERIFIED")
           ids == SaveIdIfAny(c.teamIds, p, id, t, raw, "VERIFIED")
           d == LearnSide(c, p, k, raw, t, id)
<1>1. DOMAIN c = Fields
  BY DEF Tables
<1>2. /\ DOMAIN c1 = Fields /\ c1.teamNames = names /\ c1.teamIds = ids
      /\ c1.leagueNames = c.leagueNames /\ c1.leagueIds = c.leagueIds
      /\ c1.eventIds = c.eventIds
  BY <1>1 DEF Fields, Mappings
<1>3. d = PromoteTeam(c1, p, t, id)
  BY DEF LearnSide
<1> HIDE DEF c1, d
<1>4. Rows(names) /\ Stands(c.teamNames, names)
  BY SaveNameStands DEF Tables, Mappings
<1>5. Rows(ids) /\ Stands(b.teamIds, ids)
  <2>1. Rows(c.teamIds) /\ Stands(b.teamIds, c.teamIds)
    BY DEF Tables, Upholds, Mappings
  <2>2. id # None /\ <<p, id>> \in DOMAIN b.teamIds
          /\ b.teamIds[<<p, id>>].trust = "VERIFIED" => b.teamIds[<<p, id>>].to = t
    BY DEF LeadsTo
  <2>3. QED BY <2>1, <2>2, SaveIdStands
<1> HIDE DEF names, ids
<1>6. Stands(b.teamNames, names)
  BY <1>4, StandsOn DEF Upholds, Mappings
<1>7. Upholds(b, c1)
  BY <1>2, <1>4, <1>5, <1>6 DEF Upholds, Tables, Mappings
<1>8. SameMappings(c1, d)
  BY <1>2, <1>3, OtherTables
<1>9. Upholds(b, d)
  BY <1>7, <1>8, SameUpholds
<1>10. QED BY <1>2, <1>8, <1>9 DEF SameMappings, Mappings, d

LEMMA LearnFromEventStands ==
  ASSUME NEW c, Tables(c), NEW s, NEW e,
         LeadsTo(c.teamIds, s.provider, s.homeId, c.events[e].home),
         LeadsTo(c.teamIds, s.provider, s.awayId, c.events[e].away),
         LeadsTo(c.leagueIds, s.provider, s.leagueId, c.events[e].competition)
  PROVE  LET d == LearnFromEvent(c, s, e) IN
         Upholds(c, d) /\ d.eventIds = c.eventIds
<1> DEFINE k == c.events[e].competition
           home == c.events[e].home
           away == c.events[e].away
           c1 == LearnSide(c, s.provider, k, s.home, home, s.homeId)
           c2 == LearnSide(c1, s.provider, k, s.away, away, s.awayId)
           c3 == [c2 EXCEPT
               !.leagueNames = SaveName(@, <<s.provider, s.league, s.country>>, k, "VERIFIED"),
               !.leagueIds = SaveIdIfAny(@, s.provider, s.leagueId, k, s.league, "VERIFIED")]
           names == SaveName(c2.leagueNames, <<s.provider, s.league, s.country>>, k, "VERIFIED")
           ids == SaveIdIfAny(c2.leagueIds, s.provider, s.leagueId, k, s.league, "VERIFIED")
           d == LearnFromEvent(c, s, e)
<1>1. d = PromoteCompetition(c3, s.provider, k, s.leagueId, s.country)
  BY DEF LearnFromEvent
<1> HIDE DEF d, k, home, away
<1>2. Upholds(c, c1) /\ c1.eventIds = c.eventIds
  BY UpholdsSelf, LearnSideStands DEF home
<1> HIDE DEF c1
<1>3. Upholds(c, c2) /\ c2.eventIds = c.eventIds
  BY <1>2, LearnSideStands DEF away, Upholds
<1> HIDE DEF c2
<1>4. Tables(c2) /\ DOMAIN c2 = Fields
  BY <1>3 DEF Upholds, Tables
<1>5. /\ DOMAIN c3 = Fields /\ c3.leagueNames = names /\ c3.leagueIds = ids
      /\ c3.teamNames = c2.teamNames /\ c3.teamIds = c2.teamIds
      /\ c3.eventIds = c2.eventIds
  BY <1>4 DEF Fields, Mappings
<1> HIDE DEF c3
<1>6. Rows(names) /\ Stands(c2.leagueNames, names)
  BY <1>4, SaveNameStands DEF Tables, Mappings
<1>7. Rows(ids) /\ Stands(c.leagueIds, ids)
  <2>1. Rows(c2.leagueIds) /\ Stands(c.leagueIds, c2.leagueIds)
    BY <1>3 DEF Tables, Upholds, Mappings
  <2>2. s.leagueId # None /\ <<s.provider, s.leagueId>> \in DOMAIN c.leagueIds
          /\ c.leagueIds[<<s.provider, s.leagueId>>].trust = "VERIFIED" =>
            c.leagueIds[<<s.provider, s.leagueId>>].to = k
    BY DEF LeadsTo, k
  <2>3. QED BY <2>1, <2>2, SaveIdStands
<1> HIDE DEF names, ids
<1>8. Stands(c.leagueNames, names)
  BY <1>3, <1>6, StandsOn DEF Upholds, Mappings
<1>9. Upholds(c, c3)
  BY <1>3, <1>5, <1>6, <1>7, <1>8 DEF Upholds, Tables, Mappings
<1>10. SameMappings(c3, d)
  BY <1>1, <1>5, OtherTables
<1>11. Upholds(c, d)
  BY <1>9, <1>10, SameUpholds
<1>12. QED BY <1>3, <1>5, <1>10, <1>11 DEF SameMappings, Mappings, d

-----------------------------------------------------------------------------
(* match, path by path.                                                    *)

(* Saving the fixture's own id at the end of any path.                     *)
LEMMA SaveFixtureStands ==
  ASSUME NEW c, NEW d, Upholds(c, d), d.eventIds = c.eventIds,
         NEW s, NEW e, NEW trust, NEW m,
         \/ m = c.eventIds
         \/ m = SaveEventId(c.eventIds, s, e, trust),
         LET key == <<s.provider, s.eventId>> IN
         m # c.eventIds /\ key \in DOMAIN c.eventIds
           /\ c.eventIds[key].trust = "VERIFIED" =>
             c.eventIds[key].to = e /\ trust = "VERIFIED"
  PROVE  Upholds(c, [d EXCEPT !.eventIds = m])
<1> DEFINE f == [d EXCEPT !.eventIds = m]
<1>1. Tables(d) /\ DOMAIN d = Fields
  BY DEF Upholds, Tables
<1>2. Rows(c.eventIds)
  BY <1>1 DEF Tables, Mappings
<1>3. Rows(m) /\ Stands(c.eventIds, m)
  <2>1. CASE m = c.eventIds
    BY <2>1, <1>2, StandsSelf
  <2>2. CASE m # c.eventIds
    BY <2>2, <1>2, SaveEventIdStands
  <2>3. QED BY <2>1, <2>2
<1>4. /\ DOMAIN f = Fields /\ f.eventIds = m
      /\ f.teamNames = d.teamNames /\ f.teamIds = d.teamIds
      /\ f.leagueNames = d.leagueNames /\ f.leagueIds = d.leagueIds
  BY <1>1 DEF Fields, Mappings
<1> HIDE DEF f
<1>5. Upholds(c, f)
  BY <1>1, <1>3, <1>4 DEF Upholds, Tables, Mappings
<1>6. QED BY <1>5 DEF f

LEMMA KnownFixtureStands ==
  ASSUME NEW c, Tables(c), NEW s, s.eventId # None,
         NEW key, key = <<s.provider, s.eventId>>, key \in DOMAIN c.eventIds,
         Compatible(c, s, c.eventIds[key])
  PROVE  Upholds(c, KnownFixture(c, s, c.eventIds[key].to).cat)
<1> DEFINE e == c.eventIds[key].to
           d == LearnFromEvent(c, s, e)
           c1 == SyncStart(d, s, e)
           f == KnownFixture(c, s, e).cat
<1>1. /\ LeadsTo(c.teamIds, s.provider, s.homeId, c.events[e].home)
      /\ LeadsTo(c.teamIds, s.provider, s.awayId, c.events[e].away)
      /\ LeadsTo(c.leagueIds, s.provider, s.leagueId, c.events[e].competition)
  BY DEF Compatible
<1>2. f = [c1 EXCEPT !.eventIds = SaveEventId(c1.eventIds, s, e, "VERIFIED")]
  BY DEF KnownFixture
<1>3. c.eventIds[key].to = e
  OBVIOUS
<1> HIDE DEF e, f
<1>4. Upholds(c, d) /\ d.eventIds = c.eventIds
  BY <1>1, LearnFromEventStands
<1> HIDE DEF d
<1>5. SameMappings(d, c1)
  BY <1>4, OtherTables DEF Upholds, Tables
<1> HIDE DEF c1
<1>6. Upholds(c, c1) /\ c1.eventIds = c.eventIds
  BY <1>4, <1>5, SameUpholds DEF SameMappings, Mappings
<1>7. Upholds(c, f)
  BY <1>2, <1>3, <1>6, SaveFixtureStands
<1>8. QED BY <1>7 DEF f, e

(* The evidence of an id that leads to another team excludes an event.     *)
LEMMA EvidenceLeads ==
  ASSUME NEW c, NEW p, NEW raw, NEW t, NEW id, ~ LeadsTo(c.teamIds, p, id, t)
  PROVE  Evidence(c, p, raw, t, id) = -1
<1>1. /\ id # None /\ <<p, id>> \in DOMAIN c.teamIds
      /\ c.teamIds[<<p, id>>].trust = "VERIFIED" /\ c.teamIds[<<p, id>>].to # t
  BY DEF LeadsTo
<1>2. QED BY <1>1 DEF Evidence

LEMMA ContextLeads ==
  ASSUME NEW c, NEW s, NEW comp, NEW e \in ByContext(c, s, comp)
  PROVE  /\ LeadsTo(c.teamIds, s.provider, s.homeId, c.events[e].home)
         /\ LeadsTo(c.teamIds, s.provider, s.awayId, c.events[e].away)
         /\ c.events[e].competition = comp.id
<1> DEFINE h == Evidence(c, s.provider, s.home, c.events[e].home, s.homeId)
           a == Evidence(c, s.provider, s.away, c.events[e].away, s.awayId)
<1>1. Score(h, a) > 0 /\ c.events[e].competition = comp.id
  BY DEF ByContext
<1>2. h # -1 /\ a # -1
  <2> HIDE DEF h, a
  <2>1. Score(-1, a) = 0 /\ Score(h, -1) = 0
    BY DEF Score
  <2>2. QED BY <1>1, <2>1
<1>3. QED BY <1>1, <1>2, EvidenceLeads

LEMMA FixtureInContextStands ==
  ASSUME NEW c, Tables(c), NEW s, NEW comp, NEW e \in ByContext(c, s, comp),
         LeadsTo(c.leagueIds, s.provider, s.leagueId, comp.id),
         Unmapped(c.eventIds, s)
  PROVE  Upholds(c, FixtureInContext(c, s, e).cat)
<1> DEFINE d == LearnFromEvent(c, s, e)
           c1 == SyncStart(d, s, e)
           c2 == PromoteEvent(c1, s.provider, e, s.eventId)
           m == SaveEventIdIfAny(c2.eventIds, s, e, "VERIFIED")
           f == FixtureInContext(c, s, e).cat
<1>1. f = [c2 EXCEPT !.eventIds = m]
  BY DEF FixtureInContext
<1> HIDE DEF f
<1>2. Upholds(c, d) /\ d.eventIds = c.eventIds
  BY ContextLeads, LearnFromEventStands
<1> HIDE DEF d
<1>3. SameMappings(d, c1)
  BY <1>2, OtherTables DEF Upholds, Tables
<1> HIDE DEF c1
<1>4. SameMappings(c1, c2)
  BY <1>3, OtherTables DEF SameMappings
<1> HIDE DEF c2
<1>5. Upholds(c, c2) /\ c2.eventIds = c.eventIds
  BY <1>2, <1>3, <1>4, SameUpholds DEF SameMappings, Mappings
<1>6. \/ m = c.eventIds
      \/ s.eventId # None /\ m = SaveEventId(c.eventIds, s, e, "VERIFIED")
  BY <1>5 DEF SaveEventIdIfAny
<1> HIDE DEF m
<1>7. Upholds(c, f)
  BY <1>1, <1>5, <1>6, SaveFixtureStands DEF Unmapped
<1>8. QED BY <1>7 DEF f

LEMMA ResolveEventKeeps ==
  ASSUME NEW c, DOMAIN c = Fields, NEW s, NEW k, NEW home, NEW away
  PROVE  SameMappings(c, ResolveEvent(c, s, k, home, away).cat)
<1>1. PICK e, row :
        \/ ResolveEvent(c, s, k, home, away).cat =
             PromoteEvent(SyncStart(c, s, e), s.provider, e, s.eventId)
        \/ ResolveEvent(c, s, k, home, away).cat = [c EXCEPT !.events = Put(@, e, row)]
  BY DEF ResolveEvent
<1>2. CASE ResolveEvent(c, s, k, home, away).cat =
             PromoteEvent(SyncStart(c, s, e), s.provider, e, s.eventId)
  <2> DEFINE d == SyncStart(c, s, e)
             f == PromoteEvent(d, s.provider, e, s.eventId)
  <2>1. SameMappings(c, d)
    BY OtherTables
  <2> HIDE DEF d
  <2>2. SameMappings(d, f)
    BY <2>1, OtherTables DEF SameMappings
  <2>3. ResolveEvent(c, s, k, home, away).cat = f
    BY <1>2 DEF d
  <2> HIDE DEF f
  <2>4. QED BY <2>1, <2>2, <2>3 DEF SameMappings
<1>3. CASE ResolveEvent(c, s, k, home, away).cat = [c EXCEPT !.events = Put(@, e, row)]
  BY <1>3 DEF SameMappings, Fields, Mappings
<1>4. QED BY <1>1, <1>2, <1>3

LEMMA FixtureOfSidesStands ==
  ASSUME NEW c, NEW s, NEW comp, NEW home, NEW away,
         Upholds(c, away.cat), away.cat.eventIds = c.eventIds, Unmapped(c.eventIds, s)
  PROVE  Upholds(c, FixtureOfSides(s, comp, home, away).cat)
<1> DEFINE event == ResolveEvent(away.cat, s, comp.id, home.id, away.id)
           d == event.cat
           f == FixtureOfSides(s, comp, home, away).cat
<1>1. PICK trust : f = [d EXCEPT !.eventIds = SaveEventIdIfAny(@, s, event.id, trust)]
  BY DEF FixtureOfSides
<1> DEFINE m == SaveEventIdIfAny(d.eventIds, s, event.id, trust)
<1>2. f = [d EXCEPT !.eventIds = m]
  BY <1>1
<1> HIDE DEF f
<1>3. SameMappings(away.cat, d)
  BY ResolveEventKeeps DEF Upholds, Tables
<1> HIDE DEF event
<1>4. Upholds(c, d) /\ d.eventIds = c.eventIds
  BY <1>3, SameUpholds DEF SameMappings, Mappings
<1>5. \/ m = c.eventIds
      \/ s.eventId # None /\ m = SaveEventId(c.eventIds, s, event.id, trust)
  BY <1>4 DEF SaveEventIdIfAny
<1> HIDE DEF m, d
<1>6. Upholds(c, f)
  BY <1>2, <1>4, <1>5, SaveFixtureStands DEF Unmapped
<1>7. QED BY <1>6 DEF f

LEMMA FixtureInStands ==
  ASSUME NEW c, NEW s, NEW comp, NEW last,
         Upholds(c, comp.cat), comp.cat.eventIds = c.eventIds, Unmapped(c.eventIds, s),
         LeadsTo(comp.cat.leagueIds, s.provider, s.leagueId, comp.id)
  PROVE  Upholds(c, FixtureIn(s, comp, last).cat)
<1> DEFINE found == ByContext(comp.cat, s, comp)
           home == ResolveTeam(comp.cat, s.provider, s.home, comp.id, s.homeId, last)
           away == ResolveTeam(home.cat, s.provider, s.away, comp.id, s.awayId, last)
           r == FixtureIn(s, comp, last)
<1>1. Tables(comp.cat)
  BY DEF Upholds
<1>2. CASE found # {}
  <2> DEFINE e == CHOOSE x \in found : TRUE
             f == FixtureInContext(comp.cat, s, e)
  <2>1. e \in found /\ r = f
    BY <1>2 DEF FixtureIn
  <2> HIDE DEF e, r
  <2>2. Upholds(comp.cat, f.cat)
    BY <1>1, <2>1, FixtureInContextStands
  <2>3. Upholds(c, f.cat)
    BY <2>2, UpholdsOn
  <2>4. QED BY <2>1, <2>3 DEF r
<1>3. CASE found = {}
  <2> DEFINE f == FixtureOfSides(s, comp, home, away)
  <2>1. r = f
    BY <1>3 DEF FixtureIn, FixtureOfHome
  <2> HIDE DEF r
  <2>2. Upholds(comp.cat, home.cat) /\ home.cat.eventIds = comp.cat.eventIds
    BY <1>1, ResolveTeamStands
  <2> HIDE DEF home
  <2>3. Upholds(home.cat, away.cat) /\ away.cat.eventIds = home.cat.eventIds
    BY <2>2, ResolveTeamStands DEF Upholds
  <2> HIDE DEF away
  <2>4. Upholds(c, away.cat) /\ away.cat.eventIds = c.eventIds
    BY <2>2, <2>3, UpholdsOn
  <2>5. Upholds(c, f.cat)
    BY <2>4, FixtureOfSidesStands
  <2>6. QED BY <2>1, <2>5 DEF r
<1>4. QED BY <1>2, <1>3

LEMMA MatchStands ==
  ASSUME NEW c, Tables(c), NEW s, NEW last
  PROVE  Upholds(c, Match(c, s, last).cat)
<1> DEFINE key == <<s.provider, s.eventId>>
           tried == s.eventId # None /\ key \in DOMAIN c.eventIds
                      /\ c.eventIds[key].trust = "VERIFIED"
           d == IF tried THEN [c EXCEPT !.eventIds = MarkSuspect(@, key)] ELSE c
           comp == ResolveCompetition(d, s)
           r == Match(c, s, last)
<1>1. CASE tried /\ Compatible(c, s, c.eventIds[key])
  <2>1. r = KnownFixture(c, s, c.eventIds[key].to)
    BY <1>1 DEF Match
  <2> HIDE DEF r
  <2>2. Upholds(c, KnownFixture(c, s, c.eventIds[key].to).cat)
    BY <1>1, KnownFixtureStands
  <2>3. QED BY <2>1, <2>2 DEF r
<1>2. CASE ~ (tried /\ Compatible(c, s, c.eventIds[key]))
  <2>1. r = FixtureIn(s, comp, last)
    BY <1>2 DEF Match
  <2> HIDE DEF r
  <2>2. Upholds(c, d) /\ Unmapped(d.eventIds, s)
    <3>1. CASE tried
      <4> DEFINE m == MarkSuspect(c.eventIds, key)
      <4>1. DOMAIN c = Fields /\ Rows(c.eventIds)
        BY DEF Tables, Mappings
      <4>2. d = [c EXCEPT !.eventIds = MarkSuspect(@, key)]
        BY <3>1
      <4>3. /\ DOMAIN d = Fields /\ d.eventIds = m
            /\ d.teamNames = c.teamNames /\ d.teamIds = c.teamIds
            /\ d.leagueNames = c.leagueNames /\ d.leagueIds = c.leagueIds
        BY <4>1, <4>2 DEF Fields, Mappings
      <4>4. Rows(m) /\ Stands(c.eventIds, m) /\ m[key].trust = "SUSPECT"
        BY <3>1, <4>1, MarkSuspectStands
      <4> HIDE DEF d, m
      <4>5. Upholds(c, d)
        BY <4>3, <4>4, StandsSelf DEF Upholds, Tables, Mappings
      <4>6. Unmapped(d.eventIds, s)
        BY <4>3, <4>4 DEF Unmapped
      <4>7. QED BY <4>5, <4>6 DEF d
    <3>2. CASE ~ tried
      <4>1. d = c
        BY <3>2
      <4>2. Unmapped(c.eventIds, s)
        BY <3>2 DEF Unmapped
      <4>3. QED BY <4>1, <4>2, UpholdsSelf
    <3>3. QED BY <3>1, <3>2
  <2> HIDE DEF d
  <2>3. /\ Upholds(d, comp.cat) /\ comp.cat.eventIds = d.eventIds
        /\ LeadsTo(comp.cat.leagueIds, s.provider, s.leagueId, comp.id)
    BY <2>2, ResolveCompetitionStands DEF Upholds
  <2> HIDE DEF comp
  <2>4. Upholds(d, FixtureIn(s, comp, last).cat)
    BY <2>2, <2>3, FixtureInStands
  <2>5. Upholds(c, FixtureIn(s, comp, last).cat)
    BY <2>2, <2>4, UpholdsOn
  <2>6. QED BY <2>1, <2>5 DEF r
<1>3. QED BY <1>1, <1>2

-----------------------------------------------------------------------------
(* The steps.                                                              *)

LEMMA IngestStands ==
  ASSUME Inv, NEW s, NEW last, Ingest(s, last)
  PROVE  Upholds(cat, cat') /\ reviews' = reviews
<1>1. Tables(cat)
  BY DEF Inv
<1>2. cat' = Match(cat, s, last).cat \/ cat' = cat
  BY DEF Ingest
<1>3. Upholds(cat, Match(cat, s, last).cat)
  BY <1>1, MatchStands
<1>4. Upholds(cat, cat)
  BY <1>1, UpholdsSelf
<1>5. reviews' = reviews
  BY DEF Ingest
<1>6. QED BY <1>2, <1>3, <1>4, <1>5

(* A reviewer may change anything, but leaves tables behind.               *)
LEMMA ReviewerRows ==
  ASSUME NEW m, Rows(m)
  PROVE  /\ \A k, to : Rows(Override(m, k, to))
         /\ \A p, id, to, raw : Rows(OverrideIdIfAny(m, p, id, to, raw))
         /\ \A k : Rows(RejectRow(m, k))
<1>1. ASSUME NEW k, NEW to PROVE Rows(Override(m, k, to))
  BY PutRows DEF Override
<1>2. ASSUME NEW p, NEW id, NEW to, NEW raw PROVE Rows(OverrideIdIfAny(m, p, id, to, raw))
  BY PutRows DEF OverrideIdIfAny, OverrideId
<1>3. ASSUME NEW k PROVE Rows(RejectRow(m, k))
  BY DEF RejectRow, Rows
<1>4. QED BY <1>1, <1>2, <1>3

LEMMA ReviewTables ==
  ASSUME Inv, NEW s, Review(s) PROVE Tables(cat') /\ reviews' = reviews + 1
<1>1. DOMAIN cat = Fields /\ \A x \in Mappings : Rows(cat[x])
  BY DEF Inv, Tables
<1> USE DEF Fields, Mappings, Tables
<1>2. ASSUME NEW p, NEW raw, NEW id, NEW k, NEW t, VerifyTeam(p, raw, id, k, t)
      PROVE  Tables(cat') /\ reviews' = reviews + 1
  BY <1>1, <1>2, ReviewerRows DEF VerifyTeam, Decide
<1>3. ASSUME NEW p, NEW raw, NEW id, NEW k, RejectTeam(p, raw, id, k)
      PROVE  Tables(cat') /\ reviews' = reviews + 1
  BY <1>1, <1>3, ReviewerRows DEF RejectTeam, Decide
<1>4. ASSUME NEW p, NEW raw, NEW id, NEW country, NEW k,
             VerifyCompetition(p, raw, id, country, k)
      PROVE  Tables(cat') /\ reviews' = reviews + 1
  BY <1>1, <1>4, ReviewerRows DEF VerifyCompetition, Decide
<1>5. ASSUME NEW p, NEW raw, NEW id, NEW country, RejectCompetition(p, raw, id, country)
      PROVE  Tables(cat') /\ reviews' = reviews + 1
  BY <1>1, <1>5, ReviewerRows DEF RejectCompetition, Decide
<1>6. ASSUME NEW e, VerifyEvent(s, e)
      PROVE  Tables(cat') /\ reviews' = reviews + 1
  <2> DEFINE key == <<s.provider, s.eventId>>
             others == [x \in DOMAIN cat.eventIds \ {key} |-> cat.eventIds[x]]
             m == SaveEventId(others, s, e, "VERIFIED")
             c == [cat EXCEPT !.eventIds = m]
  <2>1. cat' = PromoteEvent(c, s.provider, e, s.eventId) /\ reviews' = reviews + 1
    BY <1>6 DEF VerifyEvent, Decide
  <2>2. Rows(others) /\ key \notin DOMAIN others
    BY <1>1 DEF Rows
  <2> HIDE DEF others
  <2>3. Rows(m)
    BY <2>2, SaveEventIdStands
  <2> HIDE DEF m
  <2>4. Tables(c)
    BY <1>1, <2>3
  <2> HIDE DEF c
  <2>5. SameMappings(c, cat')
    BY <2>1, <2>4, OtherTables
  <2>6. QED BY <2>1, <2>4, <2>5 DEF SameMappings
<1>7. ASSUME NEW p, NEW id, RejectEvent(p, id)
      PROVE  Tables(cat') /\ reviews' = reviews + 1
  BY <1>1, <1>7, ReviewerRows DEF RejectEvent, Decide
<1> HIDE DEF Fields, Mappings, Tables
<1>8. QED BY <1>2, <1>3, <1>4, <1>5, <1>6, <1>7 DEF Review

LEMMA InvInit == Init => Inv
BY DEF Init, Inv, Tables, Rows, NoRows, Fields, Mappings

LEMMA StepStands ==
  ASSUME Inv, [Next]_vars
  PROVE  Inv' /\ (reviews' = reviews => Upholds(cat, cat'))
<1>1. ASSUME NEW s, NEW last, Ingest(s, last)
      PROVE  Inv' /\ (reviews' = reviews => Upholds(cat, cat'))
  BY <1>1, IngestStands DEF Inv, Upholds
<1>2. ASSUME NEW s, Review(s)
      PROVE  Inv' /\ (reviews' = reviews => Upholds(cat, cat'))
  <2>1. Tables(cat') /\ reviews' = reviews + 1
    BY <1>2, ReviewTables
  <2>2. Inv' /\ reviews' # reviews
    BY <2>1 DEF Inv
  <2>3. QED BY <2>2
<1>3. CASE UNCHANGED vars
  BY <1>3, UpholdsSelf DEF Inv, vars
<1>4. QED BY <1>1, <1>2, <1>3 DEF Next

(* Every row of the mapping tables has a target and a state, and the       *)
(* reviewer's decisions are counted.                                       *)
THEOREM Shape == Spec => []Inv
<1>1. Inv /\ [Next]_vars => Inv'
  BY StepStands
<1>2. QED BY <1>1, InvInit, PTL DEF Spec

(* Ingestion does not learn again what was rejected or is suspect, along   *)
(* no path of match, for any names, aliases, ratios, ids and sightings.    *)
THEOREM ClosedStaysClosed == Spec => ClosedDecisionsStand
<1> DEFINE Stand ==
       reviews' = reviews =>
         \A m \in Mappings : \A k \in DOMAIN cat[m] :
           cat[m][k].trust \in Closed =>
             /\ k \in DOMAIN cat'[m]
             /\ cat'[m][k].to = cat[m][k].to
             /\ cat'[m][k].trust = cat[m][k].trust
<1>1. ASSUME Inv, [Next]_vars PROVE [Stand]_vars
  <2> SUFFICES ASSUME reviews' = reviews PROVE Stand
    OBVIOUS
  <2>1. \A m \in Mappings : Stands(cat[m], cat'[m])
    BY <1>1, StepStands DEF Upholds
  <2>2. QED BY <2>1 DEF Stands
<1>2. QED BY <1>1, Shape, PTL DEF Spec, ClosedDecisionsStand

(* Ingestion never re-points a VERIFIED mapping; all it can do to one is   *)
(* put it into quarantine.                                                 *)
THEOREM VerifiedStaysPut == Spec => VerifiedMappingsStand
<1> DEFINE Stand ==
       reviews' = reviews =>
         \A m \in Mappings : \A k \in DOMAIN cat[m] :
           cat[m][k].trust = "VERIFIED" =>
             /\ k \in DOMAIN cat'[m]
             /\ cat'[m][k].to = cat[m][k].to
             /\ cat'[m][k].trust \in {"VERIFIED", "SUSPECT"}
<1>1. ASSUME Inv, [Next]_vars PROVE [Stand]_vars
  <2> SUFFICES ASSUME reviews' = reviews PROVE Stand
    OBVIOUS
  <2>1. \A m \in Mappings : Stands(cat[m], cat'[m])
    BY <1>1, StepStands DEF Upholds
  <2>2. QED BY <2>1 DEF Stands
<1>2. QED BY <1>1, Shape, PTL DEF Spec, VerifiedMappingsStand

-----------------------------------------------------------------------------
(***************************************************************************)
(* The tables are well-formed.  Sane says what every state of the tables   *)
(* satisfies, inside a transaction too: an id exists before anything leads *)
(* to it, and ids are never taken away.  The unique indexes hold as long   *)
(* as ok does.  Each operator is shown to reach sane tables that have all  *)
(* the ids of the tables it was given, so what one step of match returned  *)
(* is still there for the next.                                            *)
(***************************************************************************)

(* What the catalog's entities look like.                                  *)
Ref == SourceId \cup {None}
Competition == [name : Name, country : Country \cup {None}, ref : Ref]
Team == [name : Name, ref : Ref]
Event == [competition : Nat, home : Nat, away : Nat, start : Nat, by : Provider, ref : Ref]

(* A table whose ids were given in order.                                  *)
Table(f, T) == \E n \in Nat : f \in [1 .. n -> T]

(* What the unique indexes promise of a table.                             *)
RefsDiffer(f) == \A k \in DOMAIN f : f[k].ref = None \/ Unused(f, f[k].ref, k)
NamesDiffer(c) ==
  \A k \in DOMAIN c.competitions :
    ~ NameTaken(c, c.competitions[k].name, c.competitions[k].country, k)
Indexed(c) ==
  NamesDiffer(c) /\ RefsDiffer(c.competitions) /\ RefsDiffer(c.teams) /\ RefsDiffer(c.events)

Entities(c) ==
  /\ Table(c.competitions, Competition) /\ Table(c.teams, Team) /\ Table(c.events, Event)
  /\ c.plays \subseteq (DOMAIN c.teams) \X (DOMAIN c.competitions)
  /\ \A e \in DOMAIN c.events :
       {<<c.events[e].home, c.events[e].competition>>,
        <<c.events[e].away, c.events[e].competition>>} \subseteq c.plays
  /\ c.ok => Indexed(c)

(* A mapping table into the ids T.                                         *)
Leads(m, T) == Rows(m) /\ \A k \in DOMAIN m : m[k].trust \in Trust /\ m[k].to \in T

Mapped(c) ==
  /\ Leads(c.teamNames, DOMAIN c.teams) /\ Leads(c.teamIds, DOMAIN c.teams)
  /\ Leads(c.leagueNames, DOMAIN c.competitions) /\ Leads(c.leagueIds, DOMAIN c.competitions)
  /\ Leads(c.eventIds, DOMAIN c.events)

Sane(c) == DOMAIN c = Fields /\ Entities(c) /\ Mapped(c)

(* d has what c has, and is sane.                                          *)
Grows(c, d) ==
  /\ DOMAIN c.teams \subseteq DOMAIN d.teams
  /\ DOMAIN c.competitions \subseteq DOMAIN d.competitions
  /\ DOMAIN c.events \subseteq DOMAIN d.events
  /\ c.plays \subseteq d.plays
Reaches(c, d) == Sane(d) /\ Grows(c, d)

-----------------------------------------------------------------------------
LEMMA SaneTables == ASSUME NEW c, Sane(c) PROVE Tables(c)
BY DEF Sane, Tables, Mapped, Leads, Mappings

LEMMA ReachesOn ==
  ASSUME NEW c, NEW d, NEW e, Reaches(c, d), Reaches(d, e) PROVE Reaches(c, e)
BY DEF Reaches, Grows

LEMMA ReachesSelf == ASSUME NEW c, Sane(c) PROVE Reaches(c, c)
BY DEF Reaches, Grows

LEMMA LeadsOn == ASSUME NEW m, NEW S, NEW T, Leads(m, S), S \subseteq T PROVE Leads(m, T)
BY DEF Leads

(* The entities changed, the mappings did not.                             *)
LEMMA EntitiesReach ==
  ASSUME NEW c, NEW d, Sane(c), SameMappings(c, d), Entities(d), Grows(c, d)
  PROVE  Reaches(c, d)
<1>1. /\ d.teamNames = c.teamNames /\ d.teamIds = c.teamIds /\ d.leagueNames = c.leagueNames
      /\ d.leagueIds = c.leagueIds /\ d.eventIds = c.eventIds /\ DOMAIN d = Fields
  BY DEF SameMappings, Mappings
<1>2. Mapped(d)
  BY <1>1, LeadsOn DEF Sane, Mapped, Grows
<1>3. QED BY <1>1, <1>2 DEF Sane, Reaches

(* The mappings changed, and perhaps a membership was added.               *)
LEMMA MappingsReach ==
  ASSUME NEW c, NEW d, Sane(c), DOMAIN d = Fields, d.ok = c.ok,
         d.competitions = c.competitions, d.teams = c.teams, d.events = c.events,
         c.plays \subseteq d.plays, d.plays \subseteq (DOMAIN c.teams) \X (DOMAIN c.competitions),
         Mapped(d)
  PROVE  Reaches(c, d)
<1>1. Entities(c) /\ Grows(c, d)
  BY DEF Sane, Grows
<1>2. Indexed(c) => Indexed(d)
  BY DEF Indexed, NamesDiffer, NameTaken
<1>3. \A e \in DOMAIN d.events :
       {<<d.events[e].home, d.events[e].competition>>,
        <<d.events[e].away, d.events[e].competition>>} \subseteq d.plays
  BY <1>1 DEF Entities
<1>4. Entities(d)
  BY <1>1, <1>2, <1>3 DEF Entities
<1>5. QED BY <1>1, <1>4 DEF Reaches, Sane

-----------------------------------------------------------------------------
(* Tables of entities.                                                     *)
LEMMA NextIdIsNew ==
  ASSUME NEW f, NEW T, Table(f, T), NEW row \in T
  PROVE  /\ NextId(f) \in Nat /\ NextId(f) \notin DOMAIN f /\ 0 \notin DOMAIN f
         /\ Table(Put(f, NextId(f), row), T)
<1>1. PICK n \in Nat : f \in [1 .. n -> T]
  BY DEF Table
<1>2. Cardinality(1 .. n) = n
  BY FS_Interval
<1>3. DOMAIN f = 1 .. n /\ NextId(f) = n + 1
  BY <1>1, <1>2 DEF NextId
<1>4. 1 .. n + 1 = (1 .. n) \cup {n + 1}
  OBVIOUS
<1>5. Put(f, n + 1, row) \in [1 .. n + 1 -> T]
  <2>1. Put(f, n + 1, row) = [x \in 1 .. n + 1 |-> IF x = n + 1 THEN row ELSE f[x]]
    BY <1>3, <1>4 DEF Put
  <2>2. \A x \in 1 .. n + 1 : (IF x = n + 1 THEN row ELSE f[x]) \in T
    BY <1>1
  <2>3. QED BY <2>1, <2>2
<1>6. n + 1 \in Nat
  OBVIOUS
<1>7. Table(Put(f, n + 1, row), T)
  BY <1>5, <1>6 DEF Table
<1>8. QED BY <1>3, <1>7

LEMMA TableUpdate ==
  ASSUME NEW f, NEW T, Table(f, T), NEW k \in DOMAIN f, NEW row \in T
  PROVE  Table([f EXCEPT ![k] = row], T)
BY DEF Table

LEMMA TableRow ==
  ASSUME NEW f, NEW T, Table(f, T), NEW k \in DOMAIN f PROVE f[k] \in T /\ k \in Nat
BY DEF Table

(* One row is new or rewritten.                                            *)
LEMMA RefsStillDiffer ==
  ASSUME NEW f, RefsDiffer(f), NEW g, NEW k, DOMAIN g = DOMAIN f \cup {k},
         \A x \in DOMAIN f \ {k} : g[x] = f[x],
         \/ g[k].ref = None
         \/ Unused(f, g[k].ref, k)
         \/ k \in DOMAIN f /\ g[k].ref = f[k].ref
  PROVE  RefsDiffer(g)
BY DEF RefsDiffer, Unused

LEMMA NamesStillDiffer ==
  ASSUME NEW c, NamesDiffer(c), NEW d, NEW k,
         DOMAIN d.competitions = DOMAIN c.competitions \cup {k},
         \A x \in DOMAIN c.competitions \ {k} : d.competitions[x] = c.competitions[x],
         ~ NameTaken(c, d.competitions[k].name, d.competitions[k].country, k)
  PROVE  NamesDiffer(d)
BY DEF NamesDiffer, NameTaken

LEMMA CompetitionsReach ==
  ASSUME NEW c, NEW d, NEW k, Sane(c), SameMappings(c, d),
         d.teams = c.teams, d.plays = c.plays, d.events = c.events,
         DOMAIN d.competitions = DOMAIN c.competitions \cup {k},
         Table(d.competitions, Competition),
         \A x \in DOMAIN c.competitions \ {k} : d.competitions[x] = c.competitions[x],
         \/ d.competitions[k].ref = None
         \/ Unused(c.competitions, d.competitions[k].ref, k),
         d.ok => c.ok /\ ~ NameTaken(c, d.competitions[k].name, d.competitions[k].country, k)
  PROVE  Reaches(c, d)
<1>1. Grows(c, d) /\ Entities(c)
  BY DEF Grows, Sane
<1>2. d.ok => Indexed(d)
  <2> SUFFICES ASSUME d.ok PROVE Indexed(d)
    OBVIOUS
  <2>1. Indexed(c)
    BY <1>1 DEF Entities
  <2>2. NamesDiffer(d)
    BY <2>1, NamesStillDiffer DEF Indexed
  <2>3. RefsDiffer(d.competitions)
    BY <2>1, RefsStillDiffer DEF Indexed
  <2>4. QED BY <2>1, <2>2, <2>3 DEF Indexed
<1>3. d.plays \subseteq (DOMAIN d.teams) \X (DOMAIN d.competitions)
  BY <1>1 DEF Entities, Grows
<1>4. Entities(d)
  BY <1>1, <1>2, <1>3 DEF Entities
<1>5. QED BY <1>1, <1>4, EntitiesReach

LEMMA TeamsReach ==
  ASSUME NEW c, NEW d, NEW k, Sane(c), SameMappings(c, d), d.ok = c.ok,
         d.competitions = c.competitions, d.plays = c.plays, d.events = c.events,
         DOMAIN d.teams = DOMAIN c.teams \cup {k},
         Table(d.teams, Team),
         \A x \in DOMAIN c.teams \ {k} : d.teams[x] = c.teams[x],
         \/ d.teams[k].ref = None
         \/ Unused(c.teams, d.teams[k].ref, k)
  PROVE  Reaches(c, d)
<1>1. Grows(c, d) /\ Entities(c)
  BY DEF Grows, Sane
<1>2. d.ok => Indexed(d)
  <2> SUFFICES ASSUME d.ok PROVE Indexed(d)
    OBVIOUS
  <2>1. Indexed(c)
    BY <1>1 DEF Entities
  <2>2. NamesDiffer(d)
    BY <2>1 DEF Indexed, NamesDiffer, NameTaken
  <2>3. RefsDiffer(d.teams)
    BY <2>1, RefsStillDiffer DEF Indexed
  <2>4. QED BY <2>1, <2>2, <2>3 DEF Indexed
<1>3. d.plays \subseteq (DOMAIN d.teams) \X (DOMAIN d.competitions)
  BY <1>1 DEF Entities, Grows
<1>4. Entities(d)
  BY <1>1, <1>2, <1>3 DEF Entities
<1>5. QED BY <1>1, <1>4, EntitiesReach

LEMMA EventsReach ==
  ASSUME NEW c, NEW d, NEW k, Sane(c), SameMappings(c, d),
         d.competitions = c.competitions, d.teams = c.teams, d.plays = c.plays,
         DOMAIN d.events = DOMAIN c.events \cup {k},
         Table(d.events, Event),
         \A x \in DOMAIN c.events \ {k} : d.events[x] = c.events[x],
         {<<d.events[k].home, d.events[k].competition>>,
          <<d.events[k].away, d.events[k].competition>>} \subseteq c.plays,
         d.ok => /\ c.ok
                 /\ \/ d.events[k].ref = None
                    \/ Unused(c.events, d.events[k].ref, k)
                    \/ k \in DOMAIN c.events /\ d.events[k].ref = c.events[k].ref
  PROVE  Reaches(c, d)
<1>1. Grows(c, d) /\ Entities(c)
  BY DEF Grows, Sane
<1>2. d.ok => Indexed(d)
  <2> SUFFICES ASSUME d.ok PROVE Indexed(d)
    OBVIOUS
  <2>1. Indexed(c)
    BY <1>1 DEF Entities
  <2>2. NamesDiffer(d)
    BY <2>1 DEF Indexed, NamesDiffer, NameTaken
  <2>3. RefsDiffer(d.events)
    BY <2>1, RefsStillDiffer DEF Indexed
  <2>4. QED BY <2>1, <2>2, <2>3 DEF Indexed
<1>3. \A e \in DOMAIN d.events :
       {<<d.events[e].home, d.events[e].competition>>,
        <<d.events[e].away, d.events[e].competition>>} \subseteq d.plays
  BY <1>1 DEF Entities
<1>4. Entities(d)
  BY <1>1, <1>2, <1>3 DEF Entities
<1>5. QED BY <1>1, <1>4, EntitiesReach

-----------------------------------------------------------------------------
(* The operators on entities.                                              *)

LEMMA RefOfNewIsUnused ==
  ASSUME NEW f, NEW p, NEW id \in Ref
  PROVE  /\ RefOfNew(f, p, id) \in Ref
         /\ RefOfNew(f, p, id) = None \/ Unused(f, RefOfNew(f, p, id), 0)
BY DEF RefOfNew, Ref

(* An id that is not in use does no harm as one's own.                     *)
LEMMA UnusedByAnother ==
  ASSUME NEW f, 0 \notin DOMAIN f, NEW ref, Unused(f, ref, 0), NEW k PROVE Unused(f, ref, k)
BY DEF Unused

LEMMA CreateCompetitionReaches ==
  ASSUME NEW c, Sane(c), NEW p, NEW name \in Name, NEW country \in Country \cup {None},
         NEW id \in Ref
  PROVE  LET d == CreateCompetition(c, p, name, country, id) IN
         Reaches(c, d) /\ NextId(c.competitions) \in DOMAIN d.competitions
<1> DEFINE k == NextId(c.competitions)
           ref == RefOfNew(c.competitions, p, id)
           row == [name |-> name, country |-> country, ref |-> ref]
           d == CreateCompetition(c, p, name, country, id)
<1>1. Table(c.competitions, Competition) /\ DOMAIN c = Fields
  BY DEF Sane, Entities
<1>2. ref \in Ref /\ (ref = None \/ Unused(c.competitions, ref, 0))
  BY RefOfNewIsUnused
<1>3. row \in Competition
  BY <1>2 DEF Competition
<1>4. /\ k \notin DOMAIN c.competitions /\ 0 \notin DOMAIN c.competitions
      /\ Table(Put(c.competitions, k, row), Competition)
  BY <1>1, <1>3, NextIdIsNew
<1>5. /\ SameMappings(c, d) /\ d.teams = c.teams /\ d.plays = c.plays /\ d.events = c.events
      /\ d.competitions = Put(c.competitions, k, row)
  BY <1>1, OtherTables DEF CreateCompetition, Fields
<1>6. d.ok => c.ok /\ ~ NameTaken(c, name, country, 0)
  BY <1>1 DEF CreateCompetition, Fields
<1>7. ~ NameTaken(c, name, country, 0) => ~ NameTaken(c, name, country, k)
  BY <1>4 DEF NameTaken
<1>8. ref = None \/ Unused(c.competitions, ref, k)
  BY <1>2, <1>4, UnusedByAnother
<1>9. row.name = name /\ row.country = country /\ row.ref = ref
  OBVIOUS
<1> HIDE DEF k, row, d, ref
<1>10. /\ DOMAIN d.competitions = DOMAIN c.competitions \cup {k}
       /\ d.competitions[k] = row
       /\ \A x \in DOMAIN c.competitions \ {k} : d.competitions[x] = c.competitions[x]
  BY <1>5 DEF Put
<1>11. Reaches(c, d)
  BY <1>4, <1>5, <1>6, <1>7, <1>8, <1>9, <1>10, CompetitionsReach
<1>12. QED BY <1>10, <1>11 DEF d, k

LEMMA PromoteCompetitionReaches ==
  ASSUME NEW c, Sane(c), NEW p, NEW k \in DOMAIN c.competitions, NEW id \in Ref,
         NEW country \in Country \cup {None}
  PROVE  Reaches(c, PromoteCompetition(c, p, k, id, country))
<1> DEFINE row == c.competitions[k]
           place == IF country # None THEN country ELSE row.country
           new == [name |-> row.name, country |-> place, ref |-> id]
           d == PromoteCompetition(c, p, k, id, country)
<1>1. Table(c.competitions, Competition) /\ DOMAIN c = Fields
  BY DEF Sane, Entities
<1>2. CASE d = c
  BY <1>2, ReachesSelf
<1>3. CASE d # c
  <2>1. id # None /\ Unused(c.competitions, id, k)
    BY <1>3 DEF PromoteCompetition
  <2>2. d = [c EXCEPT !.ok = @ /\ ~ NameTaken(c, row.name, place, k), !.competitions[k] = new]
    BY <1>3 DEF PromoteCompetition
  <2>3. row \in Competition
    BY <1>1, TableRow
  <2>4. new \in Competition
    BY <2>3 DEF Competition
  <2>5. /\ SameMappings(c, d) /\ d.teams = c.teams /\ d.plays = c.plays /\ d.events = c.events
        /\ d.competitions = [c.competitions EXCEPT ![k] = new]
    BY <1>1, <2>2, OtherTables DEF Fields
  <2>6. d.ok => c.ok /\ ~ NameTaken(c, row.name, place, k)
    BY <1>1, <2>2 DEF Fields
  <2>7. Table(d.competitions, Competition)
    BY <1>1, <2>4, <2>5, TableUpdate
  <2>8. new.name = row.name /\ new.country = place /\ new.ref = id
    OBVIOUS
  <2> HIDE DEF new, d, row, place
  <2>9. /\ DOMAIN d.competitions = DOMAIN c.competitions \cup {k}
        /\ d.competitions[k] = new
        /\ \A x \in DOMAIN c.competitions \ {k} : d.competitions[x] = c.competitions[x]
    BY <2>5
  <2>10. Reaches(c, d)
    BY <2>1, <2>5, <2>6, <2>7, <2>8, <2>9, CompetitionsReach
  <2>11. QED BY <2>10 DEF d
<1>4. QED BY <1>2, <1>3

LEMMA CreateTeamReaches ==
  ASSUME NEW c, Sane(c), NEW p, NEW name \in Name, NEW id \in Ref
  PROVE  LET d == CreateTeam(c, p, name, id) IN
         Reaches(c, d) /\ NextId(c.teams) \in DOMAIN d.teams
<1> DEFINE k == NextId(c.teams)
           ref == RefOfNew(c.teams, p, id)
           row == [name |-> name, ref |-> ref]
           d == CreateTeam(c, p, name, id)
<1>1. Table(c.teams, Team) /\ DOMAIN c = Fields
  BY DEF Sane, Entities
<1>2. ref \in Ref /\ (ref = None \/ Unused(c.teams, ref, 0))
  BY RefOfNewIsUnused
<1>3. row \in Team
  BY <1>2 DEF Team
<1>4. /\ k \notin DOMAIN c.teams /\ 0 \notin DOMAIN c.teams
      /\ Table(Put(c.teams, k, row), Team)
  BY <1>1, <1>3, NextIdIsNew
<1>5. /\ SameMappings(c, d) /\ d.competitions = c.competitions /\ d.plays = c.plays
      /\ d.events = c.events /\ d.ok = c.ok /\ d.teams = Put(c.teams, k, row)
  BY <1>1, OtherTables DEF CreateTeam, Fields
<1>6. ref = None \/ Unused(c.teams, ref, k)
  BY <1>2, <1>4, UnusedByAnother
<1>7. row.ref = ref
  OBVIOUS
<1> HIDE DEF k, row, d, ref
<1>8. /\ DOMAIN d.teams = DOMAIN c.teams \cup {k} /\ d.teams[k] = row
      /\ \A x \in DOMAIN c.teams \ {k} : d.teams[x] = c.teams[x]
  BY <1>5 DEF Put
<1>9. Reaches(c, d)
  BY <1>4, <1>5, <1>6, <1>7, <1>8, TeamsReach
<1>10. QED BY <1>8, <1>9 DEF d, k

LEMMA PromoteTeamReaches ==
  ASSUME NEW c, Sane(c), NEW p, NEW t \in DOMAIN c.teams, NEW id \in Ref
  PROVE  Reaches(c, PromoteTeam(c, p, t, id))
<1> DEFINE row == c.teams[t]
           new == [row EXCEPT !.ref = id]
           d == PromoteTeam(c, p, t, id)
<1>1. Table(c.teams, Team) /\ DOMAIN c = Fields
  BY DEF Sane, Entities
<1>2. CASE d = c
  BY <1>2, ReachesSelf
<1>3. CASE d # c
  <2>1. id # None /\ Unused(c.teams, id, t)
    BY <1>3 DEF PromoteTeam
  <2>2. d = [c EXCEPT !.teams[t].ref = id]
    BY <1>3 DEF PromoteTeam
  <2>3. row \in Team
    BY <1>1, TableRow
  <2>4. new \in Team /\ new.ref = id
    BY <2>3 DEF Team
  <2>5. /\ SameMappings(c, d) /\ d.competitions = c.competitions /\ d.plays = c.plays
        /\ d.events = c.events /\ d.ok = c.ok /\ d.teams = [c.teams EXCEPT ![t] = new]
    BY <1>1, <2>2, OtherTables DEF Fields
  <2>6. Table(d.teams, Team)
    BY <1>1, <2>4, <2>5, TableUpdate
  <2> HIDE DEF new, d, row
  <2>7. /\ DOMAIN d.teams = DOMAIN c.teams \cup {t} /\ d.teams[t] = new
        /\ \A x \in DOMAIN c.teams \ {t} : d.teams[x] = c.teams[x]
    BY <2>5
  <2>8. Reaches(c, d)
    BY <2>1, <2>4, <2>5, <2>6, <2>7, TeamsReach
  <2>9. QED BY <2>8 DEF d
<1>4. QED BY <1>2, <1>3

(* A sighting's fields, by the assumption on what may be reported.         *)
LEMMA SightingTyped ==
  ASSUME NEW s \in Sighting
  PROVE  /\ s.provider \in Provider /\ s.start \in Nat
         /\ s.league \in Name /\ s.home \in Name /\ s.away \in Name
         /\ s.country \in Country \cup {None}
         /\ s.leagueId \in Ref /\ s.homeId \in Ref /\ s.awayId \in Ref /\ s.eventId \in Ref
BY CatalogAssumption DEF Ref

LEMMA SyncStartReaches ==
  ASSUME NEW c, Sane(c), NEW s \in Sighting, NEW e \in DOMAIN c.events
  PROVE  Reaches(c, SyncStart(c, s, e))
<1> DEFINE row == c.events[e]
           ref == IF s.provider = Reference /\ s.eventId # None THEN s.eventId ELSE row.ref
           new == [row EXCEPT !.start = s.start, !.by = s.provider, !.ref = ref]
           d == SyncStart(c, s, e)
<1>1. Table(c.events, Event) /\ DOMAIN c = Fields /\ Entities(c)
  BY DEF Sane, Entities
<1>2. CASE d = c
  BY <1>2, ReachesSelf
<1>3. CASE d # c
  <2>1. d = [c EXCEPT !.ok = @ /\ (ref = row.ref \/ ~ RefTaken(c, ref, e)),
                      !.events[e] = new]
    BY <1>3 DEF SyncStart
  <2>2. row \in Event
    BY <1>1, TableRow
  <2>3. ref \in Ref
    BY <2>2, SightingTyped DEF Event
  <2>4. /\ new \in Event /\ new.ref = ref
        /\ new.home = row.home /\ new.away = row.away /\ new.competition = row.competition
    BY <2>2, <2>3, SightingTyped DEF Event
  <2>5. /\ SameMappings(c, d) /\ d.competitions = c.competitions /\ d.teams = c.teams
        /\ d.plays = c.plays /\ d.events = [c.events EXCEPT ![e] = new]
    BY <1>1, <2>1, OtherTables DEF Fields
  <2>6. d.ok => c.ok /\ (ref = row.ref \/ Unused(c.events, ref, e))
    BY <1>1, <2>1 DEF Fields, RefTaken
  <2>7. Table(d.events, Event)
    BY <1>1, <2>4, <2>5, TableUpdate
  <2>8. {<<row.home, row.competition>>, <<row.away, row.competition>>} \subseteq c.plays
    BY <1>1 DEF Entities
  <2>9. row = c.events[e]
    OBVIOUS
  <2> HIDE DEF new, d, row, ref
  <2>10. /\ DOMAIN d.events = DOMAIN c.events \cup {e} /\ d.events[e] = new
         /\ \A x \in DOMAIN c.events \ {e} : d.events[x] = c.events[x]
    BY <2>5
  <2>11. Reaches(c, d)
    BY <2>4, <2>5, <2>6, <2>7, <2>8, <2>9, <2>10, EventsReach
  <2>12. QED BY <2>11 DEF d
<1>4. QED BY <1>2, <1>3

LEMMA PromoteEventReaches ==
  ASSUME NEW c, Sane(c), NEW p, NEW e \in DOMAIN c.events, NEW id \in Ref
  PROVE  Reaches(c, PromoteEvent(c, p, e, id))
<1> DEFINE row == c.events[e]
           new == [row EXCEPT !.ref = id, !.by = Reference]
           d == PromoteEvent(c, p, e, id)
<1>1. Table(c.events, Event) /\ DOMAIN c = Fields /\ Entities(c)
  BY DEF Sane, Entities
<1>2. CASE d = c
  BY <1>2, ReachesSelf
<1>3. CASE d # c
  <2>1. id # None /\ Unused(c.events, id, e)
    BY <1>3 DEF PromoteEvent, RefTaken
  <2>2. d = [c EXCEPT !.events[e].ref = id, !.events[e].by = Reference]
    BY <1>3 DEF PromoteEvent
  <2>3. row \in Event
    BY <1>1, TableRow
  <2>4. /\ new \in Event /\ new.ref = id
        /\ new.home = row.home /\ new.away = row.away /\ new.competition = row.competition
    BY <2>3, CatalogAssumption DEF Event
  <2>5. /\ SameMappings(c, d) /\ d.competitions = c.competitions /\ d.teams = c.teams
        /\ d.plays = c.plays /\ d.ok = c.ok /\ d.events = [c.events EXCEPT ![e] = new]
    BY <1>1, <2>2, OtherTables DEF Fields
  <2>6. Table(d.events, Event)
    BY <1>1, <2>4, <2>5, TableUpdate
  <2>7. {<<row.home, row.competition>>, <<row.away, row.competition>>} \subseteq c.plays
    BY <1>1 DEF Entities
  <2> HIDE DEF new, d, row
  <2>8. /\ DOMAIN d.events = DOMAIN c.events \cup {e} /\ d.events[e] = new
        /\ \A x \in DOMAIN c.events \ {e} : d.events[x] = c.events[x]
    BY <2>5
  <2>9. Reaches(c, d)
    BY <2>1, <2>4, <2>5, <2>6, <2>7, <2>8, EventsReach
  <2>10. QED BY <2>9 DEF d
<1>4. QED BY <1>2, <1>3

LEMMA ResolveEventReaches ==
  ASSUME NEW c, Sane(c), NEW s \in Sighting, NEW k, NEW home, NEW away,
         <<home, k>> \in c.plays, <<away, k>> \in c.plays
  PROVE  LET r == ResolveEvent(c, s, k, home, away) IN
         Reaches(c, r.cat) /\ r.id \in DOMAIN r.cat.events
<1> DEFINE rows == Matchups(c, k, home, away, s.start)
           old == CHOOSE x \in rows : TRUE
           e == NextId(c.events)
           ref == RefOfNew(c.events, s.provider, s.eventId)
           row == [competition |-> k, home |-> home, away |-> away, start |-> s.start,
                   by |-> s.provider, ref |-> ref]
           r == ResolveEvent(c, s, k, home, away)
<1>1. Table(c.events, Event) /\ DOMAIN c = Fields /\ Entities(c)
  BY DEF Sane, Entities
<1>2. CASE Cardinality(rows) = 1
  <2> DEFINE c1 == SyncStart(c, s, old)
             d == PromoteEvent(c1, s.provider, old, s.eventId)
  <2>1. r.id = old /\ r.cat = d
    BY <1>2 DEF ResolveEvent
  <2>2. rows # {}
    BY <1>2, FS_EmptySet
  <2>3. rows \subseteq DOMAIN c.events
    BY DEF Matchups
  <2> HIDE DEF rows
  <2>4. old \in DOMAIN c.events
    BY <2>2, <2>3
  <2> HIDE DEF old
  <2>5. Reaches(c, c1)
    BY <2>4, SyncStartReaches
  <2> HIDE DEF c1
  <2>6. Sane(c1) /\ old \in DOMAIN c1.events /\ s.eventId \in Ref
    BY <2>4, <2>5, SightingTyped DEF Reaches, Grows
  <2>7. Reaches(c1, d)
    BY <2>6, PromoteEventReaches
  <2> HIDE DEF d
  <2>8. Reaches(c, d) /\ old \in DOMAIN d.events
    BY <2>5, <2>6, <2>7, ReachesOn DEF Reaches, Grows
  <2>9. QED BY <2>1, <2>8
<1>3. CASE Cardinality(rows) # 1
  <2> DEFINE d == [c EXCEPT !.events = Put(@, e, row)]
  <2>1. r.id = e /\ r.cat = d
    BY <1>3 DEF ResolveEvent
  <2>2. ref \in Ref /\ (ref = None \/ Unused(c.events, ref, 0))
    BY RefOfNewIsUnused, SightingTyped
  <2>3. home \in DOMAIN c.teams /\ away \in DOMAIN c.teams /\ k \in DOMAIN c.competitions
    BY <1>1 DEF Entities
  <2>4. home \in Nat /\ away \in Nat /\ k \in Nat
    BY <1>1, <2>3, TableRow DEF Entities
  <2>5. row \in Event
    BY <2>2, <2>4, SightingTyped DEF Event
  <2>6. /\ e \notin DOMAIN c.events /\ 0 \notin DOMAIN c.events
        /\ Table(Put(c.events, e, row), Event)
    BY <1>1, <2>5, NextIdIsNew
  <2>7. SameMappings(c, d)
    BY <1>1 DEF SameMappings, Fields, Mappings
  <2>8. /\ d.competitions = c.competitions /\ d.teams = c.teams /\ d.plays = c.plays
        /\ d.ok = c.ok /\ d.events = Put(c.events, e, row)
    BY <1>1 DEF Fields
  <2>9. ref = None \/ Unused(c.events, ref, e)
    BY <2>2, <2>6, UnusedByAnother
  <2>10. row.ref = ref /\ row.home = home /\ row.away = away /\ row.competition = k
    OBVIOUS
  <2> HIDE DEF e, row, d, ref
  <2>11. /\ DOMAIN d.events = DOMAIN c.events \cup {e} /\ d.events[e] = row
         /\ \A x \in DOMAIN c.events \ {e} : d.events[x] = c.events[x]
    BY <2>8 DEF Put
  <2>12. Reaches(c, d)
    BY <2>6, <2>7, <2>8, <2>9, <2>10, <2>11, EventsReach
  <2>13. QED BY <2>1, <2>11, <2>12
<1>4. QED BY <1>2, <1>3

-----------------------------------------------------------------------------
(* The operators on one mapping table keep it leading into T.              *)

LEMMA PutTyped ==
  ASSUME NEW m, NEW T, Leads(m, T), NEW k, NEW row,
         {"to", "trust"} \subseteq DOMAIN row, row.to \in T, row.trust \in Trust
  PROVE  Leads(Put(m, k, row), T)
BY DEF Leads, Rows, Put

LEMMA SaveNameTyped ==
  ASSUME NEW m, NEW T, Leads(m, T), NEW k, NEW to \in T, NEW trust \in Trust
  PROVE  Leads(SaveName(m, k, to, trust), T)
<1> DEFINE row == [to |-> to, trust |-> trust, manual |-> FALSE]
<1>1. {"to", "trust"} \subseteq DOMAIN row /\ row.to = to /\ row.trust = trust
  OBVIOUS
<1>2. SaveName(m, k, to, trust) \in {m, Put(m, k, row)}
  BY DEF SaveName
<1> HIDE DEF row
<1>3. QED BY <1>1, <1>2, PutTyped

LEMMA SaveIdTyped ==
  ASSUME NEW m, NEW T, Leads(m, T), NEW p, NEW id, NEW to \in T, NEW raw, NEW trust \in Trust
  PROVE  Leads(SaveIdIfAny(m, p, id, to, raw, trust), T)
<1> DEFINE k == <<p, id>>
           row == [to |-> to, trust |-> trust,
                   first |-> IF k \in DOMAIN m THEN m[k].first ELSE raw,
                   verified |-> IF trust = "VERIFIED" THEN raw
                                ELSE IF k \in DOMAIN m THEN m[k].verified ELSE None]
<1>1. {"to", "trust"} \subseteq DOMAIN row /\ row.to = to /\ row.trust = trust
  OBVIOUS
<1>2. SaveIdIfAny(m, p, id, to, raw, trust) \in {m, Put(m, k, row)}
  BY DEF SaveIdIfAny, SaveId
<1> HIDE DEF row, k
<1>3. QED BY <1>1, <1>2, PutTyped

LEMMA TrustSetTyped ==
  ASSUME NEW m, NEW T, Leads(m, T), NEW k \in DOMAIN m, NEW trust \in Trust
  PROVE  Leads([m EXCEPT ![k].trust = trust], T)
<1> DEFINE n == [m EXCEPT ![k].trust = trust]
<1>1. {"to", "trust"} \subseteq DOMAIN m[k]
  BY DEF Leads, Rows
<1>2. DOMAIN n = DOMAIN m /\ DOMAIN n[k] = DOMAIN m[k]
  OBVIOUS
<1>3. n[k].trust = trust /\ n[k].to = m[k].to
  BY <1>1
<1>4. \A x \in DOMAIN m \ {k} : n[x] = m[x]
  OBVIOUS
<1> HIDE DEF n
<1>5. Leads(n, T)
  BY <1>2, <1>3, <1>4 DEF Leads, Rows
<1>6. QED BY <1>5 DEF n

LEMMA MarkTyped ==
  ASSUME NEW m, NEW T, Leads(m, T), NEW k
  PROVE  /\ k \in DOMAIN m => Leads(MarkSuspect(m, k), T)
         /\ Leads(RejectRow(m, k), T)
BY TrustSetTyped DEF MarkSuspect, RejectRow, Trust

LEMMA SaveEventIdTyped ==
  ASSUME NEW m, NEW T, Leads(m, T), NEW s, NEW e \in T, NEW trust \in Trust
  PROVE  Leads(SaveEventId(m, s, e, trust), T) /\ Leads(SaveEventIdIfAny(m, s, e, trust), T)
<1> DEFINE k == <<s.provider, s.eventId>>
<1>1. PICK row :
        /\ SaveEventId(m, s, e, trust) = Put(m, k, row)
        /\ {"to", "trust"} \subseteq DOMAIN row
        /\ k \in DOMAIN m /\ m[k].trust \in Closed =>
             row.to = m[k].to /\ row.trust = m[k].trust
        /\ ~ (k \in DOMAIN m /\ m[k].trust \in Closed) => row.to = e /\ row.trust = trust
  BY DEF SaveEventId
<1>2. row.to \in T /\ row.trust \in Trust
  BY <1>1 DEF Leads
<1> HIDE DEF k
<1>3. Leads(SaveEventId(m, s, e, trust), T)
  BY <1>1, <1>2, PutTyped
<1>4. QED BY <1>3 DEF SaveEventIdIfAny

LEMMA OverrideTyped ==
  ASSUME NEW m, NEW T, Leads(m, T), NEW to \in T, NEW raw, NEW p, NEW id, NEW k
  PROVE  Leads(Override(m, k, to), T) /\ Leads(OverrideIdIfAny(m, p, id, to, raw), T)
<1> DEFINE row == [to |-> to, trust |-> "VERIFIED", manual |-> TRUE]
           key == <<p, id>>
           idRow == [to |-> to, trust |-> "VERIFIED", verified |-> raw,
                     first |-> IF key \in DOMAIN m THEN m[key].first ELSE raw]
<1>1. {"to", "trust"} \subseteq DOMAIN row /\ row.to = to /\ row.trust = "VERIFIED"
  OBVIOUS
<1>2. {"to", "trust"} \subseteq DOMAIN idRow /\ idRow.to = to /\ idRow.trust = "VERIFIED"
  OBVIOUS
<1>3. "VERIFIED" \in Trust
  BY DEF Trust
<1>4. Override(m, k, to) = Put(m, k, row)
  BY DEF Override
<1>5. OverrideIdIfAny(m, p, id, to, raw) \in {m, Put(m, key, idRow)}
  BY DEF OverrideIdIfAny, OverrideId
<1> HIDE DEF row, key, idRow
<1>6. QED BY <1>1, <1>2, <1>3, <1>4, <1>5, PutTyped

(* What the look-ups find exists.                                          *)
LEMMA LookUpsTyped ==
  ASSUME NEW c, Sane(c), NEW p, NEW raw, NEW k
  PROVE  /\ MappedLeague(c, p, raw, k) \subseteq DOMAIN c.competitions
         /\ MappedTeam(c, p, raw, k) \subseteq DOMAIN c.teams
         /\ NamesakeOf(c, raw).teams \subseteq DOMAIN c.teams
<1>1. Leads(c.leagueNames, DOMAIN c.competitions) /\ Leads(c.teamNames, DOMAIN c.teams)
  BY DEF Sane, Mapped
<1>2. MappedLeague(c, p, raw, k) \subseteq DOMAIN c.competitions
  BY <1>1 DEF MappedLeague, Leads
<1>3. MappedTeam(c, p, raw, k) \subseteq DOMAIN c.teams
  BY <1>1 DEF MappedTeam, Leads
<1>4. NamesakeOf(c, raw).teams \subseteq DOMAIN c.teams
  BY DEF NamesakeOf
<1>5. QED BY <1>2, <1>3, <1>4

LEMMA NormalizeTyped ==
  ASSUME NEW raw \in Name, NEW pool
  PROVE  /\ Normalize(raw, pool).name \in Name
         /\ TrustFor(Normalize(raw, pool).method) \in Trust
BY CatalogAssumption DEF Normalize, TrustFor, Trust

LEMMA IdKnown ==
  ASSUME NEW m, NEW T, Leads(m, T), NEW p, NEW id, NEW raw,
         IdSays(m, p, id, raw) \in {"known", "drifted"}
  PROVE  <<p, id>> \in DOMAIN m /\ m[<<p, id>>].to \in T
BY DEF IdSays, Leads

-----------------------------------------------------------------------------
(* The paths of match: each returns what exists, in sane tables.           *)

LEMMA LeagueSaved ==
  ASSUME NEW c, Sane(c), NEW k \in DOMAIN c.competitions, NEW trust \in Trust,
         NEW p, NEW id, NEW raw, NEW key
  PROVE  /\ Reaches(c, [c EXCEPT !.leagueIds = SaveIdIfAny(@, p, id, k, raw, trust)])
         /\ Reaches(c, [c EXCEPT !.leagueNames = SaveName(@, key, k, trust),
                                 !.leagueIds = SaveIdIfAny(@, p, id, k, raw, trust)])
<1> DEFINE names == SaveName(c.leagueNames, key, k, trust)
           ids == SaveIdIfAny(c.leagueIds, p, id, k, raw, trust)
           d1 == [c EXCEPT !.leagueIds = SaveIdIfAny(@, p, id, k, raw, trust)]
           d2 == [c EXCEPT !.leagueNames = SaveName(@, key, k, trust),
                           !.leagueIds = SaveIdIfAny(@, p, id, k, raw, trust)]
<1>1. Mapped(c) /\ DOMAIN c = Fields /\ Entities(c)
  BY DEF Sane
<1>2. Leads(names, DOMAIN c.competitions) /\ Leads(ids, DOMAIN c.competitions)
  BY <1>1, SaveNameTyped, SaveIdTyped DEF Mapped
<1>3. /\ DOMAIN d1 = Fields /\ d1.ok = c.ok /\ d1.competitions = c.competitions
      /\ d1.teams = c.teams /\ d1.events = c.events /\ d1.plays = c.plays
      /\ d1.teamNames = c.teamNames /\ d1.teamIds = c.teamIds /\ d1.eventIds = c.eventIds
      /\ d1.leagueNames = c.leagueNames /\ d1.leagueIds = ids
  BY <1>1 DEF Fields, Mappings
<1>4. /\ DOMAIN d2 = Fields /\ d2.ok = c.ok /\ d2.competitions = c.competitions
      /\ d2.teams = c.teams /\ d2.events = c.events /\ d2.plays = c.plays
      /\ d2.teamNames = c.teamNames /\ d2.teamIds = c.teamIds /\ d2.eventIds = c.eventIds
      /\ d2.leagueNames = names /\ d2.leagueIds = ids
  BY <1>1 DEF Fields, Mappings
<1> HIDE DEF names, ids, d1, d2
<1>5. Mapped(d1) /\ Mapped(d2)
  BY <1>1, <1>2, <1>3, <1>4 DEF Mapped
<1>6. Reaches(c, d1)
  BY <1>1, <1>3, <1>5, MappingsReach DEF Entities
<1>7. Reaches(c, d2)
  BY <1>1, <1>4, <1>5, MappingsReach DEF Entities
<1>8. QED BY <1>6, <1>7 DEF d1, d2

LEMMA AdoptCompetitionReaches ==
  ASSUME NEW c, Sane(c), NEW s \in Sighting, NEW k \in DOMAIN c.competitions,
         NEW trust \in Trust
  PROVE  LET r == AdoptCompetition(c, s, k, trust) IN
         /\ Reaches(c, r.cat) /\ r.trust \in Trust
         /\ r.id \in DOMAIN r.cat.competitions
<1> DEFINE c1 == IF trust = "VERIFIED"
                 THEN PromoteCompetition(c, s.provider, k, s.leagueId, s.country) ELSE c
           d == [c1 EXCEPT
             !.leagueNames = SaveName(@, <<s.provider, s.league, s.country>>, k, trust),
             !.leagueIds   = SaveIdIfAny(@, s.provider, s.leagueId, k, s.league, trust)]
           r == AdoptCompetition(c, s, k, trust)
<1>1. r.id = k /\ r.cat = d /\ r.trust = trust
  BY DEF AdoptCompetition
<1>2. Reaches(c, c1)
  BY ReachesSelf, PromoteCompetitionReaches, SightingTyped
<1> HIDE DEF c1, r
<1>3. Sane(c1) /\ k \in DOMAIN c1.competitions
  BY <1>2 DEF Reaches, Grows
<1>4. Reaches(c1, d)
  BY <1>3, LeagueSaved
<1> HIDE DEF d
<1>5. Reaches(c, d) /\ k \in DOMAIN d.competitions
  BY <1>2, <1>3, <1>4, ReachesOn DEF Reaches, Grows
<1>6. QED BY <1>1, <1>5 DEF r

LEMMA LearnCompetitionReaches ==
  ASSUME NEW c, Sane(c), NEW s \in Sighting, NEW suspect
  PROVE  LET r == LearnCompetition(c, s, suspect) IN
         /\ Reaches(c, r.cat) /\ r.trust \in Trust
         /\ r.id \in DOMAIN r.cat.competitions
<1> DEFINE pool   == CompetitionsIn(c, s.country)
           result == Normalize(s.league, {c.competitions[k].name : k \in pool})
           same   == {k \in pool : c.competitions[k].name = result.name}
           one    == CHOOSE k \in same : TRUE
           trust  == IF suspect THEN "SUSPECT" ELSE TrustFor(result.method)
           d == CreateCompetition(c, s.provider, result.name, s.country, s.leagueId)
           new == NextId(c.competitions)
           r == LearnCompetition(c, s, suspect)
<1>1. result.name \in Name /\ trust \in Trust
  BY NormalizeTyped, SightingTyped DEF Trust
<1>2. same \subseteq DOMAIN c.competitions
  BY DEF CompetitionsIn
<1>3. \/ r = AdoptCompetition(c, s, one, trust) /\ Cardinality(same) = 1
      \/ r = AdoptCompetition(d, s, new, trust)
  BY DEF LearnCompetition
<1> HIDE DEF result, trust, pool, r
<1>4. CASE r = AdoptCompetition(c, s, one, trust) /\ Cardinality(same) = 1
  <2>1. same # {}
    BY <1>4, FS_EmptySet
  <2> HIDE DEF same
  <2>2. one \in DOMAIN c.competitions
    BY <2>1, <1>2
  <2> HIDE DEF one
  <2>3. QED BY <1>1, <1>4, <2>2, AdoptCompetitionReaches DEF r
<1>5. CASE r = AdoptCompetition(d, s, new, trust)
  <2>1. Reaches(c, d) /\ new \in DOMAIN d.competitions
    BY <1>1, SightingTyped, CreateCompetitionReaches
  <2> HIDE DEF d, new
  <2>2. Sane(d)
    BY <2>1 DEF Reaches
  <2>3. /\ Reaches(d, r.cat) /\ r.trust \in Trust
        /\ r.id \in DOMAIN r.cat.competitions
    BY <1>1, <1>5, <2>1, <2>2, AdoptCompetitionReaches
  <2>4. Reaches(c, r.cat)
    BY <2>1, <2>3, ReachesOn
  <2>5. QED BY <2>3, <2>4 DEF r
<1>6. QED BY <1>3, <1>4, <1>5

LEMMA ResolveCompetitionReaches ==
  ASSUME NEW c, Sane(c), NEW s \in Sighting
  PROVE  LET r == ResolveCompetition(c, s) IN
         /\ Reaches(c, r.cat) /\ r.trust \in Trust
         /\ r.id \in DOMAIN r.cat.competitions
<1> DEFINE key     == <<s.provider, s.leagueId>>
           says    == IdSays(c.leagueIds, s.provider, s.leagueId, s.league)
           suspect == says \in {"drifted", "quarantined"}
           c1      == IF says = "drifted"
                      THEN [c EXCEPT !.leagueIds = MarkSuspect(@, key)] ELSE c
           mapped  == {k \in MappedLeague(c, s.provider, s.league, s.country) :
                         ~ OtherReference(c.competitions[k], s.provider, s.leagueId)}
           one     == CHOOSE k \in mapped : TRUE
           trust   == IF suspect THEN "SUSPECT" ELSE "VERIFIED"
           Known(k, t, d) ==
             [id |-> k, trust |-> t,
              cat |-> [d EXCEPT !.leagueIds =
                         SaveIdIfAny(@, s.provider, s.leagueId, k, s.league, t)]]
           r == ResolveCompetition(c, s)
<1>1. /\ says = "known" => r = Known(c.leagueIds[key].to, "VERIFIED", c)
      /\ says # "known" /\ mapped # {} => r = Known(one, trust, c1)
      /\ says # "known" /\ mapped = {} => r = LearnCompetition(c1, s, suspect)
  BY DEF ResolveCompetition
<1>2. Mapped(c) /\ DOMAIN c = Fields /\ Entities(c)
  BY DEF Sane
<1>3. Reaches(c, c1)
  <2>1. CASE says = "drifted"
    <3> DEFINE ids == MarkSuspect(c.leagueIds, key)
    <3>1. c1 = [c EXCEPT !.leagueIds = MarkSuspect(@, key)]
      BY <2>1
    <3>2. Leads(ids, DOMAIN c.competitions)
      BY <1>2, <2>1, IdKnown, MarkTyped DEF Mapped
    <3>3. /\ DOMAIN c1 = Fields /\ c1.ok = c.ok /\ c1.competitions = c.competitions
          /\ c1.teams = c.teams /\ c1.events = c.events /\ c1.plays = c.plays
          /\ c1.teamNames = c.teamNames /\ c1.teamIds = c.teamIds
          /\ c1.eventIds = c.eventIds /\ c1.leagueNames = c.leagueNames
          /\ c1.leagueIds = ids
      BY <1>2, <3>1 DEF Fields, Mappings
    <3> HIDE DEF ids, c1
    <3>4. Mapped(c1)
      BY <1>2, <3>2, <3>3 DEF Mapped
    <3>5. QED BY <1>2, <3>3, <3>4, MappingsReach DEF Entities
  <2>2. CASE says # "drifted"
    BY <2>2, ReachesSelf
  <2>3. QED BY <2>1, <2>2
<1>4. says = "known" => c.leagueIds[key].to \in DOMAIN c.competitions
  BY <1>2, IdKnown DEF Mapped
<1>5. mapped # {} => one \in DOMAIN c.competitions
  BY LookUpsTyped
<1>6. trust \in Trust /\ "VERIFIED" \in Trust
  BY DEF Trust
<1>7. \A d, k, t : Sane(d) /\ k \in DOMAIN d.competitions /\ t \in Trust =>
        /\ Reaches(d, Known(k, t, d).cat) /\ Known(k, t, d).trust \in Trust
        /\ Known(k, t, d).id = k
  BY LeagueSaved
<1>8. Sane(c1) /\ DOMAIN c.competitions \subseteq DOMAIN c1.competitions
  BY <1>3 DEF Reaches, Grows
<1> HIDE DEF key, says, suspect, c1, mapped, one, trust, Known, r
<1>9. CASE says = "known"
  BY <1>1, <1>4, <1>6, <1>7, <1>9 DEF Reaches, Grows, r
<1>10. CASE says # "known" /\ mapped # {}
  <2>1. one \in DOMAIN c1.competitions
    BY <1>5, <1>8, <1>10
  <2>2. Reaches(c1, r.cat) /\ r.trust \in Trust /\ r.id = one
    BY <1>1, <1>6, <1>7, <1>8, <1>10, <2>1
  <2>3. Reaches(c, r.cat) /\ one \in DOMAIN r.cat.competitions
    BY <1>3, <2>1, <2>2, ReachesOn DEF Reaches, Grows
  <2>4. QED BY <2>2, <2>3 DEF r
<1>11. CASE says # "known" /\ mapped = {}
  <2>1. /\ Reaches(c1, r.cat) /\ r.trust \in Trust
        /\ r.id \in DOMAIN r.cat.competitions
    BY <1>1, <1>8, <1>11, LearnCompetitionReaches
  <2>2. QED BY <1>3, <2>1, ReachesOn DEF r
<1>12. QED BY <1>9, <1>10, <1>11

-----------------------------------------------------------------------------
(* A set of ids has a first and a last.                                    *)

LEMMA Least ==
  ASSUME NEW S, S \subseteq Nat, S # {} PROVE \E x \in S : \A y \in S : x <= y
<1> DEFINE R == OpToRel(<, Nat)
<1>1. IsWellFoundedOn(R, Nat)
  BY NatLessThanWellFounded
<1>2. \A x, y \in Nat : x < y => <<x, y>> \in R
  BY DEF OpToRel
<1> HIDE DEF R
<1>3. PICK x \in S : \A y \in S : ~ (<<y, x>> \in R)
  BY <1>1, WFMin
<1>4. \A y \in S : ~ (y < x)
  BY <1>2, <1>3
<1>5. x \in Nat /\ \A y \in S : y \in Nat
  OBVIOUS
<1>6. QED BY <1>4, <1>5

LEMMA Greatest ==
  ASSUME NEW n \in Nat, NEW S, S \subseteq 1 .. n, S # {}
  PROVE  \E x \in S : \A y \in S : x >= y
<1> DEFINE T == {n - x : x \in S}
<1>1. \A x \in S : x \in Int /\ n - x \in Nat
  OBVIOUS
<1>2. T \subseteq Nat /\ T # {}
  BY <1>1
<1>3. \A x \in S : n - x \in T
  OBVIOUS
<1>4. \A t \in T : \E x \in S : t = n - x
  OBVIOUS
<1> HIDE DEF T
<1>5. PICK t \in T : \A u \in T : t <= u
  BY <1>2, Least
<1>6. PICK x \in S : t = n - x
  BY <1>4
<1>7. \A y \in S : n - x <= n - y
  BY <1>3, <1>5, <1>6
<1>8. \A y \in S : x >= y
  BY <1>1, <1>7
<1>9. QED BY <1>8

LEMMA MaxIn ==
  ASSUME NEW n \in Nat, NEW S, S \subseteq 1 .. n, S # {}
  PROVE  Max(S) \in S /\ Min(S) \in S
<1>1. S \subseteq Nat
  OBVIOUS
<1>2. \E x \in S : \A y \in S : x >= y
  BY Greatest
<1>3. \E x \in S : \A y \in S : x <= y
  BY <1>1, Least
<1>4. (CHOOSE x \in S : \A y \in S : x >= y) \in S
  BY <1>2
<1>5. (CHOOSE x \in S : \A y \in S : x <= y) \in S
  BY <1>3
<1>6. QED BY <1>4, <1>5, Zenon DEF Max, Min

LEMMA TeamSaved ==
  ASSUME NEW c, Sane(c), NEW t \in DOMAIN c.teams, NEW trust \in Trust,
         NEW p, NEW id, NEW raw, NEW key
  PROVE  /\ Reaches(c, [c EXCEPT !.teamIds = SaveIdIfAny(@, p, id, t, raw, trust)])
         /\ Reaches(c, [c EXCEPT !.teamNames = SaveName(@, key, t, trust)])
         /\ Reaches(c, [c EXCEPT !.teamNames = SaveName(@, key, t, trust),
                                 !.teamIds = SaveIdIfAny(@, p, id, t, raw, trust)])
<1> DEFINE names == SaveName(c.teamNames, key, t, trust)
           ids == SaveIdIfAny(c.teamIds, p, id, t, raw, trust)
           d1 == [c EXCEPT !.teamIds = SaveIdIfAny(@, p, id, t, raw, trust)]
           d2 == [c EXCEPT !.teamNames = SaveName(@, key, t, trust)]
           d3 == [c EXCEPT !.teamNames = SaveName(@, key, t, trust),
                           !.teamIds = SaveIdIfAny(@, p, id, t, raw, trust)]
<1>1. Mapped(c) /\ DOMAIN c = Fields /\ Entities(c)
  BY DEF Sane
<1>2. Leads(names, DOMAIN c.teams) /\ Leads(ids, DOMAIN c.teams)
  BY <1>1, SaveNameTyped, SaveIdTyped DEF Mapped
<1> DEFINE Others(d) ==
      /\ DOMAIN d = Fields /\ d.ok = c.ok /\ d.competitions = c.competitions
      /\ d.teams = c.teams /\ d.events = c.events /\ d.plays = c.plays
      /\ d.leagueNames = c.leagueNames /\ d.leagueIds = c.leagueIds
      /\ d.eventIds = c.eventIds
<1>3. Others(d1) /\ d1.teamNames = c.teamNames /\ d1.teamIds = ids
  BY <1>1 DEF Fields, Mappings
<1>4. Others(d2) /\ d2.teamNames = names /\ d2.teamIds = c.teamIds
  BY <1>1 DEF Fields, Mappings
<1>5. Others(d3) /\ d3.teamNames = names /\ d3.teamIds = ids
  BY <1>1 DEF Fields, Mappings
<1> HIDE DEF names, ids, d1, d2, d3
<1>6. Mapped(d1) /\ Mapped(d2) /\ Mapped(d3)
  BY <1>1, <1>2, <1>3, <1>4, <1>5 DEF Mapped
<1>7. ASSUME NEW d, Others(d), Mapped(d) PROVE Reaches(c, d)
  BY <1>1, <1>7, MappingsReach DEF Entities
<1> HIDE DEF Others
<1>8. Reaches(c, d1) /\ Reaches(c, d2) /\ Reaches(c, d3)
  BY <1>3, <1>4, <1>5, <1>6, <1>7
<1>9. QED BY <1>8 DEF d1, d2, d3

LEMMA PlaysReach ==
  ASSUME NEW c, Sane(c), NEW t \in DOMAIN c.teams, NEW k \in DOMAIN c.competitions
  PROVE  LET d == [c EXCEPT !.plays = @ \cup {<<t, k>>}] IN
         Reaches(c, d) /\ <<t, k>> \in d.plays
<1> DEFINE d == [c EXCEPT !.plays = @ \cup {<<t, k>>}]
<1>1. Mapped(c) /\ DOMAIN c = Fields /\ Entities(c)
  BY DEF Sane
<1>2. /\ DOMAIN d = Fields /\ d.ok = c.ok /\ d.competitions = c.competitions
      /\ d.teams = c.teams /\ d.events = c.events /\ d.plays = c.plays \cup {<<t, k>>}
      /\ d.teamNames = c.teamNames /\ d.teamIds = c.teamIds /\ d.eventIds = c.eventIds
      /\ d.leagueNames = c.leagueNames /\ d.leagueIds = c.leagueIds
  BY <1>1 DEF Fields, Mappings
<1> HIDE DEF d
<1>3. Mapped(d)
  BY <1>1, <1>2 DEF Mapped
<1>4. d.plays \subseteq (DOMAIN c.teams) \X (DOMAIN c.competitions)
  BY <1>1, <1>2 DEF Entities
<1>5. Reaches(c, d)
  BY <1>2, <1>3, <1>4, MappingsReach
<1>6. QED BY <1>2, <1>5 DEF d

LEMMA AdoptTeamReaches ==
  ASSUME NEW c, Sane(c), NEW p, NEW raw, NEW k, NEW id \in Ref, NEW t \in DOMAIN c.teams,
         NEW trust \in Trust
  PROVE  LET r == AdoptTeam(c, p, raw, k, id, t, trust) IN
         /\ Reaches(c, r.cat) /\ r.trust \in Trust /\ r.id \in DOMAIN r.cat.teams
         /\ r = [id |-> r.id, trust |-> r.trust, cat |-> r.cat]
<1> DEFINE c1 == IF trust = "VERIFIED" THEN PromoteTeam(c, p, t, id) ELSE c
           d == [c1 EXCEPT !.teamNames = SaveName(@, <<p, raw, k>>, t, trust),
                           !.teamIds = SaveIdIfAny(@, p, id, t, raw, trust)]
           r == AdoptTeam(c, p, raw, k, id, t, trust)
<1>1. r = [id |-> t, trust |-> trust, cat |-> d]
  BY DEF AdoptTeam
<1>2. Reaches(c, c1)
  BY ReachesSelf, PromoteTeamReaches
<1> HIDE DEF c1, r
<1>3. Sane(c1) /\ t \in DOMAIN c1.teams
  BY <1>2 DEF Reaches, Grows
<1>4. Reaches(c1, d)
  BY <1>3, TeamSaved
<1> HIDE DEF d
<1>5. Reaches(c, d) /\ t \in DOMAIN d.teams
  BY <1>2, <1>3, <1>4, ReachesOn DEF Reaches, Grows
<1>6. r.id = t /\ r.trust = trust /\ r.cat = d
  BY <1>1
<1>7. QED BY <1>1, <1>5, <1>6 DEF r

LEMMA LearnTeamReaches ==
  ASSUME NEW c, Sane(c), NEW p, NEW raw \in Name, NEW k, NEW id \in Ref,
         NEW suspect, NEW last
  PROVE  LET r == LearnTeam(c, p, raw, k, id, suspect, last) IN
         /\ Reaches(c, r.cat) /\ r.trust \in Trust /\ r.id \in DOMAIN r.cat.teams
         /\ r = [id |-> r.id, trust |-> r.trust, cat |-> r.cat]
<1> DEFINE squad  == {x[1] : x \in {y \in c.plays : y[2] = k}}
           result == Normalize(raw, {c.teams[t].name : t \in squad})
           same   == {t \in squad : c.teams[t].name = result.name}
           kept   == IF last THEN Max(same) ELSE Min(same)
           trust  == IF suspect THEN "SUSPECT" ELSE TrustFor(result.method)
           d == CreateTeam(c, p, result.name, id)
           new == NextId(c.teams)
           r == LearnTeam(c, p, raw, k, id, suspect, last)
<1>1. result.name \in Name /\ trust \in Trust
  BY NormalizeTyped DEF Trust
<1>2. Entities(c)
  BY DEF Sane
<1>3. same \subseteq DOMAIN c.teams
  BY <1>2 DEF Entities
<1>4. \/ r = AdoptTeam(c, p, raw, k, id, kept, trust) /\ same # {}
      \/ r = AdoptTeam(d, p, raw, k, id, new, trust)
  BY DEF LearnTeam
<1> HIDE DEF result, trust, squad, r, same
<1>5. CASE r = AdoptTeam(c, p, raw, k, id, kept, trust) /\ same # {}
  <2>1. PICK n \in Nat : DOMAIN c.teams = 1 .. n
    BY <1>2 DEF Entities, Table
  <2>2. Max(same) \in same /\ Min(same) \in same
    BY <1>3, <1>5, <2>1, MaxIn
  <2>3. kept \in DOMAIN c.teams
    BY <1>3, <2>2
  <2> HIDE DEF kept
  <2>4. QED BY <1>1, <1>5, <2>3, AdoptTeamReaches DEF r
<1>6. CASE r = AdoptTeam(d, p, raw, k, id, new, trust)
  <2>1. Reaches(c, d) /\ new \in DOMAIN d.teams
    BY <1>1, CreateTeamReaches
  <2> HIDE DEF d, new
  <2>2. Sane(d)
    BY <2>1 DEF Reaches
  <2>3. /\ Reaches(d, r.cat) /\ r.trust \in Trust /\ r.id \in DOMAIN r.cat.teams
        /\ r = [id |-> r.id, trust |-> r.trust, cat |-> r.cat]
    BY <1>1, <1>6, <2>1, <2>2, AdoptTeamReaches
  <2>4. Reaches(c, r.cat)
    BY <2>1, <2>3, ReachesOn
  <2>5. QED BY <2>3, <2>4 DEF r
<1>7. QED BY <1>4, <1>5, <1>6

LEMMA MarkedTeamReaches ==
  ASSUME NEW c, Sane(c), NEW p, NEW id, NEW raw
  PROVE  LET says == IdSays(c.teamIds, p, id, raw)
             d == IF says = "drifted"
                  THEN [c EXCEPT !.teamIds = MarkSuspect(@, <<p, id>>)] ELSE c
         IN Reaches(c, d)
<1> DEFINE says == IdSays(c.teamIds, p, id, raw)
           ids == MarkSuspect(c.teamIds, <<p, id>>)
           d == [c EXCEPT !.teamIds = MarkSuspect(@, <<p, id>>)]
<1>1. Mapped(c) /\ DOMAIN c = Fields /\ Entities(c)
  BY DEF Sane
<1>2. CASE says = "drifted"
  <2>1. Leads(ids, DOMAIN c.teams)
    BY <1>1, <1>2, IdKnown, MarkTyped DEF Mapped
  <2>2. /\ DOMAIN d = Fields /\ d.ok = c.ok /\ d.competitions = c.competitions
        /\ d.teams = c.teams /\ d.events = c.events /\ d.plays = c.plays
        /\ d.teamNames = c.teamNames /\ d.teamIds = ids /\ d.eventIds = c.eventIds
        /\ d.leagueNames = c.leagueNames /\ d.leagueIds = c.leagueIds
    BY <1>1 DEF Fields, Mappings
  <2> HIDE DEF ids, d
  <2>3. Mapped(d)
    BY <1>1, <2>1, <2>2 DEF Mapped
  <2>4. Reaches(c, d)
    BY <1>1, <2>2, <2>3, MappingsReach DEF Entities
  <2>5. QED BY <1>2, <2>4 DEF d
<1>3. CASE says # "drifted"
  BY <1>3, ReachesSelf
<1>4. QED BY <1>2, <1>3

LEMMA ResolveTeamReaches ==
  ASSUME NEW c, Sane(c), NEW p, NEW raw \in Name, NEW k \in DOMAIN c.competitions,
         NEW id \in Ref, NEW last
  PROVE  LET r == ResolveTeam(c, p, raw, k, id, last) IN
         Reaches(c, r.cat) /\ r.trust \in Trust /\ <<r.id, k>> \in r.cat.plays
<1> DEFINE says     == IdSays(c.teamIds, p, id, raw)
           suspect  == says \in {"drifted", "quarantined"}
           c1       == IF says = "drifted"
                       THEN [c EXCEPT !.teamIds = MarkSuspect(@, <<p, id>>)] ELSE c
           Allowed(T) == {t \in T : ~ OtherReference(c.teams[t], p, id)}
           mapped   == Allowed(MappedTeam(c, p, raw, k))
           namesake == {t \in Allowed(NamesakeOf(c, raw).teams) : CountryFits(c, t, k)}
           Known(t, trust, d) ==
             [id |-> t, trust |-> trust,
              cat |-> [d EXCEPT !.teamIds = SaveIdIfAny(@, p, id, t, raw, trust)]]
           Plays(q) == [q EXCEPT !.cat.plays = @ \cup {<<q.id, k>>}]
           one == CHOOSE t \in mapped : TRUE
           other == CHOOSE x \in namesake : TRUE
           trust == IF suspect THEN "SUSPECT" ELSE "VERIFIED"
           c2 == PromoteTeam(c1, p, other, id)
           c3 == [c2 EXCEPT !.teamNames = SaveName(@, <<p, raw, k>>, other, "VERIFIED")]
           Good(q) == /\ Reaches(c, q.cat) /\ q.trust \in Trust /\ q.id \in DOMAIN q.cat.teams
                      /\ q = [id |-> q.id, trust |-> q.trust, cat |-> q.cat]
           r == ResolveTeam(c, p, raw, k, id, last)
<1>1. \/ says = "known" /\ r = Plays(Known(c.teamIds[<<p, id>>].to, "VERIFIED", c))
      \/ mapped # {} /\ r = Plays(Known(one, trust, c1))
      \/ namesake # {} /\ r = Plays(Known(other, "VERIFIED", c3))
      \/ r = Plays(LearnTeam(c1, p, raw, k, id, suspect, last))
  BY DEF ResolveTeam
<1>2. Reaches(c, c1)
  BY MarkedTeamReaches
<1>3. Mapped(c)
  BY DEF Sane
<1>4. says = "known" => c.teamIds[<<p, id>>].to \in DOMAIN c.teams
  BY <1>3, IdKnown DEF Mapped
<1>5. /\ mapped # {} => one \in DOMAIN c.teams
      /\ namesake # {} => other \in DOMAIN c.teams
  BY LookUpsTyped
<1>6. trust \in Trust /\ "VERIFIED" \in Trust
  BY DEF Trust
<1>7. ASSUME NEW d, Reaches(c, d), NEW t \in DOMAIN c.teams, NEW how \in Trust
      PROVE  Good(Known(t, how, d))
  <2> DEFINE e == [d EXCEPT !.teamIds = SaveIdIfAny(@, p, id, t, raw, how)]
  <2>1. Sane(d) /\ t \in DOMAIN d.teams
    BY <1>7 DEF Reaches, Grows
  <2>2. Reaches(d, e)
    BY <2>1, TeamSaved
  <2> HIDE DEF e
  <2>3. Reaches(c, e) /\ t \in DOMAIN e.teams
    BY <1>7, <2>1, <2>2, ReachesOn DEF Reaches, Grows
  <2>4. Known(t, how, d) = [id |-> t, trust |-> how, cat |-> e]
    BY DEF e
  <2> HIDE DEF Known
  <2>5. QED BY <2>3, <2>4
<1>8. ASSUME NEW q, Good(q)
      PROVE  LET x == Plays(q) IN
             Reaches(c, x.cat) /\ x.trust \in Trust /\ <<x.id, k>> \in x.cat.plays
  <2> DEFINE e == [q.cat EXCEPT !.plays = @ \cup {<<q.id, k>>}]
  <2>1. Sane(q.cat) /\ k \in DOMAIN q.cat.competitions
    BY <1>8 DEF Reaches, Grows
  <2>2. Reaches(q.cat, e) /\ <<q.id, k>> \in e.plays
    BY <1>8, <2>1, PlaysReach
  <2>3. Plays(q) = [id |-> q.id, trust |-> q.trust, cat |-> e]
    BY <1>8
  <2> HIDE DEF e
  <2>4. Reaches(c, e)
    BY <1>8, <2>2, ReachesOn
  <2> HIDE DEF Plays
  <2>5. Plays(q).cat = e /\ Plays(q).id = q.id /\ Plays(q).trust = q.trust
    BY <2>3
  <2>6. QED BY <1>8, <2>2, <2>4, <2>5
<1>9. Sane(c1) /\ DOMAIN c.teams \subseteq DOMAIN c1.teams
  BY <1>2 DEF Reaches, Grows
<1>10. namesake # {} => Reaches(c, c3)
  <2> SUFFICES ASSUME namesake # {} PROVE Reaches(c, c3)
    OBVIOUS
  <2> HIDE DEF c1, namesake, other
  <2>1. other \in DOMAIN c1.teams
    BY <1>5, <1>9
  <2>2. Reaches(c1, c2)
    BY <1>9, <2>1, PromoteTeamReaches
  <2> HIDE DEF c2
  <2>3. Sane(c2) /\ other \in DOMAIN c2.teams
    BY <2>1, <2>2 DEF Reaches, Grows
  <2>4. Reaches(c2, c3)
    BY <1>6, <2>3, TeamSaved
  <2> HIDE DEF c3
  <2>5. QED BY <1>2, <2>2, <2>4, ReachesOn
<1>11. Good(LearnTeam(c1, p, raw, k, id, suspect, last))
  <2> DEFINE q == LearnTeam(c1, p, raw, k, id, suspect, last)
  <2> HIDE DEF c1, suspect
  <2>1. /\ Reaches(c1, q.cat) /\ q.trust \in Trust /\ q.id \in DOMAIN q.cat.teams
        /\ q = [id |-> q.id, trust |-> q.trust, cat |-> q.cat]
    BY <1>9, LearnTeamReaches
  <2> HIDE DEF q
  <2>2. Good(q)
    BY <1>2, <2>1, ReachesOn
  <2>3. QED BY <2>2 DEF q
<1> HIDE DEF says, suspect, c1, mapped, namesake, Known, Plays, one, other, trust, c3, Good, r
<1>12. CASE says = "known" /\ r = Plays(Known(c.teamIds[<<p, id>>].to, "VERIFIED", c))
  <2>1. Good(Known(c.teamIds[<<p, id>>].to, "VERIFIED", c))
    BY <1>4, <1>6, <1>7, <1>12, ReachesSelf
  <2>2. QED BY <1>8, <1>12, <2>1 DEF r
<1>13. CASE mapped # {} /\ r = Plays(Known(one, trust, c1))
  <2>1. Good(Known(one, trust, c1))
    BY <1>2, <1>5, <1>6, <1>7, <1>13
  <2>2. QED BY <1>8, <1>13, <2>1 DEF r
<1>14. CASE namesake # {} /\ r = Plays(Known(other, "VERIFIED", c3))
  <2>1. Good(Known(other, "VERIFIED", c3))
    BY <1>5, <1>6, <1>7, <1>10, <1>14
  <2>2. QED BY <1>8, <1>14, <2>1 DEF r
<1>15. CASE r = Plays(LearnTeam(c1, p, raw, k, id, suspect, last))
  BY <1>8, <1>11, <1>15 DEF r
<1>16. QED BY <1>1, <1>12, <1>13, <1>14, <1>15

LEMMA LearnSideReaches ==
  ASSUME NEW c, Sane(c), NEW p, NEW k \in DOMAIN c.competitions, NEW raw,
         NEW t \in DOMAIN c.teams, NEW id \in Ref
  PROVE  Reaches(c, LearnSide(c, p, k, raw, t, id))
<1> DEFINE d == [c EXCEPT !.teamNames = SaveName(@, <<p, raw, k>>, t, "VERIFIED"),
                          !.teamIds = SaveIdIfAny(@, p, id, t, raw, "VERIFIED")]
           e == [d EXCEPT !.plays = @ \cup {<<t, k>>}]
<1>1. "VERIFIED" \in Trust /\ DOMAIN c = Fields
  BY DEF Trust, Sane
<1>2. Reaches(c, d)
  BY <1>1, TeamSaved
<1>3. Sane(d) /\ t \in DOMAIN d.teams /\ k \in DOMAIN d.competitions
  BY <1>2 DEF Reaches, Grows
<1>4. Reaches(d, e)
  BY <1>3, PlaysReach
<1>5. LearnSide(c, p, k, raw, t, id) = PromoteTeam(e, p, t, id)
  <2>1. e = [c EXCEPT !.teamNames = SaveName(@, <<p, raw, k>>, t, "VERIFIED"),
                      !.teamIds = SaveIdIfAny(@, p, id, t, raw, "VERIFIED"),
                      !.plays = @ \cup {<<t, k>>}]
    BY <1>1 DEF Fields
  <2>2. QED BY <2>1 DEF LearnSide
<1> HIDE DEF d, e
<1>6. Sane(e) /\ t \in DOMAIN e.teams
  BY <1>3, <1>4 DEF Reaches, Grows
<1>7. Reaches(e, PromoteTeam(e, p, t, id))
  BY <1>6, PromoteTeamReaches
<1>8. QED BY <1>2, <1>4, <1>5, <1>7, ReachesOn

LEMMA EventParts ==
  ASSUME NEW c, Sane(c), NEW e \in DOMAIN c.events
  PROVE  /\ c.events[e].competition \in DOMAIN c.competitions
         /\ c.events[e].home \in DOMAIN c.teams /\ c.events[e].away \in DOMAIN c.teams
BY DEF Sane, Entities

LEMMA LearnFromEventReaches ==
  ASSUME NEW c, Sane(c), NEW s \in Sighting, NEW e \in DOMAIN c.events
  PROVE  Reaches(c, LearnFromEvent(c, s, e))
<1> DEFINE k  == c.events[e].competition
           home == c.events[e].home
           away == c.events[e].away
           c1 == LearnSide(c, s.provider, k, s.home, home, s.homeId)
           c2 == LearnSide(c1, s.provider, k, s.away, away, s.awayId)
           c3 == [c2 EXCEPT
               !.leagueNames = SaveName(@, <<s.provider, s.league, s.country>>, k, "VERIFIED"),
               !.leagueIds = SaveIdIfAny(@, s.provider, s.leagueId, k, s.league, "VERIFIED")]
           c4 == PromoteCompetition(c3, s.provider, k, s.leagueId, s.country)
<1>1. LearnFromEvent(c, s, e) = c4
  BY DEF LearnFromEvent
<1>2. /\ k \in DOMAIN c.competitions /\ home \in DOMAIN c.teams /\ away \in DOMAIN c.teams
      /\ "VERIFIED" \in Trust
  BY EventParts DEF Trust
<1> HIDE DEF k, home, away
<1>3. Reaches(c, c1)
  BY <1>2, LearnSideReaches, SightingTyped
<1> HIDE DEF c1
<1>4. Sane(c1) /\ k \in DOMAIN c1.competitions /\ away \in DOMAIN c1.teams
  BY <1>2, <1>3 DEF Reaches, Grows
<1>5. Reaches(c1, c2)
  BY <1>4, LearnSideReaches, SightingTyped
<1> HIDE DEF c2
<1>6. Sane(c2) /\ k \in DOMAIN c2.competitions
  BY <1>4, <1>5 DEF Reaches, Grows
<1>7. Reaches(c2, c3)
  BY <1>2, <1>6, LeagueSaved
<1> HIDE DEF c3
<1>8. Sane(c3) /\ k \in DOMAIN c3.competitions
  BY <1>6, <1>7 DEF Reaches, Grows
<1>9. Reaches(c3, c4)
  BY <1>8, PromoteCompetitionReaches, SightingTyped
<1> HIDE DEF c4
<1>10. Reaches(c, c4)
  BY <1>3, <1>5, <1>7, <1>9, ReachesOn
<1>11. QED BY <1>1, <1>10

LEMMA FixtureSaved ==
  ASSUME NEW c, Sane(c), NEW s, NEW e \in DOMAIN c.events, NEW trust \in Trust
  PROVE  /\ Reaches(c, [c EXCEPT !.eventIds = SaveEventId(@, s, e, trust)])
         /\ Reaches(c, [c EXCEPT !.eventIds = SaveEventIdIfAny(@, s, e, trust)])
<1>1. Mapped(c) /\ DOMAIN c = Fields /\ Entities(c)
  BY DEF Sane
<1>2. ASSUME NEW ids, Leads(ids, DOMAIN c.events)
      PROVE  Reaches(c, [c EXCEPT !.eventIds = ids])
  <2> DEFINE d == [c EXCEPT !.eventIds = ids]
  <2>1. /\ DOMAIN d = Fields /\ d.ok = c.ok /\ d.competitions = c.competitions
        /\ d.teams = c.teams /\ d.events = c.events /\ d.plays = c.plays
        /\ d.teamNames = c.teamNames /\ d.teamIds = c.teamIds /\ d.eventIds = ids
        /\ d.leagueNames = c.leagueNames /\ d.leagueIds = c.leagueIds
    BY <1>1 DEF Fields, Mappings
  <2> HIDE DEF d
  <2>2. Mapped(d)
    BY <1>1, <1>2, <2>1 DEF Mapped
  <2>3. Reaches(c, d)
    BY <1>1, <2>1, <2>2, MappingsReach DEF Entities
  <2>4. QED BY <2>3 DEF d
<1>3. QED BY <1>1, <1>2, SaveEventIdTyped DEF Mapped

LEMMA LearnAndSync ==
  ASSUME NEW c, Sane(c), NEW s \in Sighting, NEW e \in DOMAIN c.events
  PROVE  Reaches(c, SyncStart(LearnFromEvent(c, s, e), s, e))
<1> DEFINE c1 == LearnFromEvent(c, s, e)
<1>1. Reaches(c, c1)
  BY LearnFromEventReaches
<1> HIDE DEF c1
<1>2. Sane(c1) /\ e \in DOMAIN c1.events
  BY <1>1 DEF Reaches, Grows
<1>3. Reaches(c1, SyncStart(c1, s, e))
  BY <1>2, SyncStartReaches
<1>4. Reaches(c, SyncStart(c1, s, e))
  BY <1>1, <1>3, ReachesOn
<1>5. QED BY <1>4 DEF c1

(* The event and the tables that match ends with.                          *)
Ends(c, r) == Reaches(c, r.cat) /\ r.id \in DOMAIN r.cat.events

LEMMA KnownFixtureReaches ==
  ASSUME NEW c, Sane(c), NEW s \in Sighting, NEW e \in DOMAIN c.events
  PROVE  Ends(c, KnownFixture(c, s, e)) /\ Ends(c, FixtureInContext(c, s, e))
<1> DEFINE c1 == SyncStart(LearnFromEvent(c, s, e), s, e)
           c2 == PromoteEvent(c1, s.provider, e, s.eventId)
           d1 == [c1 EXCEPT !.eventIds = SaveEventId(@, s, e, "VERIFIED")]
           d2 == [c2 EXCEPT !.eventIds = SaveEventIdIfAny(@, s, e, "VERIFIED")]
<1>1. /\ KnownFixture(c, s, e).id = e /\ KnownFixture(c, s, e).cat = d1
      /\ FixtureInContext(c, s, e).id = e /\ FixtureInContext(c, s, e).cat = d2
  BY DEF KnownFixture, FixtureInContext
<1>2. Reaches(c, c1) /\ "VERIFIED" \in Trust
  BY LearnAndSync DEF Trust
<1> HIDE DEF c1
<1>3. Sane(c1) /\ e \in DOMAIN c1.events
  BY <1>2 DEF Reaches, Grows
<1>4. Reaches(c1, d1) /\ Reaches(c1, c2)
  BY <1>2, <1>3, FixtureSaved, PromoteEventReaches, SightingTyped
<1> HIDE DEF c2
<1>5. Sane(c2) /\ e \in DOMAIN c2.events
  BY <1>3, <1>4 DEF Reaches, Grows
<1>6. Reaches(c2, d2)
  BY <1>2, <1>5, FixtureSaved
<1> HIDE DEF d1, d2
<1>7. Reaches(c, d1) /\ Reaches(c, d2)
  BY <1>2, <1>4, <1>6, ReachesOn
<1>8. e \in DOMAIN d1.events /\ e \in DOMAIN d2.events
  BY <1>7 DEF Reaches, Grows
<1>9. QED BY <1>1, <1>7, <1>8 DEF Ends

LEMMA FixtureOfSidesReaches ==
  ASSUME NEW s \in Sighting, NEW comp, NEW home, NEW away, Sane(away.cat),
         <<home.id, comp.id>> \in away.cat.plays, <<away.id, comp.id>> \in away.cat.plays
  PROVE  Ends(away.cat, FixtureOfSides(s, comp, home, away))
<1> DEFINE event == ResolveEvent(away.cat, s, comp.id, home.id, away.id)
           trust == IF {home.trust, away.trust, comp.trust} = {"VERIFIED"}
                    THEN "VERIFIED" ELSE "UNVERIFIED"
           d == [event.cat EXCEPT !.eventIds = SaveEventIdIfAny(@, s, event.id, trust)]
           r == FixtureOfSides(s, comp, home, away)
<1>1. r.id = event.id /\ r.cat = d
  BY DEF FixtureOfSides
<1>2. trust \in Trust
  BY DEF Trust
<1>3. Reaches(away.cat, event.cat) /\ event.id \in DOMAIN event.cat.events
  BY ResolveEventReaches
<1> HIDE DEF event, trust, r
<1>4. Sane(event.cat)
  BY <1>3 DEF Reaches
<1>5. Reaches(event.cat, d)
  BY <1>2, <1>3, <1>4, FixtureSaved
<1> HIDE DEF d
<1>6. Reaches(away.cat, d) /\ event.id \in DOMAIN d.events
  BY <1>3, <1>5, ReachesOn DEF Reaches, Grows
<1>7. QED BY <1>1, <1>6 DEF Ends, r

LEMMA FixtureInReaches ==
  ASSUME NEW s \in Sighting, NEW comp, Sane(comp.cat),
         comp.id \in DOMAIN comp.cat.competitions, NEW last
  PROVE  Ends(comp.cat, FixtureIn(s, comp, last))
<1> DEFINE found == ByContext(comp.cat, s, comp)
           e == CHOOSE x \in found : TRUE
           home == ResolveTeam(comp.cat, s.provider, s.home, comp.id, s.homeId, last)
           away == ResolveTeam(home.cat, s.provider, s.away, comp.id, s.awayId, last)
<1>1. CASE found # {}
  <2>1. found \subseteq DOMAIN comp.cat.events
    BY DEF ByContext
  <2>2. FixtureIn(s, comp, last) = FixtureInContext(comp.cat, s, e)
    BY <1>1 DEF FixtureIn
  <2> HIDE DEF found
  <2>3. e \in DOMAIN comp.cat.events
    BY <1>1, <2>1
  <2> HIDE DEF e
  <2>4. QED BY <2>2, <2>3, KnownFixtureReaches
<1>2. CASE found = {}
  <2>1. FixtureIn(s, comp, last) = FixtureOfSides(s, comp, home, away)
    BY <1>2 DEF FixtureIn, FixtureOfHome
  <2>2. Reaches(comp.cat, home.cat) /\ <<home.id, comp.id>> \in home.cat.plays
    BY ResolveTeamReaches, SightingTyped
  <2> HIDE DEF home
  <2>3. Sane(home.cat) /\ comp.id \in DOMAIN home.cat.competitions
    BY <2>2 DEF Reaches, Grows
  <2>4. Reaches(home.cat, away.cat) /\ <<away.id, comp.id>> \in away.cat.plays
    BY <2>3, ResolveTeamReaches, SightingTyped
  <2> HIDE DEF away
  <2>5. Sane(away.cat) /\ <<home.id, comp.id>> \in away.cat.plays
    BY <2>2, <2>4 DEF Reaches, Grows
  <2>6. Ends(away.cat, FixtureOfSides(s, comp, home, away))
    BY <2>4, <2>5, FixtureOfSidesReaches
  <2>7. QED BY <2>1, <2>2, <2>4, <2>6, ReachesOn DEF Ends
<1>3. QED BY <1>1, <1>2

LEMMA MatchReaches ==
  ASSUME NEW c, Sane(c), NEW s \in Sighting, NEW last
  PROVE  Ends(c, Match(c, s, last))
<1> DEFINE key   == <<s.provider, s.eventId>>
           e     == c.eventIds[key].to
           tried == s.eventId # None /\ key \in DOMAIN c.eventIds
                      /\ c.eventIds[key].trust = "VERIFIED"
           c1 == IF tried THEN [c EXCEPT !.eventIds = MarkSuspect(@, key)] ELSE c
           comp == ResolveCompetition(c1, s)
<1>1. \/ tried /\ Match(c, s, last) = KnownFixture(c, s, e)
      \/ Match(c, s, last) = FixtureIn(s, comp, last)
  BY DEF Match
<1>2. Mapped(c) /\ DOMAIN c = Fields /\ Entities(c)
  BY DEF Sane
<1>3. tried => e \in DOMAIN c.events
  BY <1>2 DEF Mapped, Leads
<1>4. Reaches(c, c1)
  <2>1. CASE ~ tried
    BY <2>1, ReachesSelf
  <2>2. CASE tried
    <3> DEFINE ids == MarkSuspect(c.eventIds, key)
               d == [c EXCEPT !.eventIds = MarkSuspect(@, key)]
    <3>1. Leads(ids, DOMAIN c.events)
      BY <1>2, <2>2, MarkTyped DEF Mapped
    <3>2. /\ DOMAIN d = Fields /\ d.ok = c.ok /\ d.competitions = c.competitions
          /\ d.teams = c.teams /\ d.events = c.events /\ d.plays = c.plays
          /\ d.teamNames = c.teamNames /\ d.teamIds = c.teamIds /\ d.eventIds = ids
          /\ d.leagueNames = c.leagueNames /\ d.leagueIds = c.leagueIds
      BY <1>2 DEF Fields, Mappings
    <3> HIDE DEF ids, d
    <3>3. Mapped(d)
      BY <1>2, <3>1, <3>2 DEF Mapped
    <3>4. Reaches(c, d)
      BY <1>2, <3>2, <3>3, MappingsReach DEF Entities
    <3>5. QED BY <2>2, <3>4 DEF d
  <2>3. QED BY <2>1, <2>2
<1>5. tried => Ends(c, KnownFixture(c, s, e))
  BY <1>3, KnownFixtureReaches
<1> HIDE DEF c1, e, tried
<1>6. Reaches(c1, comp.cat) /\ comp.id \in DOMAIN comp.cat.competitions
  BY <1>4, ResolveCompetitionReaches DEF Reaches
<1> HIDE DEF comp
<1>7. Ends(comp.cat, FixtureIn(s, comp, last))
  BY <1>6, FixtureInReaches DEF Reaches
<1>8. Ends(c, FixtureIn(s, comp, last))
  BY <1>4, <1>6, <1>7, ReachesOn DEF Ends
<1>9. QED BY <1>1, <1>5, <1>8

-----------------------------------------------------------------------------
(* The reviewer's decisions.                                               *)

LEMMA VerifyTeamReaches ==
  ASSUME Sane(cat), NEW p, NEW raw, NEW id, NEW t \in DOMAIN cat.teams,
         NEW k \in {AnyCompetition} \cup DOMAIN cat.competitions, VerifyTeam(p, raw, id, k, t)
  PROVE  Reaches(cat, cat') /\ cat'.ok = cat.ok
<1> DEFINE names == Override(cat.teamNames, <<p, raw, k>>, t)
           ids == OverrideIdIfAny(cat.teamIds, p, id, t, raw)
           plays == IF k = AnyCompetition THEN cat.plays ELSE cat.plays \cup {<<t, k>>}
<1>1. Mapped(cat) /\ DOMAIN cat = Fields /\ Entities(cat)
  BY DEF Sane
<1>2. cat' = [cat EXCEPT !.teamNames = names, !.teamIds = ids, !.plays = plays]
  BY DEF VerifyTeam, Decide
<1>3. Leads(names, DOMAIN cat.teams) /\ Leads(ids, DOMAIN cat.teams)
  BY <1>1, OverrideTyped DEF Mapped
<1>4. cat.plays \subseteq plays /\ plays \subseteq (DOMAIN cat.teams) \X (DOMAIN cat.competitions)
  BY <1>1 DEF Entities
<1> HIDE DEF names, ids, plays
<1>5. /\ DOMAIN cat' = Fields /\ cat'.ok = cat.ok /\ cat'.competitions = cat.competitions
      /\ cat'.teams = cat.teams /\ cat'.events = cat.events /\ cat'.plays = plays
      /\ cat'.teamNames = names /\ cat'.teamIds = ids /\ cat'.eventIds = cat.eventIds
      /\ cat'.leagueNames = cat.leagueNames /\ cat'.leagueIds = cat.leagueIds
  BY <1>1, <1>2 DEF Fields, Mappings
<1>6. Mapped(cat')
  BY <1>1, <1>3, <1>5 DEF Mapped
<1>7. QED BY <1>4, <1>5, <1>6, MappingsReach

LEMMA RejectTeamReaches ==
  ASSUME Sane(cat), NEW p, NEW raw, NEW id, NEW k, RejectTeam(p, raw, id, k)
  PROVE  Reaches(cat, cat') /\ cat'.ok = cat.ok
<1> DEFINE names == RejectRow(cat.teamNames, <<p, raw, k>>)
           ids == RejectRow(cat.teamIds, <<p, id>>)
<1>1. Mapped(cat) /\ DOMAIN cat = Fields /\ Entities(cat)
  BY DEF Sane
<1>2. cat' = [cat EXCEPT !.teamNames = names, !.teamIds = ids]
  BY DEF RejectTeam, Decide
<1>3. Leads(names, DOMAIN cat.teams) /\ Leads(ids, DOMAIN cat.teams)
  BY <1>1, MarkTyped DEF Mapped
<1> HIDE DEF names, ids
<1>4. /\ DOMAIN cat' = Fields /\ cat'.ok = cat.ok /\ cat'.competitions = cat.competitions
      /\ cat'.teams = cat.teams /\ cat'.events = cat.events /\ cat'.plays = cat.plays
      /\ cat'.teamNames = names /\ cat'.teamIds = ids /\ cat'.eventIds = cat.eventIds
      /\ cat'.leagueNames = cat.leagueNames /\ cat'.leagueIds = cat.leagueIds
  BY <1>1, <1>2 DEF Fields, Mappings
<1>5. Mapped(cat')
  BY <1>1, <1>3, <1>4 DEF Mapped
<1>6. QED BY <1>1, <1>4, <1>5, MappingsReach DEF Entities

LEMMA VerifyCompetitionReaches ==
  ASSUME Sane(cat), NEW p, NEW raw, NEW id, NEW country, NEW k \in DOMAIN cat.competitions,
         VerifyCompetition(p, raw, id, country, k)
  PROVE  Reaches(cat, cat') /\ cat'.ok = cat.ok
<1> DEFINE names == Override(cat.leagueNames, <<p, raw, country>>, k)
           ids == OverrideIdIfAny(cat.leagueIds, p, id, k, raw)
<1>1. Mapped(cat) /\ DOMAIN cat = Fields /\ Entities(cat)
  BY DEF Sane
<1>2. cat' = [cat EXCEPT !.leagueNames = names, !.leagueIds = ids]
  BY DEF VerifyCompetition, Decide
<1>3. Leads(names, DOMAIN cat.competitions) /\ Leads(ids, DOMAIN cat.competitions)
  BY <1>1, OverrideTyped DEF Mapped
<1> HIDE DEF names, ids
<1>4. /\ DOMAIN cat' = Fields /\ cat'.ok = cat.ok /\ cat'.competitions = cat.competitions
      /\ cat'.teams = cat.teams /\ cat'.events = cat.events /\ cat'.plays = cat.plays
      /\ cat'.leagueNames = names /\ cat'.leagueIds = ids /\ cat'.eventIds = cat.eventIds
      /\ cat'.teamNames = cat.teamNames /\ cat'.teamIds = cat.teamIds
  BY <1>1, <1>2 DEF Fields, Mappings
<1>5. Mapped(cat')
  BY <1>1, <1>3, <1>4 DEF Mapped
<1>6. QED BY <1>1, <1>4, <1>5, MappingsReach DEF Entities

LEMMA RejectCompetitionReaches ==
  ASSUME Sane(cat), NEW p, NEW raw, NEW id, NEW country,
         RejectCompetition(p, raw, id, country)
  PROVE  Reaches(cat, cat') /\ cat'.ok = cat.ok
<1> DEFINE names == RejectRow(cat.leagueNames, <<p, raw, country>>)
           ids == RejectRow(cat.leagueIds, <<p, id>>)
<1>1. Mapped(cat) /\ DOMAIN cat = Fields /\ Entities(cat)
  BY DEF Sane
<1>2. cat' = [cat EXCEPT !.leagueNames = names, !.leagueIds = ids]
  BY DEF RejectCompetition, Decide
<1>3. Leads(names, DOMAIN cat.competitions) /\ Leads(ids, DOMAIN cat.competitions)
  BY <1>1, MarkTyped DEF Mapped
<1> HIDE DEF names, ids
<1>4. /\ DOMAIN cat' = Fields /\ cat'.ok = cat.ok /\ cat'.competitions = cat.competitions
      /\ cat'.teams = cat.teams /\ cat'.events = cat.events /\ cat'.plays = cat.plays
      /\ cat'.leagueNames = names /\ cat'.leagueIds = ids /\ cat'.eventIds = cat.eventIds
      /\ cat'.teamNames = cat.teamNames /\ cat'.teamIds = cat.teamIds
  BY <1>1, <1>2 DEF Fields, Mappings
<1>5. Mapped(cat')
  BY <1>1, <1>3, <1>4 DEF Mapped
<1>6. QED BY <1>1, <1>4, <1>5, MappingsReach DEF Entities

(* The tables with other fixture mappings.                                 *)
LEMMA FixturesReplaced ==
  ASSUME NEW c, Sane(c), NEW ids, Leads(ids, DOMAIN c.events)
  PROVE  LET d == [c EXCEPT !.eventIds = ids] IN Reaches(c, d) /\ d.ok = c.ok
<1> DEFINE d == [c EXCEPT !.eventIds = ids]
<1>1. Mapped(c) /\ DOMAIN c = Fields /\ Entities(c)
  BY DEF Sane
<1>2. /\ DOMAIN d = Fields /\ d.ok = c.ok /\ d.competitions = c.competitions
      /\ d.teams = c.teams /\ d.events = c.events /\ d.plays = c.plays
      /\ d.teamNames = c.teamNames /\ d.teamIds = c.teamIds /\ d.eventIds = ids
      /\ d.leagueNames = c.leagueNames /\ d.leagueIds = c.leagueIds
  BY <1>1 DEF Fields, Mappings
<1> HIDE DEF d
<1>3. Mapped(d)
  BY <1>1, <1>2 DEF Mapped
<1>4. Reaches(c, d)
  BY <1>1, <1>2, <1>3, MappingsReach DEF Entities
<1>5. QED BY <1>2, <1>4 DEF d

LEMMA VerifyEventReaches ==
  ASSUME Sane(cat), NEW s \in Sighting, NEW e \in DOMAIN cat.events, VerifyEvent(s, e)
  PROVE  Reaches(cat, cat') /\ cat'.ok = cat.ok
<1> DEFINE others == [x \in DOMAIN cat.eventIds \ {<<s.provider, s.eventId>>} |->
                        cat.eventIds[x]]
           ids == SaveEventId(others, s, e, "VERIFIED")
           d == [cat EXCEPT !.eventIds = ids]
<1>1. cat' = PromoteEvent(d, s.provider, e, s.eventId)
  BY DEF VerifyEvent, Decide
<1>2. Leads(cat.eventIds, DOMAIN cat.events)
  BY DEF Sane, Mapped
<1>3. Leads(others, DOMAIN cat.events)
  BY <1>2 DEF Leads, Rows
<1> HIDE DEF others
<1>4. Leads(ids, DOMAIN cat.events)
  BY <1>3, SaveEventIdTyped DEF Trust
<1> HIDE DEF ids
<1>5. Reaches(cat, d) /\ d.ok = cat.ok
  BY <1>4, FixturesReplaced
<1> HIDE DEF d
<1>6. Sane(d) /\ e \in DOMAIN d.events
  BY <1>5 DEF Reaches, Grows
<1>7. Reaches(d, cat')
  BY <1>1, <1>6, PromoteEventReaches, SightingTyped
<1>8. DOMAIN d = Fields
  BY <1>6 DEF Sane
<1>9. cat'.ok = d.ok
  BY <1>1, <1>8 DEF PromoteEvent, Fields
<1>10. QED BY <1>5, <1>7, <1>9, ReachesOn

LEMMA RejectEventReaches ==
  ASSUME Sane(cat), NEW p, NEW id, RejectEvent(p, id)
  PROVE  Reaches(cat, cat') /\ cat'.ok = cat.ok
<1> DEFINE ids == RejectRow(cat.eventIds, <<p, id>>)
<1>1. cat' = [cat EXCEPT !.eventIds = ids]
  BY DEF RejectEvent, Decide
<1>2. Leads(ids, DOMAIN cat.events)
  BY MarkTyped DEF Sane, Mapped
<1> HIDE DEF ids
<1>3. QED BY <1>1, <1>2, FixturesReplaced

LEMMA ReviewReaches ==
  ASSUME Sane(cat), NEW s \in Sighting, Review(s)
  PROVE  /\ Reaches(cat, cat') /\ cat'.ok = cat.ok
         /\ reviews < MaxReviews /\ reviews' = reviews + 1
         /\ UNCHANGED <<refused, about>>
<1>1. reviews < MaxReviews /\ reviews' = reviews + 1 /\ UNCHANGED <<refused, about>>
  BY DEF Review, VerifyTeam, RejectTeam, VerifyCompetition, RejectCompetition, VerifyEvent,
         RejectEvent, Decide
<1>2. CASE \E k \in {AnyCompetition} \cup DOMAIN cat.competitions :
             \E id \in {None, s.homeId}, t \in DOMAIN cat.teams :
               VerifyTeam(s.provider, s.home, id, k, t)
  BY <1>1, <1>2, VerifyTeamReaches
<1>3. CASE \E k \in {AnyCompetition} \cup DOMAIN cat.competitions :
             \E raw \in {None, s.home}, id \in {None, s.homeId} :
               RejectTeam(s.provider, raw, id, k)
  BY <1>1, <1>3, RejectTeamReaches
<1>4. CASE \E country \in {None, s.country} :
             \E id \in {None, s.leagueId}, k \in DOMAIN cat.competitions :
               VerifyCompetition(s.provider, s.league, id, country, k)
  BY <1>1, <1>4, VerifyCompetitionReaches
<1>5. CASE \E country \in {None, s.country} :
             \E raw \in {None, s.league}, id \in {None, s.leagueId} :
               RejectCompetition(s.provider, raw, id, country)
  BY <1>1, <1>5, RejectCompetitionReaches
<1>6. CASE \E e \in DOMAIN cat.events : VerifyEvent(s, e)
  BY <1>1, <1>6, VerifyEventReaches
<1>7. CASE RejectEvent(s.provider, s.eventId)
  BY <1>1, <1>7, RejectEventReaches
<1>8. QED BY <1>1, <1>2, <1>3, <1>4, <1>5, <1>6, <1>7 DEF Review

-----------------------------------------------------------------------------
(* The tables are sane and no index is violated; the history variable      *)
(* speaks of events that exist.                                            *)
WellFormed ==
  /\ Sane(cat) /\ cat.ok
  /\ DOMAIN about \subseteq DOMAIN cat.events
  /\ refused \subseteq Sighting
  /\ reviews \in 0 .. MaxReviews

LEMMA WellFormedInit == Init => WellFormed
<1> SUFFICES ASSUME Init PROVE WellFormed
  OBVIOUS
<1>1. /\ DOMAIN cat = Fields /\ cat.ok /\ cat.competitions = NoRows /\ cat.teams = NoRows
      /\ cat.events = NoRows /\ cat.plays = {}
      /\ cat.teamNames = NoRows /\ cat.teamIds = NoRows /\ cat.eventIds = NoRows
      /\ cat.leagueNames = NoRows /\ cat.leagueIds = NoRows
  BY DEF Init, Fields, Mappings
<1>2. DOMAIN NoRows = {}
  BY DEF NoRows
<1>3. \A T : Table(NoRows, T)
  <2> SUFFICES ASSUME NEW T PROVE Table(NoRows, T)
    OBVIOUS
  <2>1. NoRows \in [1 .. 0 -> T]
    BY DEF NoRows
  <2>2. QED BY <2>1 DEF Table
<1>4. \A T : Leads(NoRows, T)
  BY <1>2 DEF Leads, Rows
<1>5. Indexed(cat)
  BY <1>1, <1>2 DEF Indexed, NamesDiffer, RefsDiffer
<1>6. Entities(cat)
  BY <1>1, <1>2, <1>3, <1>5 DEF Entities
<1>7. Mapped(cat)
  BY <1>1, <1>4 DEF Mapped
<1>8. MaxReviews \in Nat
  BY CatalogAssumption
<1>9. about = NoRows /\ refused = {} /\ reviews = 0
  BY DEF Init
<1>10. 0 \in 0 .. MaxReviews
  BY <1>8
<1>11. QED BY <1>1, <1>2, <1>6, <1>7, <1>9, <1>10 DEF WellFormed, Sane

LEMMA WellFormedNext == WellFormed /\ [Next]_vars => WellFormed'
<1> SUFFICES ASSUME WellFormed, [Next]_vars PROVE WellFormed'
  OBVIOUS
<1>1. ASSUME NEW s \in Sighting, NEW last, Ingest(s, last) PROVE WellFormed'
  <2> DEFINE r == Match(cat, s, last)
  <2>1. Ends(cat, r)
    BY MatchReaches DEF WellFormed
  <2>2. \/ /\ r.cat.ok /\ cat' = r.cat /\ refused' = refused \ {s}
           /\ about' = Put(about, r.id,
                {s.fixture} \cup IF r.id \in DOMAIN about THEN about[r.id] ELSE {})
        \/ refused' = refused \cup {s} /\ UNCHANGED <<cat, about>>
    BY <1>1 DEF Ingest
  <2>3. reviews' = reviews
    BY <1>1 DEF Ingest
  <2> HIDE DEF r
  <2>4. CASE /\ r.cat.ok /\ cat' = r.cat /\ refused' = refused \ {s}
             /\ about' = Put(about, r.id,
                  {s.fixture} \cup IF r.id \in DOMAIN about THEN about[r.id] ELSE {})
    <3>1. DOMAIN about' = DOMAIN about \cup {r.id}
      BY <2>4 DEF Put
    <3>2. Sane(cat') /\ DOMAIN cat.events \subseteq DOMAIN cat'.events
          /\ r.id \in DOMAIN cat'.events
      BY <2>1, <2>4 DEF Ends, Reaches, Grows
    <3>3. QED BY <2>3, <2>4, <3>1, <3>2 DEF WellFormed
  <2>5. CASE refused' = refused \cup {s} /\ UNCHANGED <<cat, about>>
    BY <2>3, <2>5 DEF WellFormed
  <2>6. QED BY <2>2, <2>4, <2>5
<1>2. ASSUME NEW s \in Reviewed, Review(s) PROVE WellFormed'
  <2>1. s \in Sighting /\ MaxReviews \in Nat
    BY CatalogAssumption
  <2>2. /\ Reaches(cat, cat') /\ cat'.ok = cat.ok
        /\ reviews < MaxReviews /\ reviews' = reviews + 1
        /\ UNCHANGED <<refused, about>>
    BY <1>2, <2>1, ReviewReaches DEF WellFormed
  <2>3. reviews' \in 0 .. MaxReviews
    BY <2>1, <2>2 DEF WellFormed
  <2>4. QED BY <2>2, <2>3 DEF WellFormed, Reaches, Grows
<1>3. CASE UNCHANGED vars
  BY <1>3 DEF WellFormed, vars
<1>4. QED BY <1>1, <1>2, <1>3 DEF Next

LEMMA WellFormedTypes == WellFormed => TypeOK
<1> SUFFICES ASSUME WellFormed PROVE TypeOK
  OBVIOUS
<1>1. Entities(cat) /\ Mapped(cat) /\ Indexed(cat)
  BY DEF WellFormed, Sane, Entities
<1>2. \A k \in DOMAIN cat.competitions :
       /\ cat.competitions[k].name \in Name
       /\ cat.competitions[k].country \in Country \cup {None}
       /\ ~ NameTaken(cat, cat.competitions[k].name, cat.competitions[k].country, k)
  <2>1. \A k \in DOMAIN cat.competitions : cat.competitions[k] \in Competition
    BY <1>1, TableRow DEF Entities
  <2>2. QED BY <1>1, <2>1 DEF Competition, Indexed, NamesDiffer
<1>3. \A t \in DOMAIN cat.teams : cat.teams[t].name \in Name
  <2>1. \A t \in DOMAIN cat.teams : cat.teams[t] \in Team
    BY <1>1, TableRow DEF Entities
  <2>2. QED BY <2>1 DEF Team
<1>4. \A table \in {"competitions", "teams", "events"} :
       \A k \in DOMAIN cat[table] :
         cat[table][k].ref = None \/ Unused(cat[table], cat[table][k].ref, k)
  BY <1>1 DEF Indexed, RefsDiffer
<1>5. \A m \in {<<"teamNames", "teams">>, <<"teamIds", "teams">>,
               <<"leagueNames", "competitions">>, <<"leagueIds", "competitions">>,
               <<"eventIds", "events">>} :
       \A k \in DOMAIN cat[m[1]] :
         /\ cat[m[1]][k].trust \in Trust
         /\ cat[m[1]][k].to \in DOMAIN cat[m[2]]
  BY <1>1 DEF Mapped, Leads
<1>6. cat.plays \subseteq (DOMAIN cat.teams) \X (DOMAIN cat.competitions)
  BY <1>1 DEF Entities
<1>7. \A e \in DOMAIN cat.events :
       LET row == cat.events[e] IN
       {<<row.home, row.competition>>, <<row.away, row.competition>>} \subseteq cat.plays
  BY <1>1 DEF Entities
<1>8. QED BY <1>2, <1>3, <1>4, <1>5, <1>6, <1>7 DEF TypeOK, WellFormed

(* In every run every row of a mapping leads to a row that exists, the     *)
(* sides of every event are recorded as playing in its competition, and    *)
(* what the unique indexes forbid is not there: whichever way match and    *)
(* the reviewer go, what one step found or created the next still finds.   *)
THEOREM RowsLeadSomewhere == Spec => []TypeOK
<1>1. Spec => []WellFormed
  BY WellFormedInit, WellFormedNext, PTL DEF Spec
<1>2. QED BY <1>1, WellFormedTypes, PTL

-----------------------------------------------------------------------------
(***************************************************************************)
(* No two fixtures share an event, if the providers' reports are curated.  *)
(* Truthful says what the names and the VERIFIED mappings of the tables    *)
(* mean: a competition is the league of a sighting that bears its name and *)
(* its country, a team is a club of its name, and every VERIFIED mapping   *)
(* repeats what some sighting said of its target.  Recorded says of every  *)
(* event that a sighting of the one fixture it was used for says the same. *)
(***************************************************************************)

Bears(c, k, z) ==
  /\ Called[z.league] = Called[c.competitions[k].name]
  /\ z.country = c.competitions[k].country

(* Competition k is the league of the sighting s.                          *)
InLeague(c, k, s) ==
  /\ k \in DOMAIN c.competitions
  /\ Called[s.league] = Called[c.competitions[k].name]
  /\ \E z \in Sighting : Bears(c, k, z) /\ League[z.fixture] = League[s.fixture]

(* Team t is called n.                                                     *)
Is(c, t, n) == t \in DOMAIN c.teams /\ Called[c.teams[t].name] = Called[n]

(* What the mapping tables m say of the entities of c is true.             *)
TrueLeagueNames(m, c) ==
  \A x \in DOMAIN m :
    /\ m[x].manual = FALSE
    /\ m[x].trust = "VERIFIED" =>
         \E u \in Sighting : u.league = x[2] /\ u.country = x[3] /\ InLeague(c, m[x].to, u)
TrueLeagueIds(m, c) ==
  \A x \in DOMAIN m : m[x].trust = "VERIFIED" =>
    \E u \in Sighting : /\ u.provider = x[1] /\ u.leagueId = x[2] /\ u.league = m[x].verified
                        /\ InLeague(c, m[x].to, u)
TrueTeamNames(m, c) ==
  \A x \in DOMAIN m : m[x].trust = "VERIFIED" => Is(c, m[x].to, x[2])
TrueTeamIds(m, c) ==
  \A x \in DOMAIN m : m[x].trust = "VERIFIED" =>
    /\ Is(c, m[x].to, m[x].verified)
    /\ \E u \in Sighting : u.provider = x[1] /\ <<x[2], m[x].verified>> \in Sides(u)

Borne(c) == \A k \in DOMAIN c.competitions : \E z \in Sighting : Bears(c, k, z)
Truthful(c) ==
  /\ Borne(c)
  /\ TrueLeagueNames(c.leagueNames, c) /\ TrueLeagueIds(c.leagueIds, c)
  /\ TrueTeamNames(c.teamNames, c) /\ TrueTeamIds(c.teamIds, c)

(* What c says of leagues and clubs, d says.                               *)
Keeps(c, d) ==
  /\ \A k : \A s \in Sighting : InLeague(c, k, s) => InLeague(d, k, s)
  /\ \A t, n : Is(c, t, n) => Is(d, t, n)

(* d is reached from c without a lie, before the event itself is touched.  *)
Follows(c, d) ==
  /\ Reaches(c, d) /\ Keeps(c, d) /\ Truthful(d)
  /\ d.events = c.events /\ d.eventIds = c.eventIds

-----------------------------------------------------------------------------
LEMMA FollowsSelf == ASSUME NEW c, Sane(c), Truthful(c) PROVE Follows(c, c)
BY ReachesSelf DEF Follows, Keeps

LEMMA FollowsOn ==
  ASSUME NEW c, NEW d, NEW e, Follows(c, d), Follows(d, e) PROVE Follows(c, e)
<1>1. Reaches(c, e)
  BY ReachesOn DEF Follows
<1>2. Keeps(c, e)
  BY DEF Follows, Keeps
<1>3. QED BY <1>1, <1>2 DEF Follows

LEMMA FollowsSane == ASSUME NEW c, NEW d, Follows(c, d) PROVE Sane(d) /\ Truthful(d)
BY DEF Follows, Reaches

(* A mapping that was true stays true.                                     *)
LEMMA StillTrue ==
  ASSUME NEW c, NEW d, Keeps(c, d), NEW m
  PROVE  /\ TrueLeagueNames(m, c) => TrueLeagueNames(m, d)
         /\ TrueLeagueIds(m, c) => TrueLeagueIds(m, d)
         /\ TrueTeamNames(m, c) => TrueTeamNames(m, d)
         /\ TrueTeamIds(m, c) => TrueTeamIds(m, d)
<1>1. TrueLeagueNames(m, c) => TrueLeagueNames(m, d)
  BY DEF Keeps, TrueLeagueNames
<1>2. TrueLeagueIds(m, c) => TrueLeagueIds(m, d)
  BY DEF Keeps, TrueLeagueIds
<1>3. TrueTeamNames(m, c) => TrueTeamNames(m, d)
  BY DEF Keeps, TrueTeamNames
<1>4. TrueTeamIds(m, c) => TrueTeamIds(m, d)
  BY DEF Keeps, TrueTeamIds
<1>5. QED BY <1>1, <1>2, <1>3, <1>4

(* The entities changed, the mappings did not.                             *)
LEMMA EntitiesFollow ==
  ASSUME NEW c, NEW d, Truthful(c), Reaches(c, d), SameMappings(c, d), d.events = c.events,
         Keeps(c, d), Borne(d)
  PROVE  Follows(c, d)
<1>1. /\ d.teamNames = c.teamNames /\ d.teamIds = c.teamIds /\ d.leagueNames = c.leagueNames
      /\ d.leagueIds = c.leagueIds /\ d.eventIds = c.eventIds
  BY DEF SameMappings, Mappings
<1>2. Truthful(d)
  BY <1>1, StillTrue DEF Truthful
<1>3. QED BY <1>1, <1>2 DEF Follows

(* The mappings changed, the entities did not.                             *)
LEMMA MappingsFollow ==
  ASSUME NEW c, NEW d, Truthful(c), Reaches(c, d),
         d.competitions = c.competitions, d.teams = c.teams,
         d.events = c.events, d.eventIds = c.eventIds,
         TrueLeagueNames(d.leagueNames, c), TrueLeagueIds(d.leagueIds, c),
         TrueTeamNames(d.teamNames, c), TrueTeamIds(d.teamIds, c)
  PROVE  Follows(c, d)
<1>1. Keeps(c, d)
  BY DEF Keeps, InLeague, Bears, Is
<1>2. Borne(d)
  BY DEF Truthful, Borne, Bears
<1>3. Truthful(d)
  BY <1>1, <1>2, StillTrue DEF Truthful
<1>4. QED BY <1>1, <1>3 DEF Follows

-----------------------------------------------------------------------------
(* What is saved of a sighting is true, if its target is right.            *)

LEMMA TrueLeagueNameSaved ==
  ASSUME NEW c, NEW m, TrueLeagueNames(m, c), NEW s \in Sighting, NEW k, InLeague(c, k, s),
         NEW trust
  PROVE  TrueLeagueNames(SaveName(m, <<s.provider, s.league, s.country>>, k, trust), c)
<1> DEFINE key == <<s.provider, s.league, s.country>>
           row == [to |-> k, trust |-> trust, manual |-> FALSE]
<1>1. SaveName(m, key, k, trust) \in {m, Put(m, key, row)}
  BY DEF SaveName
<1>2. row.to = k /\ row.manual = FALSE /\ key[2] = s.league /\ key[3] = s.country
  OBVIOUS
<1> HIDE DEF key, row
<1>3. TrueLeagueNames(Put(m, key, row), c)
  BY <1>2 DEF TrueLeagueNames, Put
<1>4. QED BY <1>1, <1>3 DEF key

LEMMA TrueLeagueIdSaved ==
  ASSUME NEW c, NEW m, TrueLeagueIds(m, c), NEW s \in Sighting, NEW k, InLeague(c, k, s),
         NEW trust
  PROVE  TrueLeagueIds(SaveIdIfAny(m, s.provider, s.leagueId, k, s.league, trust), c)
<1> DEFINE key == <<s.provider, s.leagueId>>
           row == [to |-> k, trust |-> trust,
                   first |-> IF key \in DOMAIN m THEN m[key].first ELSE s.league,
                   verified |-> IF trust = "VERIFIED" THEN s.league
                                ELSE IF key \in DOMAIN m THEN m[key].verified ELSE None]
           new == SaveIdIfAny(m, s.provider, s.leagueId, k, s.league, trust)
<1>1. new \in {m, Put(m, key, row)}
  BY DEF SaveIdIfAny, SaveId
<1>2. /\ row.to = k /\ row.trust = trust /\ (trust = "VERIFIED" => row.verified = s.league)
      /\ key[1] = s.provider /\ key[2] = s.leagueId
  OBVIOUS
<1> HIDE DEF key, row, new
<1>3. TrueLeagueIds(Put(m, key, row), c)
  BY <1>2 DEF TrueLeagueIds, Put
<1>4. QED BY <1>1, <1>3 DEF new

LEMMA TrueTeamNameSaved ==
  ASSUME NEW c, NEW m, TrueTeamNames(m, c), NEW p, NEW raw, NEW k, NEW t, Is(c, t, raw),
         NEW trust
  PROVE  TrueTeamNames(SaveName(m, <<p, raw, k>>, t, trust), c)
<1> DEFINE key == <<p, raw, k>>
           row == [to |-> t, trust |-> trust, manual |-> FALSE]
<1>1. SaveName(m, key, t, trust) \in {m, Put(m, key, row)}
  BY DEF SaveName
<1>2. row.to = t /\ key[2] = raw
  OBVIOUS
<1> HIDE DEF key, row
<1>3. TrueTeamNames(Put(m, key, row), c)
  BY <1>2 DEF TrueTeamNames, Put
<1>4. QED BY <1>1, <1>3 DEF key

LEMMA TrueTeamIdSaved ==
  ASSUME NEW c, NEW m, TrueTeamIds(m, c), NEW s \in Sighting, NEW id, NEW raw,
         <<id, raw>> \in Sides(s), NEW t, Is(c, t, raw), NEW trust
  PROVE  TrueTeamIds(SaveIdIfAny(m, s.provider, id, t, raw, trust), c)
<1> DEFINE key == <<s.provider, id>>
           row == [to |-> t, trust |-> trust,
                   first |-> IF key \in DOMAIN m THEN m[key].first ELSE raw,
                   verified |-> IF trust = "VERIFIED" THEN raw
                                ELSE IF key \in DOMAIN m THEN m[key].verified ELSE None]
           new == SaveIdIfAny(m, s.provider, id, t, raw, trust)
<1>1. new \in {m, Put(m, key, row)}
  BY DEF SaveIdIfAny, SaveId
<1>2. /\ row.to = t /\ row.trust = trust /\ (trust = "VERIFIED" => row.verified = raw)
      /\ key[1] = s.provider /\ key[2] = id
  OBVIOUS
<1> HIDE DEF key, row, new
<1>3. TrueTeamIds(Put(m, key, row), c)
  BY <1>2 DEF TrueTeamIds, Put
<1>4. QED BY <1>1, <1>3 DEF new

(* A row in quarantine says nothing.                                       *)
LEMMA TrueWhenMarked ==
  ASSUME NEW c, NEW m, Rows(m), NEW key \in DOMAIN m
  PROVE  /\ TrueLeagueIds(m, c) => TrueLeagueIds(MarkSuspect(m, key), c)
         /\ TrueTeamIds(m, c) => TrueTeamIds(MarkSuspect(m, key), c)
<1> DEFINE n == MarkSuspect(m, key)
<1>1. "trust" \in DOMAIN m[key]
  BY DEF Rows
<1>2. DOMAIN n = DOMAIN m /\ n[key].trust = "SUSPECT" /\ \A x \in DOMAIN m \ {key} : n[x] = m[x]
  BY <1>1 DEF MarkSuspect
<1> HIDE DEF n
<1>3. TrueLeagueIds(m, c) => TrueLeagueIds(n, c)
  BY <1>2 DEF TrueLeagueIds
<1>4. TrueTeamIds(m, c) => TrueTeamIds(n, c)
  BY <1>2 DEF TrueTeamIds
<1>5. QED BY <1>3, <1>4 DEF n

-----------------------------------------------------------------------------
(* Leagues.  A name and a country, or a name and a provider's id, stand    *)
(* for one league.                                                         *)

LEMMA OneLeague ==
  ASSUME LeaguesAreCurated(Sighting), NEW c, NEW k, NEW s \in Sighting, NEW t \in Sighting,
         InLeague(c, k, s), InLeague(c, k, t)
  PROVE  League[s.fixture] = League[t.fixture] /\ Namesakes(s, t)
<1>1. PICK y \in Sighting : Bears(c, k, y) /\ League[y.fixture] = League[s.fixture]
  BY DEF InLeague
<1>2. PICK z \in Sighting : Bears(c, k, z) /\ League[z.fixture] = League[t.fixture]
  BY DEF InLeague
<1>3. Namesakes(y, z) /\ y.country = z.country /\ Namesakes(s, t)
  BY <1>1, <1>2 DEF Bears, Namesakes, InLeague
<1>4. League[y.fixture] = League[z.fixture]
  BY <1>3 DEF LeaguesAreCurated
<1>5. QED BY <1>1, <1>2, <1>3, <1>4

(* What is one league with a sighting of the competition is of it too.     *)
LEMMA LeagueToo ==
  ASSUME NEW c, NEW k, NEW s \in Sighting, NEW t \in Sighting, InLeague(c, k, s),
         League[s.fixture] = League[t.fixture], Namesakes(s, t)
  PROVE  InLeague(c, k, t)
BY DEF InLeague, Namesakes

(* A competition of its name, and of its country as far as that is known.  *)
LEMMA LeagueByName ==
  ASSUME LeaguesAreCurated(Sighting), NEW c, Borne(c), NEW k \in DOMAIN c.competitions,
         NEW s \in Sighting, Called[c.competitions[k].name] = Called[s.league],
         s.country = None \/ c.competitions[k].country \in {None, s.country}
  PROVE  InLeague(c, k, s)
<1>1. PICK z \in Sighting : Bears(c, k, z)
  BY DEF Borne
<1>2. Namesakes(s, z) /\ (s.country = z.country \/ None \in {s.country, z.country})
  BY <1>1 DEF Bears, Namesakes
<1>3. League[z.fixture] = League[s.fixture]
  BY <1>2 DEF LeaguesAreCurated
<1>4. QED BY <1>1, <1>3 DEF InLeague

LEMMA CompetitionCreated ==
  ASSUME NEW c, Sane(c), Truthful(c), NEW s \in Sighting, NEW name \in Name,
         Called[name] = Called[s.league]
  PROVE  LET d == CreateCompetition(c, s.provider, name, s.country, s.leagueId) IN
         Follows(c, d) /\ InLeague(d, NextId(c.competitions), s)
<1> DEFINE k == NextId(c.competitions)
           row == [name |-> name, country |-> s.country,
                   ref |-> RefOfNew(c.competitions, s.provider, s.leagueId)]
           d == CreateCompetition(c, s.provider, name, s.country, s.leagueId)
<1>1. Reaches(c, d)
  BY CreateCompetitionReaches, SightingTyped
<1>2. Table(c.competitions, Competition) /\ DOMAIN c = Fields
  BY DEF Sane, Entities
<1>3. row \in Competition
  BY RefOfNewIsUnused, SightingTyped DEF Competition
<1>4. k \notin DOMAIN c.competitions
  BY <1>2, <1>3, NextIdIsNew
<1>5. /\ SameMappings(c, d) /\ d.teams = c.teams /\ d.events = c.events
      /\ d.competitions = Put(c.competitions, k, row)
  BY <1>2, OtherTables DEF CreateCompetition, Fields
<1>6. row.name = name /\ row.country = s.country
  OBVIOUS
<1> HIDE DEF k, row, d
<1>7. /\ DOMAIN d.competitions = DOMAIN c.competitions \cup {k} /\ d.competitions[k] = row
      /\ \A x \in DOMAIN c.competitions : d.competitions[x] = c.competitions[x]
  BY <1>4, <1>5 DEF Put
<1>8. Keeps(c, d)
  BY <1>5, <1>7 DEF Keeps, InLeague, Bears, Is
<1>9. Bears(d, k, s)
  BY <1>6, <1>7 DEF Bears
<1>10. Borne(d)
  BY <1>7, <1>9 DEF Truthful, Borne, Bears
<1>11. InLeague(d, k, s)
  BY <1>6, <1>7, <1>9 DEF InLeague
<1>12. Follows(c, d)
  BY <1>1, <1>5, <1>8, <1>10, EntitiesFollow
<1>13. QED BY <1>11, <1>12 DEF d, k

(* The promotion may move a competition to the country of the sighting: it *)
(* is then the sighting that bears its name and country.                   *)
LEMMA CompetitionPromoted ==
  ASSUME LeaguesAreCurated(Sighting), NEW c, Sane(c), Truthful(c), NEW s \in Sighting,
         NEW k, InLeague(c, k, s)
  PROVE  Follows(c, PromoteCompetition(c, s.provider, k, s.leagueId, s.country))
<1> DEFINE row == c.competitions[k]
           place == IF s.country # None THEN s.country ELSE row.country
           new == [name |-> row.name, country |-> place, ref |-> s.leagueId]
           d == PromoteCompetition(c, s.provider, k, s.leagueId, s.country)
<1>1. k \in DOMAIN c.competitions /\ DOMAIN c = Fields
  BY DEF InLeague, Sane
<1>2. Reaches(c, d)
  BY <1>1, PromoteCompetitionReaches, SightingTyped
<1>3. CASE d = c
  BY <1>3, FollowsSelf
<1>4. CASE d # c
  <2>1. d = [c EXCEPT !.ok = @ /\ ~ NameTaken(c, row.name, place, k), !.competitions[k] = new]
    BY <1>4 DEF PromoteCompetition
  <2>2. /\ SameMappings(c, d) /\ d.teams = c.teams /\ d.events = c.events
        /\ d.competitions = [c.competitions EXCEPT ![k] = new]
    BY <1>1, <2>1, OtherTables DEF Fields
  <2>3. new.name = row.name /\ new.country = place
    OBVIOUS
  <2> HIDE DEF new, d
  <2>4. /\ DOMAIN d.competitions = DOMAIN c.competitions /\ d.competitions[k] = new
        /\ \A x \in DOMAIN c.competitions \ {k} : d.competitions[x] = c.competitions[x]
    BY <1>1, <2>2
  <2>5. PICK z \in Sighting : Bears(d, k, z) /\ League[z.fixture] = League[s.fixture]
    <3>1. CASE s.country # None
      BY <2>3, <2>4, <3>1 DEF Bears, InLeague
    <3>2. CASE s.country = None
      BY <2>3, <2>4, <3>2 DEF Bears, InLeague
    <3>3. QED BY <3>1, <3>2
  <2>6. ASSUME NEW t \in Sighting, InLeague(c, k, t) PROVE InLeague(d, k, t)
    <3>1. League[t.fixture] = League[s.fixture]
      BY <2>6, OneLeague
    <3>2. Called[t.league] = Called[row.name]
      BY <2>6 DEF InLeague
    <3>3. QED BY <1>1, <2>3, <2>4, <2>5, <3>1, <3>2 DEF InLeague
  <2> HIDE DEF row, place
  <2>7. ASSUME NEW x, x # k, NEW t \in Sighting, InLeague(c, x, t) PROVE InLeague(d, x, t)
    BY <2>4, <2>7 DEF InLeague, Bears
  <2>8. Keeps(c, d)
    BY <2>2, <2>6, <2>7 DEF Keeps, Is
  <2>9. Borne(d)
    BY <2>4, <2>5 DEF Truthful, Borne, Bears
  <2>10. Follows(c, d)
    BY <1>2, <2>2, <2>8, <2>9, EntitiesFollow DEF d
  <2>11. QED BY <2>10 DEF d
<1>5. QED BY <1>3, <1>4

-----------------------------------------------------------------------------
(* Teams.                                                                  *)

LEMMA TeamsFollow ==
  ASSUME NEW c, NEW d, Truthful(c), Reaches(c, d), SameMappings(c, d),
         d.competitions = c.competitions, d.events = c.events,
         \A t \in DOMAIN c.teams : t \in DOMAIN d.teams /\ d.teams[t].name = c.teams[t].name
  PROVE  Follows(c, d)
<1>1. Keeps(c, d)
  BY DEF Keeps, InLeague, Bears, Is
<1>2. Borne(d)
  BY DEF Truthful, Borne, Bears
<1>3. QED BY <1>1, <1>2, EntitiesFollow

LEMMA TeamCreated ==
  ASSUME NEW c, Sane(c), Truthful(c), NEW p, NEW name \in Name, NEW id \in Ref, NEW raw,
         Called[name] = Called[raw]
  PROVE  LET d == CreateTeam(c, p, name, id) IN
         Follows(c, d) /\ Is(d, NextId(c.teams), raw)
<1> DEFINE k == NextId(c.teams)
           row == [name |-> name, ref |-> RefOfNew(c.teams, p, id)]
           d == CreateTeam(c, p, name, id)
<1>1. Reaches(c, d)
  BY CreateTeamReaches
<1>2. Table(c.teams, Team) /\ DOMAIN c = Fields
  BY DEF Sane, Entities
<1>3. row \in Team
  BY RefOfNewIsUnused DEF Team
<1>4. k \notin DOMAIN c.teams
  BY <1>2, <1>3, NextIdIsNew
<1>5. /\ SameMappings(c, d) /\ d.competitions = c.competitions /\ d.events = c.events
      /\ d.teams = Put(c.teams, k, row)
  BY <1>2, OtherTables DEF CreateTeam, Fields
<1>6. row.name = name
  OBVIOUS
<1> HIDE DEF k, row, d
<1>7. /\ DOMAIN d.teams = DOMAIN c.teams \cup {k} /\ d.teams[k] = row
      /\ \A x \in DOMAIN c.teams : d.teams[x] = c.teams[x]
  BY <1>4, <1>5 DEF Put
<1>8. Follows(c, d)
  BY <1>1, <1>5, <1>7, TeamsFollow
<1>9. Is(d, k, raw)
  BY <1>6, <1>7 DEF Is
<1>10. QED BY <1>8, <1>9 DEF d, k

LEMMA TeamPromoted ==
  ASSUME NEW c, Sane(c), Truthful(c), NEW p, NEW t \in DOMAIN c.teams, NEW id \in Ref
  PROVE  Follows(c, PromoteTeam(c, p, t, id))
<1> DEFINE new == [c.teams[t] EXCEPT !.ref = id]
           d == PromoteTeam(c, p, t, id)
<1>1. Reaches(c, d)
  BY PromoteTeamReaches
<1>2. DOMAIN c = Fields /\ c.teams[t] \in Team
  BY TableRow DEF Sane, Entities
<1>3. CASE d = c
  BY <1>3, FollowsSelf
<1>4. CASE d # c
  <2>1. d = [c EXCEPT !.teams[t].ref = id]
    BY <1>4 DEF PromoteTeam
  <2>2. /\ SameMappings(c, d) /\ d.competitions = c.competitions /\ d.events = c.events
        /\ d.teams = [c.teams EXCEPT ![t] = new]
    BY <1>2, <2>1, OtherTables DEF Fields
  <2>3. new.name = c.teams[t].name
    BY <1>2 DEF Team
  <2> HIDE DEF new, d
  <2>4. \A x \in DOMAIN c.teams : x \in DOMAIN d.teams /\ d.teams[x].name = c.teams[x].name
    BY <2>2, <2>3
  <2>5. Follows(c, d)
    BY <1>1, <2>2, <2>4, TeamsFollow DEF d
  <2>6. QED BY <2>5 DEF d
<1>5. QED BY <1>3, <1>4

(* A name that is found for another is the same club's or league's.        *)
LEMMA NormalizeSame ==
  ASSUME NamesAreCurated, NEW raw \in Name, NEW pool
  PROVE  Called[Normalize(raw, pool).name] = Called[raw]
BY DEF Normalize, NamesAreCurated

-----------------------------------------------------------------------------
(* Competitions are resolved truthfully: whatever the trust, the one that  *)
(* is returned is the league of the sighting.                              *)

LEMMA LeagueLearned ==
  ASSUME NEW c, Sane(c), Truthful(c), NEW s \in Sighting, NEW k, InLeague(c, k, s),
         NEW trust \in Trust
  PROVE  /\ Follows(c, [c EXCEPT
              !.leagueIds = SaveIdIfAny(@, s.provider, s.leagueId, k, s.league, trust)])
         /\ Follows(c, [c EXCEPT
              !.leagueNames = SaveName(@, <<s.provider, s.league, s.country>>, k, trust),
              !.leagueIds = SaveIdIfAny(@, s.provider, s.leagueId, k, s.league, trust)])
<1> DEFINE names == SaveName(c.leagueNames, <<s.provider, s.league, s.country>>, k, trust)
           ids == SaveIdIfAny(c.leagueIds, s.provider, s.leagueId, k, s.league, trust)
           d1 == [c EXCEPT !.leagueIds =
                    SaveIdIfAny(@, s.provider, s.leagueId, k, s.league, trust)]
           d2 == [c EXCEPT
                    !.leagueNames = SaveName(@, <<s.provider, s.league, s.country>>, k, trust),
                    !.leagueIds = SaveIdIfAny(@, s.provider, s.leagueId, k, s.league, trust)]
<1>1. DOMAIN c = Fields /\ k \in DOMAIN c.competitions
  BY DEF Sane, InLeague
<1>2. Reaches(c, d1) /\ Reaches(c, d2)
  BY <1>1, LeagueSaved
<1>3. /\ d1.competitions = c.competitions /\ d1.teams = c.teams /\ d1.events = c.events
      /\ d1.teamNames = c.teamNames /\ d1.teamIds = c.teamIds /\ d1.eventIds = c.eventIds
      /\ d1.leagueNames = c.leagueNames /\ d1.leagueIds = ids
  BY <1>1 DEF Fields, Mappings
<1>4. /\ d2.competitions = c.competitions /\ d2.teams = c.teams /\ d2.events = c.events
      /\ d2.teamNames = c.teamNames /\ d2.teamIds = c.teamIds /\ d2.eventIds = c.eventIds
      /\ d2.leagueNames = names /\ d2.leagueIds = ids
  BY <1>1 DEF Fields, Mappings
<1> HIDE DEF d1, d2
<1>5. TrueLeagueNames(names, c) /\ TrueLeagueIds(ids, c)
  BY TrueLeagueNameSaved, TrueLeagueIdSaved DEF Truthful
<1> HIDE DEF names, ids
<1>6. Follows(c, d1)
  BY <1>2, <1>3, <1>5, MappingsFollow DEF Truthful
<1>7. Follows(c, d2)
  BY <1>2, <1>4, <1>5, MappingsFollow DEF Truthful
<1>8. QED BY <1>6, <1>7 DEF d1, d2

LEMMA CompetitionAdopted ==
  ASSUME LeaguesAreCurated(Sighting), NEW c, Sane(c), Truthful(c), NEW s \in Sighting,
         NEW k, InLeague(c, k, s), NEW trust \in Trust
  PROVE  LET r == AdoptCompetition(c, s, k, trust) IN
         Follows(c, r.cat) /\ InLeague(r.cat, r.id, s)
<1> DEFINE c1 == IF trust = "VERIFIED"
                 THEN PromoteCompetition(c, s.provider, k, s.leagueId, s.country) ELSE c
           d == [c1 EXCEPT
             !.leagueNames = SaveName(@, <<s.provider, s.league, s.country>>, k, trust),
             !.leagueIds   = SaveIdIfAny(@, s.provider, s.leagueId, k, s.league, trust)]
           r == AdoptCompetition(c, s, k, trust)
<1>1. r.id = k /\ r.cat = d
  BY DEF AdoptCompetition
<1>2. Follows(c, c1)
  BY FollowsSelf, CompetitionPromoted
<1> HIDE DEF c1, r
<1>3. Sane(c1) /\ Truthful(c1) /\ InLeague(c1, k, s)
  BY <1>2, FollowsSane DEF Follows, Keeps
<1>4. Follows(c1, d)
  BY <1>3, LeagueLearned
<1> HIDE DEF d
<1>5. Follows(c, d) /\ InLeague(d, k, s)
  BY <1>2, <1>3, <1>4, FollowsOn DEF Follows, Keeps
<1>6. QED BY <1>1, <1>5 DEF r

LEMMA CompetitionLearned ==
  ASSUME NamesAreCurated, LeaguesAreCurated(Sighting),
         NEW c, Sane(c), Truthful(c), NEW s \in Sighting, NEW suspect
  PROVE  LET r == LearnCompetition(c, s, suspect) IN
         Follows(c, r.cat) /\ InLeague(r.cat, r.id, s)
<1> DEFINE pool   == CompetitionsIn(c, s.country)
           result == Normalize(s.league, {c.competitions[k].name : k \in pool})
           same   == {k \in pool : c.competitions[k].name = result.name}
           one    == CHOOSE k \in same : TRUE
           trust  == IF suspect THEN "SUSPECT" ELSE TrustFor(result.method)
           d == CreateCompetition(c, s.provider, result.name, s.country, s.leagueId)
           new == NextId(c.competitions)
           r == LearnCompetition(c, s, suspect)
<1>1. /\ result.name \in Name /\ trust \in Trust
      /\ Called[result.name] = Called[s.league]
  BY NormalizeTyped, NormalizeSame, SightingTyped DEF Trust
<1>2. \A k \in same :
        /\ k \in DOMAIN c.competitions /\ c.competitions[k].name = result.name
        /\ s.country = None \/ c.competitions[k].country \in {None, s.country}
  BY DEF CompetitionsIn
<1>3. \/ r = AdoptCompetition(c, s, one, trust) /\ Cardinality(same) = 1
      \/ r = AdoptCompetition(d, s, new, trust)
  BY DEF LearnCompetition
<1> HIDE DEF result, trust, pool, r
<1>4. CASE r = AdoptCompetition(c, s, one, trust) /\ Cardinality(same) = 1
  <2>1. same # {}
    BY <1>4, FS_EmptySet
  <2> HIDE DEF same
  <2>2. one \in same
    BY <2>1
  <2> HIDE DEF one
  <2>3. InLeague(c, one, s)
    BY <1>1, <1>2, <2>2, LeagueByName DEF Truthful
  <2>4. QED BY <1>1, <1>4, <2>3, CompetitionAdopted DEF r
<1>5. CASE r = AdoptCompetition(d, s, new, trust)
  <2>1. Follows(c, d) /\ InLeague(d, new, s)
    BY <1>1, CompetitionCreated
  <2> HIDE DEF d, new
  <2>2. Sane(d) /\ Truthful(d)
    BY <2>1, FollowsSane
  <2>3. Follows(d, r.cat) /\ InLeague(r.cat, r.id, s)
    BY <1>1, <1>5, <2>1, <2>2, CompetitionAdopted
  <2>4. QED BY <2>1, <2>3, FollowsOn DEF r
<1>6. QED BY <1>3, <1>4, <1>5

(* What an id or a name of the provider leads to is the right league.      *)
LEMMA LeagueKnown ==
  ASSUME NamesAreCurated, LeaguesAreCurated(Sighting),
         NEW c, Truthful(c), NEW s \in Sighting,
         IdSays(c.leagueIds, s.provider, s.leagueId, s.league) = "known"
  PROVE  InLeague(c, c.leagueIds[<<s.provider, s.leagueId>>].to, s)
<1> DEFINE key == <<s.provider, s.leagueId>>
           row == c.leagueIds[key]
<1>1. /\ s.leagueId # None /\ key \in DOMAIN c.leagueIds /\ row.trust = "VERIFIED"
      /\ Similar(IF row.verified # None THEN row.verified ELSE row.first, s.league)
  BY DEF IdSays
<1>2. PICK u \in Sighting : /\ u.provider = s.provider /\ u.leagueId = s.leagueId
                            /\ u.league = row.verified /\ InLeague(c, row.to, u)
  BY <1>1 DEF Truthful, TrueLeagueIds
<1>3. u.league \in Name /\ s.league \in Name /\ None \notin Name
  BY SightingTyped, CatalogAssumption
<1>4. Similar(u.league, s.league)
  BY <1>1, <1>2, <1>3
<1>5. Namesakes(u, s)
  BY <1>3, <1>4 DEF NamesAreCurated, Namesakes
<1>6. League[u.fixture] = League[s.fixture]
  BY <1>1, <1>2, <1>5 DEF LeaguesAreCurated, Same
<1>7. QED BY <1>2, <1>5, <1>6, LeagueToo

LEMMA LeagueMapped ==
  ASSUME LeaguesAreCurated(Sighting), NEW c, Truthful(c), NEW s \in Sighting,
         NEW k \in MappedLeague(c, s.provider, s.league, s.country)
  PROVE  InLeague(c, k, s)
<1> DEFINE own == <<s.provider, s.league, s.country>>
<1>1. TrueLeagueNames(c.leagueNames, c)
  BY DEF Truthful
<1>2. own \in DOMAIN c.leagueNames /\ c.leagueNames[own].trust = "VERIFIED"
      /\ k = c.leagueNames[own].to
  BY <1>1 DEF MappedLeague, TrueLeagueNames
<1>3. PICK u \in Sighting : u.league = s.league /\ u.country = s.country /\ InLeague(c, k, u)
  BY <1>1, <1>2 DEF TrueLeagueNames
<1>4. Namesakes(u, s) /\ League[u.fixture] = League[s.fixture]
  BY <1>3 DEF Namesakes, LeaguesAreCurated
<1>5. QED BY <1>3, <1>4, LeagueToo

LEMMA CompetitionResolved ==
  ASSUME NamesAreCurated, LeaguesAreCurated(Sighting),
         NEW c, Sane(c), Truthful(c), NEW s \in Sighting
  PROVE  LET r == ResolveCompetition(c, s) IN
         Follows(c, r.cat) /\ InLeague(r.cat, r.id, s)
<1> DEFINE key     == <<s.provider, s.leagueId>>
           says    == IdSays(c.leagueIds, s.provider, s.leagueId, s.league)
           suspect == says \in {"drifted", "quarantined"}
           c1      == IF says = "drifted"
                      THEN [c EXCEPT !.leagueIds = MarkSuspect(@, key)] ELSE c
           mapped  == {k \in MappedLeague(c, s.provider, s.league, s.country) :
                         ~ OtherReference(c.competitions[k], s.provider, s.leagueId)}
           one     == CHOOSE k \in mapped : TRUE
           trust   == IF suspect THEN "SUSPECT" ELSE "VERIFIED"
           Known(k, t, d) ==
             [id |-> k, trust |-> t,
              cat |-> [d EXCEPT !.leagueIds =
                         SaveIdIfAny(@, s.provider, s.leagueId, k, s.league, t)]]
           Right(q) == Follows(c, q.cat) /\ InLeague(q.cat, q.id, s)
           r == ResolveCompetition(c, s)
<1>1. /\ says = "known" => r = Known(c.leagueIds[key].to, "VERIFIED", c)
      /\ says # "known" /\ mapped # {} => r = Known(one, trust, c1)
      /\ says # "known" /\ mapped = {} => r = LearnCompetition(c1, s, suspect)
  BY DEF ResolveCompetition
<1>2. Mapped(c) /\ DOMAIN c = Fields /\ Entities(c)
  BY DEF Sane
<1>3. Follows(c, c1)
  <2>1. CASE says = "drifted"
    <3> DEFINE ids == MarkSuspect(c.leagueIds, key)
    <3>1. c1 = [c EXCEPT !.leagueIds = MarkSuspect(@, key)]
      BY <2>1
    <3>2. Leads(ids, DOMAIN c.competitions) /\ Rows(c.leagueIds) /\ key \in DOMAIN c.leagueIds
      <4>1. Leads(c.leagueIds, DOMAIN c.competitions)
        BY <1>2 DEF Mapped
      <4>2. key \in DOMAIN c.leagueIds
        BY <2>1, <4>1, IdKnown
      <4>3. QED BY <4>1, <4>2, MarkTyped DEF Leads
    <3>3. TrueLeagueIds(ids, c)
      BY <3>2, TrueWhenMarked DEF Truthful
    <3>4. /\ DOMAIN c1 = Fields /\ c1.ok = c.ok /\ c1.competitions = c.competitions
          /\ c1.teams = c.teams /\ c1.events = c.events /\ c1.plays = c.plays
          /\ c1.teamNames = c.teamNames /\ c1.teamIds = c.teamIds
          /\ c1.eventIds = c.eventIds /\ c1.leagueNames = c.leagueNames
          /\ c1.leagueIds = ids
      BY <1>2, <3>1 DEF Fields, Mappings
    <3> HIDE DEF ids, c1
    <3>5. Mapped(c1)
      BY <1>2, <3>2, <3>4 DEF Mapped
    <3>6. Reaches(c, c1)
      BY <1>2, <3>4, <3>5, MappingsReach DEF Entities
    <3>7. QED BY <3>3, <3>4, <3>6, MappingsFollow DEF Truthful
  <2>2. CASE says # "drifted"
    BY <2>2, FollowsSelf
  <2>3. QED BY <2>1, <2>2
<1>4. says = "known" => InLeague(c, c.leagueIds[key].to, s)
  BY LeagueKnown
<1>5. mapped # {} => InLeague(c, one, s)
  BY LeagueMapped
<1>6. trust \in Trust /\ "VERIFIED" \in Trust
  BY DEF Trust
<1>7. ASSUME NEW d, Follows(c, d), NEW k, InLeague(c, k, s), NEW t \in Trust
      PROVE  Right(Known(k, t, d))
  <2> DEFINE e == [d EXCEPT !.leagueIds =
                     SaveIdIfAny(@, s.provider, s.leagueId, k, s.league, t)]
  <2>1. Sane(d) /\ Truthful(d) /\ InLeague(d, k, s)
    BY <1>7, FollowsSane DEF Follows, Keeps
  <2>2. Follows(d, e)
    BY <2>1, LeagueLearned
  <2>3. Known(k, t, d).id = k /\ Known(k, t, d).cat = e
    OBVIOUS
  <2> HIDE DEF e, Known
  <2>4. Follows(c, e) /\ InLeague(e, k, s)
    BY <1>7, <2>1, <2>2, FollowsOn DEF Follows, Keeps
  <2>5. QED BY <2>3, <2>4
<1>8. Sane(c1) /\ Truthful(c1)
  BY <1>3, FollowsSane
<1>9. Right(LearnCompetition(c1, s, suspect))
  <2> HIDE DEF c1, suspect
  <2>1. LET q == LearnCompetition(c1, s, suspect) IN
        Follows(c1, q.cat) /\ InLeague(q.cat, q.id, s)
    BY <1>8, CompetitionLearned
  <2>2. QED BY <1>3, <2>1, FollowsOn
<1> HIDE DEF key, says, suspect, c1, mapped, one, trust, Known, r, Right
<1>10. Right(r)
  BY <1>1, <1>3, <1>4, <1>5, <1>6, <1>7, <1>9, FollowsSelf
<1>11. QED BY <1>10 DEF Right, r

-----------------------------------------------------------------------------
(* Teams are resolved truthfully: the one that is returned has the name of *)
(* the side.  Which of two clubs of that name it is does not matter here:  *)
(* an event is a pair of names in a league.                                *)

LEMMA SideTyped ==
  ASSUME NEW s \in Sighting, NEW id, NEW raw, <<id, raw>> \in Sides(s)
  PROVE  id \in Ref /\ raw \in Name
BY SightingTyped DEF Sides

LEMMA TeamLearned ==
  ASSUME NEW c, Sane(c), Truthful(c), NEW s \in Sighting, NEW id, NEW raw,
         <<id, raw>> \in Sides(s), NEW t, Is(c, t, raw), NEW trust \in Trust, NEW k
  PROVE  LET p == s.provider  key == <<p, raw, k>> IN
         /\ Follows(c, [c EXCEPT !.teamIds = SaveIdIfAny(@, p, id, t, raw, trust)])
         /\ Follows(c, [c EXCEPT !.teamNames = SaveName(@, key, t, trust)])
         /\ Follows(c, [c EXCEPT !.teamNames = SaveName(@, key, t, trust),
                                 !.teamIds = SaveIdIfAny(@, p, id, t, raw, trust)])
<1> DEFINE p == s.provider
           key == <<p, raw, k>>
           names == SaveName(c.teamNames, key, t, trust)
           ids == SaveIdIfAny(c.teamIds, p, id, t, raw, trust)
           d1 == [c EXCEPT !.teamIds = SaveIdIfAny(@, p, id, t, raw, trust)]
           d2 == [c EXCEPT !.teamNames = SaveName(@, key, t, trust)]
           d3 == [c EXCEPT !.teamNames = SaveName(@, key, t, trust),
                           !.teamIds = SaveIdIfAny(@, p, id, t, raw, trust)]
           Others(d) ==
             /\ d.competitions = c.competitions /\ d.teams = c.teams /\ d.events = c.events
             /\ d.leagueNames = c.leagueNames /\ d.leagueIds = c.leagueIds
             /\ d.eventIds = c.eventIds
<1>1. DOMAIN c = Fields /\ t \in DOMAIN c.teams
  BY DEF Sane, Is
<1>2. Reaches(c, d1) /\ Reaches(c, d2) /\ Reaches(c, d3)
  BY <1>1, TeamSaved
<1>3. Others(d1) /\ d1.teamNames = c.teamNames /\ d1.teamIds = ids
  BY <1>1 DEF Fields, Mappings
<1>4. Others(d2) /\ d2.teamNames = names /\ d2.teamIds = c.teamIds
  BY <1>1 DEF Fields, Mappings
<1>5. Others(d3) /\ d3.teamNames = names /\ d3.teamIds = ids
  BY <1>1 DEF Fields, Mappings
<1>6. TrueTeamNames(names, c) /\ TrueTeamIds(ids, c)
  BY TrueTeamNameSaved, TrueTeamIdSaved DEF Truthful
<1> HIDE DEF names, ids, d1, d2, d3
<1>7. Follows(c, d1) /\ Follows(c, d2) /\ Follows(c, d3)
  BY <1>2, <1>3, <1>4, <1>5, <1>6, MappingsFollow DEF Truthful
<1>8. QED BY <1>7 DEF d1, d2, d3

LEMMA PlaysFollow ==
  ASSUME NEW c, Sane(c), Truthful(c), NEW t \in DOMAIN c.teams, NEW k \in DOMAIN c.competitions
  PROVE  Follows(c, [c EXCEPT !.plays = @ \cup {<<t, k>>}])
<1> DEFINE d == [c EXCEPT !.plays = @ \cup {<<t, k>>}]
<1>1. Reaches(c, d)
  BY PlaysReach
<1>2. /\ d.competitions = c.competitions /\ d.teams = c.teams /\ d.events = c.events
      /\ d.teamNames = c.teamNames /\ d.teamIds = c.teamIds /\ d.eventIds = c.eventIds
      /\ d.leagueNames = c.leagueNames /\ d.leagueIds = c.leagueIds
  BY DEF Sane, Fields, Mappings
<1> HIDE DEF d
<1>3. Follows(c, d)
  BY <1>1, <1>2, MappingsFollow DEF Truthful
<1>4. QED BY <1>3 DEF d

LEMMA TeamAdopted ==
  ASSUME NEW c, Sane(c), Truthful(c), NEW s \in Sighting, NEW id, NEW raw,
         <<id, raw>> \in Sides(s), NEW t, Is(c, t, raw), NEW trust \in Trust, NEW k
  PROVE  LET r == AdoptTeam(c, s.provider, raw, k, id, t, trust) IN
         Follows(c, r.cat) /\ Is(r.cat, r.id, raw)
<1> DEFINE p == s.provider
           c1 == IF trust = "VERIFIED" THEN PromoteTeam(c, p, t, id) ELSE c
           d == [c1 EXCEPT !.teamNames = SaveName(@, <<p, raw, k>>, t, trust),
                           !.teamIds = SaveIdIfAny(@, p, id, t, raw, trust)]
           r == AdoptTeam(c, p, raw, k, id, t, trust)
<1>1. r.id = t /\ r.cat = d
  BY DEF AdoptTeam
<1>2. Follows(c, c1)
  BY FollowsSelf, TeamPromoted, SideTyped DEF Is
<1> HIDE DEF c1, r
<1>3. Sane(c1) /\ Truthful(c1) /\ Is(c1, t, raw)
  BY <1>2, FollowsSane DEF Follows, Keeps
<1>4. Follows(c1, d)
  BY <1>3, TeamLearned
<1> HIDE DEF d
<1>5. Follows(c, d) /\ Is(d, t, raw)
  BY <1>2, <1>3, <1>4, FollowsOn DEF Follows, Keeps
<1>6. QED BY <1>1, <1>5 DEF r

LEMMA TeamFound ==
  ASSUME NamesAreCurated, NEW c, Sane(c), Truthful(c), NEW s \in Sighting, NEW id, NEW raw,
         <<id, raw>> \in Sides(s), NEW k, NEW suspect, NEW last
  PROVE  LET r == LearnTeam(c, s.provider, raw, k, id, suspect, last) IN
         Follows(c, r.cat) /\ Is(r.cat, r.id, raw)
<1> DEFINE p == s.provider
           squad  == {x[1] : x \in {y \in c.plays : y[2] = k}}
           result == Normalize(raw, {c.teams[t].name : t \in squad})
           same   == {t \in squad : c.teams[t].name = result.name}
           kept   == IF last THEN Max(same) ELSE Min(same)
           trust  == IF suspect THEN "SUSPECT" ELSE TrustFor(result.method)
           d == CreateTeam(c, p, result.name, id)
           new == NextId(c.teams)
           r == LearnTeam(c, p, raw, k, id, suspect, last)
<1>1. /\ result.name \in Name /\ trust \in Trust /\ id \in Ref
      /\ Called[result.name] = Called[raw]
  BY NormalizeTyped, NormalizeSame, SideTyped DEF Trust
<1>2. Entities(c)
  BY DEF Sane
<1>3. \A t \in same : t \in DOMAIN c.teams /\ c.teams[t].name = result.name
  BY <1>2 DEF Entities
<1>4. \/ r = AdoptTeam(c, p, raw, k, id, kept, trust) /\ same # {}
      \/ r = AdoptTeam(d, p, raw, k, id, new, trust)
  BY DEF LearnTeam
<1> HIDE DEF result, trust, squad, r, same
<1>5. CASE r = AdoptTeam(c, p, raw, k, id, kept, trust) /\ same # {}
  <2>1. PICK n \in Nat : DOMAIN c.teams = 1 .. n
    BY <1>2 DEF Entities, Table
  <2>2. Max(same) \in same /\ Min(same) \in same
    BY <1>3, <1>5, <2>1, MaxIn
  <2>3. kept \in same
    BY <2>2
  <2> HIDE DEF kept
  <2>4. Is(c, kept, raw)
    BY <1>1, <1>3, <2>3 DEF Is
  <2>5. QED BY <1>1, <1>5, <2>4, TeamAdopted DEF r
<1>6. CASE r = AdoptTeam(d, p, raw, k, id, new, trust)
  <2>1. Follows(c, d) /\ Is(d, new, raw)
    BY <1>1, TeamCreated
  <2> HIDE DEF d, new
  <2>2. Sane(d) /\ Truthful(d)
    BY <2>1, FollowsSane
  <2>3. Follows(d, r.cat) /\ Is(r.cat, r.id, raw)
    BY <1>1, <1>6, <2>1, <2>2, TeamAdopted
  <2>4. QED BY <2>1, <2>3, FollowsOn DEF r
<1>7. QED BY <1>4, <1>5, <1>6

(* What an id or a name of the provider leads to has the name.             *)
LEMMA TeamKnown ==
  ASSUME NamesAreCurated, NEW c, Truthful(c), NEW p, NEW id, NEW raw \in Name,
         IdSays(c.teamIds, p, id, raw) = "known"
  PROVE  Is(c, c.teamIds[<<p, id>>].to, raw)
<1> DEFINE key == <<p, id>>
           row == c.teamIds[key]
<1>1. /\ key \in DOMAIN c.teamIds /\ row.trust = "VERIFIED"
      /\ Similar(IF row.verified # None THEN row.verified ELSE row.first, raw)
  BY DEF IdSays
<1>2. Is(c, row.to, row.verified)
  BY <1>1 DEF Truthful, TrueTeamIds
<1>3. PICK u \in Sighting : u.provider = p /\ <<id, row.verified>> \in Sides(u)
  BY <1>1 DEF Truthful, TrueTeamIds
<1>4. row.verified \in Name /\ None \notin Name
  BY <1>3, SideTyped, CatalogAssumption
<1>5. Similar(row.verified, raw)
  BY <1>1, <1>4
<1>6. Called[row.verified] = Called[raw]
  BY <1>4, <1>5 DEF NamesAreCurated
<1>7. QED BY <1>2, <1>6 DEF Is

LEMMA TeamMapped ==
  ASSUME NamesAreCurated, NEW c, Truthful(c), NEW p, NEW raw \in Name, NEW k
  PROVE  /\ \A t \in MappedTeam(c, p, raw, k) : Is(c, t, raw)
         /\ \A t \in NamesakeOf(c, raw).teams : Is(c, t, raw)
<1>1. \A t \in MappedTeam(c, p, raw, k) : Is(c, t, raw)
  BY DEF MappedTeam, Truthful, TrueTeamNames
<1>2. ASSUME NEW t \in NamesakeOf(c, raw).teams PROVE Is(c, t, raw)
  <2> DEFINE result == Normalize(raw, {c.teams[x].name : x \in DOMAIN c.teams})
  <2>1. t \in DOMAIN c.teams /\ c.teams[t].name = result.name
    BY <1>2 DEF NamesakeOf
  <2>2. Called[result.name] = Called[raw]
    BY NormalizeSame
  <2>3. QED BY <2>1, <2>2 DEF Is
<1>3. QED BY <1>1, <1>2

LEMMA TeamMarked ==
  ASSUME NEW c, Sane(c), Truthful(c), NEW p, NEW id, NEW raw
  PROVE  LET says == IdSays(c.teamIds, p, id, raw)
             d == IF says = "drifted"
                  THEN [c EXCEPT !.teamIds = MarkSuspect(@, <<p, id>>)] ELSE c
         IN Follows(c, d)
<1> DEFINE says == IdSays(c.teamIds, p, id, raw)
           ids == MarkSuspect(c.teamIds, <<p, id>>)
           d == [c EXCEPT !.teamIds = MarkSuspect(@, <<p, id>>)]
<1>1. CASE says = "drifted"
  <2>1. Reaches(c, d)
    BY <1>1, MarkedTeamReaches
  <2>2. Leads(c.teamIds, DOMAIN c.teams) /\ DOMAIN c = Fields
    BY DEF Sane, Mapped
  <2>3. <<p, id>> \in DOMAIN c.teamIds /\ Rows(c.teamIds)
    BY <1>1, <2>2, IdKnown DEF Leads
  <2>4. TrueTeamIds(ids, c)
    BY <2>3, TrueWhenMarked DEF Truthful
  <2>5. /\ d.competitions = c.competitions /\ d.teams = c.teams /\ d.events = c.events
        /\ d.teamNames = c.teamNames /\ d.teamIds = ids /\ d.eventIds = c.eventIds
        /\ d.leagueNames = c.leagueNames /\ d.leagueIds = c.leagueIds
    BY <2>2 DEF Fields, Mappings
  <2> HIDE DEF ids, d
  <2>6. Follows(c, d)
    BY <2>1, <2>4, <2>5, MappingsFollow DEF Truthful
  <2>7. QED BY <1>1, <2>6 DEF d
<1>2. CASE says # "drifted"
  BY <1>2, FollowsSelf
<1>3. QED BY <1>1, <1>2

LEMMA TeamResolved ==
  ASSUME NamesAreCurated, NEW c, Sane(c), Truthful(c), NEW s \in Sighting, NEW id, NEW raw,
         <<id, raw>> \in Sides(s), NEW k \in DOMAIN c.competitions, NEW last
  PROVE  LET r == ResolveTeam(c, s.provider, raw, k, id, last) IN
         Follows(c, r.cat) /\ Is(r.cat, r.id, raw)
<1> DEFINE p        == s.provider
           says     == IdSays(c.teamIds, p, id, raw)
           suspect  == says \in {"drifted", "quarantined"}
           c1       == IF says = "drifted"
                       THEN [c EXCEPT !.teamIds = MarkSuspect(@, <<p, id>>)] ELSE c
           Allowed(T) == {t \in T : ~ OtherReference(c.teams[t], p, id)}
           mapped   == Allowed(MappedTeam(c, p, raw, k))
           namesake == {t \in Allowed(NamesakeOf(c, raw).teams) : CountryFits(c, t, k)}
           Known(t, trust, d) ==
             [id |-> t, trust |-> trust,
              cat |-> [d EXCEPT !.teamIds = SaveIdIfAny(@, p, id, t, raw, trust)]]
           Plays(q) == [q EXCEPT !.cat.plays = @ \cup {<<q.id, k>>}]
           one == CHOOSE t \in mapped : TRUE
           other == CHOOSE x \in namesake : TRUE
           trust == IF suspect THEN "SUSPECT" ELSE "VERIFIED"
           c2 == PromoteTeam(c1, p, other, id)
           c3 == [c2 EXCEPT !.teamNames = SaveName(@, <<p, raw, k>>, other, "VERIFIED")]
           Right(q) == Follows(c, q.cat) /\ Is(q.cat, q.id, raw)
           Whole(q) == q = [id |-> q.id, trust |-> q.trust, cat |-> q.cat]
           learnt == LearnTeam(c1, p, raw, k, id, suspect, last)
           r == ResolveTeam(c, p, raw, k, id, last)
<1>1. \/ says = "known" /\ r = Plays(Known(c.teamIds[<<p, id>>].to, "VERIFIED", c))
      \/ mapped # {} /\ r = Plays(Known(one, trust, c1))
      \/ namesake # {} /\ r = Plays(Known(other, "VERIFIED", c3))
      \/ r = Plays(learnt)
  BY DEF ResolveTeam
<1>2. Follows(c, c1) /\ raw \in Name /\ id \in Ref
  BY TeamMarked, SideTyped
<1>3. says = "known" => Is(c, c.teamIds[<<p, id>>].to, raw)
  BY <1>2, TeamKnown
<1>4. /\ mapped # {} => Is(c, one, raw)
      /\ namesake # {} => Is(c, other, raw)
  BY <1>2, TeamMapped
<1>5. trust \in Trust /\ "VERIFIED" \in Trust
  BY DEF Trust
<1>6. ASSUME NEW d, Follows(c, d), NEW t, Is(c, t, raw), NEW how \in Trust
      PROVE  Right(Known(t, how, d)) /\ Whole(Known(t, how, d))
  <2> DEFINE e == [d EXCEPT !.teamIds = SaveIdIfAny(@, p, id, t, raw, how)]
  <2>1. Sane(d) /\ Truthful(d) /\ Is(d, t, raw)
    BY <1>6, FollowsSane DEF Follows, Keeps
  <2>2. Follows(d, e)
    BY <2>1, TeamLearned
  <2>3. /\ Known(t, how, d).id = t /\ Known(t, how, d).cat = e /\ Known(t, how, d).trust = how
        /\ Whole(Known(t, how, d))
    OBVIOUS
  <2> HIDE DEF e, Known, Whole
  <2>4. Follows(c, e) /\ Is(e, t, raw)
    BY <1>6, <2>1, <2>2, FollowsOn DEF Follows, Keeps
  <2>5. QED BY <2>3, <2>4
<1>7. ASSUME NEW q, Right(q), Whole(q) PROVE Right(Plays(q))
  <2> DEFINE e == [q.cat EXCEPT !.plays = @ \cup {<<q.id, k>>}]
  <2>1. /\ Sane(q.cat) /\ Truthful(q.cat)
        /\ q.id \in DOMAIN q.cat.teams /\ k \in DOMAIN q.cat.competitions
    BY <1>7, FollowsSane DEF Follows, Reaches, Grows, Is
  <2>2. Follows(q.cat, e)
    BY <2>1, PlaysFollow
  <2>3. Plays(q) = [id |-> q.id, trust |-> q.trust, cat |-> e]
    BY <1>7
  <2> HIDE DEF e, Plays
  <2>4. Plays(q).cat = e /\ Plays(q).id = q.id
    BY <2>3
  <2>5. Follows(c, e) /\ Is(e, q.id, raw)
    BY <1>7, <2>2, FollowsOn DEF Follows, Keeps
  <2>6. QED BY <2>4, <2>5
<1>8. Sane(c1) /\ Truthful(c1)
  BY <1>2, FollowsSane
<1>9. namesake # {} => Follows(c, c3)
  <2> SUFFICES ASSUME namesake # {} PROVE Follows(c, c3)
    OBVIOUS
  <2> HIDE DEF c1, namesake, other
  <2>1. Is(c1, other, raw) /\ other \in DOMAIN c1.teams
    BY <1>2, <1>4 DEF Follows, Keeps, Is
  <2>2. Follows(c1, c2)
    BY <1>2, <1>8, <2>1, TeamPromoted
  <2> HIDE DEF c2
  <2>3. Sane(c2) /\ Truthful(c2) /\ Is(c2, other, raw)
    BY <2>1, <2>2, FollowsSane DEF Follows, Keeps
  <2>4. Follows(c2, c3)
    BY <1>5, <2>3, TeamLearned
  <2> HIDE DEF c3
  <2>5. QED BY <1>2, <2>2, <2>4, FollowsOn
<1>10. Right(learnt) /\ Whole(learnt)
  <2> HIDE DEF c1, suspect
  <2>1. Follows(c1, learnt.cat) /\ Is(learnt.cat, learnt.id, raw)
    BY <1>8, TeamFound
  <2>2. Whole(learnt)
    BY <1>2, <1>8, LearnTeamReaches
  <2>3. QED BY <1>2, <2>1, <2>2, FollowsOn
<1> HIDE DEF says, suspect, c1, mapped, namesake, Known, Plays, one, other, trust, c3, Right,
             Whole, learnt, r
<1>11. Right(r)
  BY <1>1, <1>2, <1>3, <1>4, <1>5, <1>6, <1>7, <1>9, <1>10, FollowsSelf
<1>12. QED BY <1>11 DEF Right, r

-----------------------------------------------------------------------------
(* An event that is the sighting's teaches what is true.                   *)

(* The event is between the sides of the sighting, in its league.          *)
EventIs(c, e, s) ==
  /\ InLeague(c, c.events[e].competition, s)
  /\ Is(c, c.events[e].home, s.home) /\ Is(c, c.events[e].away, s.away)

LEMMA EventStays ==
  ASSUME NEW c, NEW d, Follows(c, d), NEW e, NEW s \in Sighting, EventIs(c, e, s)
  PROVE  EventIs(d, e, s)
BY DEF EventIs, Follows, Keeps

LEMMA SideLearned ==
  ASSUME NEW c, Sane(c), Truthful(c), NEW s \in Sighting, NEW id, NEW raw,
         <<id, raw>> \in Sides(s), NEW t, Is(c, t, raw), NEW k \in DOMAIN c.competitions
  PROVE  Follows(c, LearnSide(c, s.provider, k, raw, t, id))
<1> DEFINE p == s.provider
           d == [c EXCEPT !.teamNames = SaveName(@, <<p, raw, k>>, t, "VERIFIED"),
                          !.teamIds = SaveIdIfAny(@, p, id, t, raw, "VERIFIED")]
           e == [d EXCEPT !.plays = @ \cup {<<t, k>>}]
<1>1. "VERIFIED" \in Trust /\ DOMAIN c = Fields /\ id \in Ref
  BY SideTyped DEF Trust, Sane
<1>2. Follows(c, d)
  BY <1>1, TeamLearned
<1>3. Sane(d) /\ Truthful(d) /\ t \in DOMAIN d.teams /\ k \in DOMAIN d.competitions
  BY <1>2, FollowsSane DEF Follows, Keeps, Reaches, Grows, Is
<1>4. Follows(d, e)
  BY <1>3, PlaysFollow
<1>5. LearnSide(c, p, k, raw, t, id) = PromoteTeam(e, p, t, id)
  <2>1. e = [c EXCEPT !.teamNames = SaveName(@, <<p, raw, k>>, t, "VERIFIED"),
                      !.teamIds = SaveIdIfAny(@, p, id, t, raw, "VERIFIED"),
                      !.plays = @ \cup {<<t, k>>}]
    BY <1>1 DEF Fields
  <2>2. QED BY <2>1 DEF LearnSide
<1> HIDE DEF d, e
<1>6. Sane(e) /\ Truthful(e) /\ t \in DOMAIN e.teams
  BY <1>3, <1>4, FollowsSane DEF Follows, Reaches, Grows
<1>7. Follows(e, PromoteTeam(e, p, t, id))
  BY <1>1, <1>6, TeamPromoted
<1>8. QED BY <1>2, <1>4, <1>5, <1>7, FollowsOn

LEMMA EventLearned ==
  ASSUME LeaguesAreCurated(Sighting), NEW c, Sane(c), Truthful(c), NEW s \in Sighting,
         NEW e \in DOMAIN c.events, EventIs(c, e, s)
  PROVE  Follows(c, LearnFromEvent(c, s, e))
<1> DEFINE k  == c.events[e].competition
           home == c.events[e].home
           away == c.events[e].away
           c1 == LearnSide(c, s.provider, k, s.home, home, s.homeId)
           c2 == LearnSide(c1, s.provider, k, s.away, away, s.awayId)
           c3 == [c2 EXCEPT
               !.leagueNames = SaveName(@, <<s.provider, s.league, s.country>>, k, "VERIFIED"),
               !.leagueIds = SaveIdIfAny(@, s.provider, s.leagueId, k, s.league, "VERIFIED")]
           c4 == PromoteCompetition(c3, s.provider, k, s.leagueId, s.country)
<1>1. LearnFromEvent(c, s, e) = c4
  BY DEF LearnFromEvent
<1>2. /\ InLeague(c, k, s) /\ Is(c, home, s.home) /\ Is(c, away, s.away)
      /\ k \in DOMAIN c.competitions /\ "VERIFIED" \in Trust
      /\ <<s.homeId, s.home>> \in Sides(s) /\ <<s.awayId, s.away>> \in Sides(s)
  BY DEF EventIs, InLeague, Trust, Sides
<1> HIDE DEF k, home, away
<1>3. Follows(c, c1)
  BY <1>2, SideLearned
<1> HIDE DEF c1
<1>4. /\ Sane(c1) /\ Truthful(c1) /\ k \in DOMAIN c1.competitions
      /\ Is(c1, away, s.away) /\ InLeague(c1, k, s)
  BY <1>2, <1>3, FollowsSane DEF Follows, Keeps, InLeague
<1>5. Follows(c1, c2)
  BY <1>2, <1>4, SideLearned
<1> HIDE DEF c2
<1>6. Sane(c2) /\ Truthful(c2) /\ InLeague(c2, k, s)
  BY <1>4, <1>5, FollowsSane DEF Follows, Keeps
<1>7. Follows(c2, c3)
  BY <1>2, <1>6, LeagueLearned
<1> HIDE DEF c3
<1>8. Sane(c3) /\ Truthful(c3) /\ InLeague(c3, k, s)
  BY <1>6, <1>7, FollowsSane DEF Follows, Keeps
<1>9. Follows(c3, c4)
  BY <1>8, CompetitionPromoted
<1> HIDE DEF c4
<1>10. Follows(c, c4)
  BY <1>3, <1>5, <1>7, <1>9, FollowsOn
<1>11. QED BY <1>1, <1>10

-----------------------------------------------------------------------------
(* The events, and the history variable a.                                 *)

Reported(row, x, u) ==
  /\ u.provider = x[1] /\ u.eventId = x[2]
  /\ row.home = u.home /\ row.away = u.away /\ row.league = u.league /\ row.country = u.country
  /\ u.homeId # None => row.homeId = u.homeId
  /\ u.awayId # None => row.awayId = u.awayId
  /\ u.leagueId # None => row.leagueId = u.leagueId

EventsRecorded(c, a) ==
  \A e \in DOMAIN c.events :
    /\ e \in DOMAIN a
    /\ \E u \in Sighting : a[e] = {u.fixture} /\ c.events[e].start = u.start /\ EventIs(c, e, u)
FixturesRecorded(m, a) ==
  \A x \in DOMAIN m : m[x].trust = "VERIFIED" =>
    \E u \in Sighting : a[m[x].to] = {u.fixture} /\ Reported(m[x], x, u)
Recorded(c, a) ==
  EventsRecorded(c, a) /\ FixturesRecorded(c.eventIds, a) /\ DOMAIN a \subseteq DOMAIN c.events

LEMMA RecordedOn ==
  ASSUME NEW c, NEW d, Follows(c, d), NEW a, Recorded(c, a) PROVE Recorded(d, a)
<1>1. d.events = c.events /\ d.eventIds = c.eventIds
  BY DEF Follows
<1>2. EventsRecorded(d, a)
  BY <1>1, EventStays DEF Recorded, EventsRecorded
<1>3. QED BY <1>1, <1>2 DEF Recorded

(* What about becomes when event e is used for s.                          *)
Used(a, e, s) == Put(a, e, {s.fixture} \cup IF e \in DOMAIN a THEN a[e] ELSE {})

SameParts(c, d, x) ==
  /\ d.events[x].competition = c.events[x].competition
  /\ d.events[x].home = c.events[x].home /\ d.events[x].away = c.events[x].away

(* The provider's id of the fixture is saved.                              *)
LEMMA FixtureSavedTruly ==
  ASSUME NEW c, NEW a, Sane(c), Recorded(c, a), NEW s \in Sighting, NEW e, NEW trust,
         e \in DOMAIN a => a[e] = {s.fixture}
  PROVE  FixturesRecorded(SaveEventIdIfAny(c.eventIds, s, e, trust), Used(a, e, s))
<1> DEFINE m == c.eventIds
           key == <<s.provider, s.eventId>>
           b == Used(a, e, s)
<1>1. b[e] = {s.fixture} /\ \A x \in DOMAIN a : b[x] = a[x]
  BY DEF Used, Put
<1>2. \A x \in DOMAIN m : m[x].to \in DOMAIN a
  BY DEF Sane, Mapped, Leads, Recorded, EventsRecorded
<1> HIDE DEF b
<1>3. FixturesRecorded(m, b)
  BY <1>1, <1>2 DEF Recorded, FixturesRecorded
<1>4. CASE s.eventId = None
  BY <1>3, <1>4 DEF SaveEventIdIfAny, b
<1>5. CASE s.eventId # None
  <2> DEFINE new == SaveEventId(m, s, e, trust)
  <2>1. PICK row :
          /\ new = Put(m, key, row)
          /\ row.trust = "VERIFIED" => row.to = e /\ Reported(row, key, s)
    <3> DEFINE known == key \in DOMAIN m
               old == IF known THEN m[key]
                      ELSE [to |-> e, trust |-> trust, home |-> None, away |-> None,
                            league |-> None, country |-> None,
                            homeId |-> None, awayId |-> None, leagueId |-> None]
               quarantined == old.trust \in Closed
               seen == IF trust = "VERIFIED" THEN s ELSE old
               row == [to |-> IF quarantined THEN old.to ELSE e,
                       trust |-> IF quarantined THEN old.trust ELSE trust,
                       home |-> seen.home, away |-> seen.away,
                       league |-> seen.league, country |-> seen.country,
                       homeId |-> Coalesce(s.homeId, old.homeId),
                       awayId |-> Coalesce(s.awayId, old.awayId),
                       leagueId |-> Coalesce(s.leagueId, old.leagueId)]
    <3>1. new = Put(m, key, row)
      BY DEF SaveEventId
    <3>2. ASSUME row.trust = "VERIFIED" PROVE row.to = e /\ Reported(row, key, s)
      <4>1. ~ quarantined /\ trust = "VERIFIED"
        BY <3>2 DEF Closed
      <4>2. seen = s
        BY <4>1
      <4> HIDE DEF old, quarantined, seen
      <4>3. QED BY <4>1, <4>2 DEF Reported, Coalesce
    <3> HIDE DEF row
    <3>3. QED BY <3>1, <3>2
  <2> HIDE DEF new, m, key
  <2>2. FixturesRecorded(new, b)
    BY <1>1, <1>3, <2>1 DEF FixturesRecorded, Put
  <2>3. QED BY <1>5, <2>2 DEF SaveEventIdIfAny, new, m, b
<1>6. QED BY <1>4, <1>5

(* Event e, used for s, is new, or was about its fixture and is brought up *)
(* to date with s; all the others are what they were.                      *)
LEMMA EventsSavedTruly ==
  ASSUME NEW c, NEW a, Recorded(c, a), NEW d, Keeps(c, d), NEW s \in Sighting,
         NEW e \in DOMAIN d.events, EventIs(d, e, s),
         \A x \in DOMAIN d.events \ {e} :
           x \in DOMAIN c.events /\ SameParts(c, d, x) /\ d.events[x].start = c.events[x].start,
         \/ d.events[e].start = s.start
         \/ /\ e \in DOMAIN c.events /\ SameParts(c, d, e)
            /\ d.events[e].start = c.events[e].start,
         e \in DOMAIN a => a[e] = {s.fixture}
  PROVE  EventsRecorded(d, Used(a, e, s))
<1> DEFINE b == Used(a, e, s)
<1>1. DOMAIN b = DOMAIN a \cup {e} /\ b[e] = {s.fixture} /\ \A x \in DOMAIN a : b[x] = a[x]
  BY DEF Used, Put
<1>2. \A x \in DOMAIN c.events : x \in DOMAIN a
  BY DEF Recorded, EventsRecorded
<1>3. ASSUME NEW x \in DOMAIN c.events, SameParts(c, d, x), NEW u \in Sighting, EventIs(c, x, u)
      PROVE  EventIs(d, x, u)
  BY <1>3 DEF EventIs, Keeps, SameParts
<1> HIDE DEF b
<1>4. ASSUME NEW x \in DOMAIN c.events, SameParts(c, d, x),
             d.events[x].start = c.events[x].start
      PROVE  \E u \in Sighting : b[x] = {u.fixture} /\ d.events[x].start = u.start
                                   /\ EventIs(d, x, u)
  <2>1. PICK u \in Sighting : a[x] = {u.fixture} /\ c.events[x].start = u.start
                                /\ EventIs(c, x, u)
    BY DEF Recorded, EventsRecorded
  <2>2. QED BY <1>1, <1>2, <1>3, <1>4, <2>1
<1>5. \E u \in Sighting : b[e] = {u.fixture} /\ d.events[e].start = u.start /\ EventIs(d, e, u)
  BY <1>1, <1>4
<1>6. EventsRecorded(d, b)
  BY <1>1, <1>2, <1>4, <1>5 DEF EventsRecorded
<1>7. QED BY <1>6 DEF b

-----------------------------------------------------------------------------
(* The start of an event is moved to that of the sighting, or is not.      *)
Moved(c, d, e, s) ==
  /\ DOMAIN d = Fields /\ SameMappings(c, d)
  /\ d.competitions = c.competitions /\ d.teams = c.teams
  /\ DOMAIN d.events = DOMAIN c.events
  /\ \A x \in DOMAIN c.events : SameParts(c, d, x) /\ (x # e => d.events[x] = c.events[x])
  /\ d.events[e].start \in {c.events[e].start, s.start}

LEMMA MovedOn ==
  ASSUME NEW c, NEW d, NEW f, NEW e, NEW s, Moved(c, d, e, s), Moved(d, f, e, s)
  PROVE  Moved(c, f, e, s)
BY DEF Moved, SameMappings, SameParts

LEMMA StartMoved ==
  ASSUME NEW c, Sane(c), NEW s, NEW e \in DOMAIN c.events
  PROVE  Moved(c, SyncStart(c, s, e), e, s)
<1> DEFINE row == c.events[e]
           ref == IF s.provider = Reference /\ s.eventId # None THEN s.eventId ELSE row.ref
           new == [row EXCEPT !.start = s.start, !.by = s.provider, !.ref = ref]
           d == SyncStart(c, s, e)
<1>1. DOMAIN c = Fields /\ row \in Event
  BY TableRow DEF Sane, Entities
<1>2. CASE d = c
  BY <1>1, <1>2 DEF Moved, SameMappings, SameParts
<1>3. CASE d # c
  <2>1. d = [c EXCEPT !.ok = @ /\ (ref = row.ref \/ ~ RefTaken(c, ref, e)),
                      !.events[e] = new]
    BY <1>3 DEF SyncStart
  <2>2. /\ new.start = s.start
        /\ new.home = row.home /\ new.away = row.away /\ new.competition = row.competition
    BY <1>1 DEF Event
  <2>3. /\ DOMAIN d = Fields /\ SameMappings(c, d) /\ d.competitions = c.competitions
        /\ d.teams = c.teams /\ d.events = [c.events EXCEPT ![e] = new]
    BY <1>1, <2>1, OtherTables DEF Fields
  <2> HIDE DEF new, d
  <2>4. /\ DOMAIN d.events = DOMAIN c.events /\ d.events[e] = new
        /\ \A x \in DOMAIN c.events \ {e} : d.events[x] = c.events[x]
    BY <2>3
  <2>5. Moved(c, d, e, s)
    BY <2>2, <2>3, <2>4 DEF Moved, SameParts
  <2>6. QED BY <2>5 DEF d
<1>4. QED BY <1>2, <1>3

LEMMA ReferenceMoved ==
  ASSUME NEW c, Sane(c), NEW p, NEW id, NEW s, NEW e \in DOMAIN c.events
  PROVE  Moved(c, PromoteEvent(c, p, e, id), e, s)
<1> DEFINE row == c.events[e]
           new == [row EXCEPT !.ref = id, !.by = Reference]
           d == PromoteEvent(c, p, e, id)
<1>1. DOMAIN c = Fields /\ row \in Event
  BY TableRow DEF Sane, Entities
<1>2. CASE d = c
  BY <1>1, <1>2 DEF Moved, SameMappings, SameParts
<1>3. CASE d # c
  <2>1. d = [c EXCEPT !.events[e].ref = id, !.events[e].by = Reference]
    BY <1>3 DEF PromoteEvent
  <2>2. /\ new.start = row.start
        /\ new.home = row.home /\ new.away = row.away /\ new.competition = row.competition
    BY <1>1 DEF Event
  <2>3. /\ DOMAIN d = Fields /\ SameMappings(c, d) /\ d.competitions = c.competitions
        /\ d.teams = c.teams /\ d.events = [c.events EXCEPT ![e] = new]
    BY <1>1, <2>1, OtherTables DEF Fields
  <2> HIDE DEF new, d
  <2>4. /\ DOMAIN d.events = DOMAIN c.events /\ d.events[e] = new
        /\ \A x \in DOMAIN c.events \ {e} : d.events[x] = c.events[x]
    BY <2>3
  <2>5. Moved(c, d, e, s)
    BY <2>2, <2>3, <2>4 DEF Moved, SameParts
  <2>6. QED BY <2>5 DEF d
<1>4. QED BY <1>2, <1>3

-----------------------------------------------------------------------------
(* What match ends with: tables that tell the truth, and an event that is  *)
(* the fixture's and no other's.                                           *)
Tells(r, a, s) == Truthful(r.cat) /\ Recorded(r.cat, Used(a, r.id, s))

(* The end of every path: the event e of d is the sighting's, and the      *)
(* provider's id of the fixture is saved.                                  *)
LEMMA FixtureTold ==
  ASSUME NEW c, NEW a, Sane(c), Truthful(c), Recorded(c, a), NEW d, NEW s \in Sighting,
         DOMAIN d = Fields, SameMappings(c, d),
         d.competitions = c.competitions, d.teams = c.teams,
         NEW e \in DOMAIN d.events, EventIs(d, e, s), DOMAIN c.events \subseteq DOMAIN d.events,
         \A x \in DOMAIN d.events \ {e} :
           x \in DOMAIN c.events /\ SameParts(c, d, x) /\ d.events[x].start = c.events[x].start,
         \/ d.events[e].start = s.start
         \/ /\ e \in DOMAIN c.events /\ SameParts(c, d, e)
            /\ d.events[e].start = c.events[e].start,
         e \in DOMAIN a => a[e] = {s.fixture},
         NEW trust
  PROVE  LET f == [d EXCEPT !.eventIds = SaveEventIdIfAny(@, s, e, trust)] IN
         Truthful(f) /\ Recorded(f, Used(a, e, s))
<1> DEFINE ids == SaveEventIdIfAny(c.eventIds, s, e, trust)
           f == [d EXCEPT !.eventIds = SaveEventIdIfAny(@, s, e, trust)]
<1>1. /\ d.teamNames = c.teamNames /\ d.teamIds = c.teamIds /\ d.leagueNames = c.leagueNames
      /\ d.leagueIds = c.leagueIds /\ d.eventIds = c.eventIds
  BY DEF SameMappings, Mappings
<1>2. /\ f.competitions = c.competitions /\ f.teams = c.teams /\ f.events = d.events
      /\ f.teamNames = c.teamNames /\ f.teamIds = c.teamIds /\ f.leagueNames = c.leagueNames
      /\ f.leagueIds = c.leagueIds /\ f.eventIds = ids
  BY <1>1 DEF Fields, Mappings
<1> HIDE DEF f
<1>3. Keeps(c, f) /\ Keeps(d, f)
  BY <1>2 DEF Keeps, InLeague, Bears, Is
<1>4. Borne(f)
  BY <1>2 DEF Truthful, Borne, Bears
<1>5. Truthful(f)
  BY <1>2, <1>3, <1>4, StillTrue DEF Truthful
<1>6. EventIs(f, e, s)
  BY <1>2, <1>3 DEF EventIs, Keeps
<1>7. EventsRecorded(f, Used(a, e, s))
  BY <1>2, <1>3, <1>6, EventsSavedTruly DEF SameParts
<1>8. FixturesRecorded(ids, Used(a, e, s))
  BY FixtureSavedTruly
<1>9. DOMAIN Used(a, e, s) = DOMAIN a \cup {e} /\ DOMAIN a \subseteq DOMAIN c.events
  BY DEF Used, Put, Recorded
<1>10. Recorded(f, Used(a, e, s))
  BY <1>2, <1>7, <1>8, <1>9 DEF Recorded
<1>11. QED BY <1>5, <1>10 DEF f

LEMMA MovedTold ==
  ASSUME NEW c, NEW a, Sane(c), Truthful(c), Recorded(c, a), NEW d, NEW s \in Sighting,
         NEW e \in DOMAIN c.events, Moved(c, d, e, s), EventIs(c, e, s), a[e] = {s.fixture},
         NEW trust
  PROVE  LET f == [d EXCEPT !.eventIds = SaveEventIdIfAny(@, s, e, trust)] IN
         Truthful(f) /\ Recorded(f, Used(a, e, s))
<1>1. Keeps(c, d)
  BY DEF Moved, Keeps, InLeague, Bears, Is
<1>2. EventIs(d, e, s)
  BY <1>1 DEF EventIs, Keeps, Moved, SameParts
<1>3. /\ \A x \in DOMAIN d.events \ {e} :
           x \in DOMAIN c.events /\ SameParts(c, d, x) /\ d.events[x].start = c.events[x].start
      /\ \/ d.events[e].start = s.start
         \/ SameParts(c, d, e) /\ d.events[e].start = c.events[e].start
  BY DEF Moved
<1>4. QED BY <1>2, <1>3, FixtureTold DEF Moved

LEMMA FixtureOfEventTold ==
  ASSUME LeaguesAreCurated(Sighting),
         NEW c, NEW a, Sane(c), Truthful(c), Recorded(c, a), NEW s \in Sighting,
         NEW e \in DOMAIN c.events, EventIs(c, e, s), a[e] = {s.fixture}
  PROVE  /\ s.eventId # None => Tells(KnownFixture(c, s, e), a, s)
         /\ Tells(FixtureInContext(c, s, e), a, s)
<1> DEFINE c1 == LearnFromEvent(c, s, e)
           c2 == SyncStart(c1, s, e)
           c3 == PromoteEvent(c2, s.provider, e, s.eventId)
           d2 == [c2 EXCEPT !.eventIds = SaveEventIdIfAny(@, s, e, "VERIFIED")]
           d3 == [c3 EXCEPT !.eventIds = SaveEventIdIfAny(@, s, e, "VERIFIED")]
<1>1. /\ KnownFixture(c, s, e).id = e
      /\ s.eventId # None => KnownFixture(c, s, e).cat = d2
      /\ FixtureInContext(c, s, e).id = e /\ FixtureInContext(c, s, e).cat = d3
  BY DEF KnownFixture, FixtureInContext, SaveEventIdIfAny
<1>2. Follows(c, c1)
  BY EventLearned
<1> HIDE DEF c1
<1>3. /\ Sane(c1) /\ Truthful(c1) /\ Recorded(c1, a) /\ EventIs(c1, e, s)
      /\ e \in DOMAIN c1.events
  BY <1>2, FollowsSane, RecordedOn, EventStays DEF Follows
<1>4. Moved(c1, c2, e, s)
  BY <1>3, StartMoved
<1>5. Reaches(c1, c2)
  BY <1>3, SyncStartReaches
<1> HIDE DEF c2
<1>6. Moved(c2, c3, e, s)
  BY <1>3, <1>5, ReferenceMoved DEF Reaches, Grows
<1> HIDE DEF c3
<1>7. Moved(c1, c3, e, s)
  BY <1>4, <1>6, MovedOn
<1>8. Truthful(d2) /\ Recorded(d2, Used(a, e, s))
  BY <1>3, <1>4, MovedTold
<1>9. Truthful(d3) /\ Recorded(d3, Used(a, e, s))
  BY <1>3, <1>7, MovedTold
<1>10. QED BY <1>1, <1>8, <1>9 DEF Tells

-----------------------------------------------------------------------------
(* Which fixture an event is about.                                        *)

LEMMA AboutSame ==
  ASSUME FixturesAreCurated(Sighting), NEW c, NEW e, NEW u \in Sighting, EventIs(c, e, u),
         NEW s \in Sighting, u.fixture = s.fixture
  PROVE  EventIs(c, e, s)
<1>1. /\ Namesakes(u, s) /\ League[u.fixture] = League[s.fixture]
      /\ Called[u.home] = Called[s.home] /\ Called[u.away] = Called[s.away]
  BY DEF FixturesAreCurated
<1>2. QED BY <1>1, LeagueToo DEF EventIs, Is

(* An event of the sighting's league, near in time and with one side of    *)
(* its name is about its fixture.                                          *)
LEMMA NearAndAlike ==
  ASSUME LeaguesAreCurated(Sighting), FixturesAreCurated(Sighting),
         NEW c, NEW a, Recorded(c, a), NEW s \in Sighting, NEW e \in DOMAIN c.events,
         InLeague(c, c.events[e].competition, s),
         Apart(c.events[e].start, s.start) <= Tolerance,
         Is(c, c.events[e].home, s.home) \/ Is(c, c.events[e].away, s.away)
  PROVE  EventIs(c, e, s) /\ a[e] = {s.fixture}
<1>1. PICK u \in Sighting : a[e] = {u.fixture} /\ c.events[e].start = u.start /\ EventIs(c, e, u)
  BY DEF Recorded, EventsRecorded
<1>2. League[u.fixture] = League[s.fixture]
  BY <1>1, OneLeague DEF EventIs
<1>3. Called[u.home] = Called[s.home] \/ Called[u.away] = Called[s.away]
  BY <1>1 DEF EventIs, Is
<1>4. u.fixture = s.fixture
  BY <1>1, <1>2, <1>3 DEF FixturesAreCurated
<1>5. QED BY <1>1, <1>4, AboutSame

(* _team_evidence_score means the right club, if the ids that lead to it   *)
(* are no other's.                                                         *)
LEMMA EvidenceTrue ==
  ASSUME NamesAreCurated, NEW c, Sane(c), Truthful(c), NEW p, NEW raw \in Name, NEW id,
         NEW t \in DOMAIN c.teams, Evidence(c, p, raw, t, id) > 0,
         \A v \in Sighting : v.provider = p => \A x \in Sides(v) :
           Same(x[1], id) /\ Is(c, t, x[2]) => Called[raw] = Called[x[2]]
  PROVE  Is(c, t, raw)
<1> DEFINE key == <<p, id>>
           row == c.teamIds[key]
           name == c.teams[t].name
           result == Normalize(raw, {name})
<1>1. name \in Name
  <2>1. c.teams[t] \in Team
    BY TableRow DEF Sane, Entities
  <2>2. QED BY <2>1 DEF Team
<1>2. CASE id # None /\ key \in DOMAIN c.teamIds
  <2>1. row.trust = "VERIFIED" /\ row.to = t
    BY <1>2 DEF Evidence
  <2>2. Is(c, t, row.verified)
    BY <1>2, <2>1 DEF Truthful, TrueTeamIds
  <2>3. PICK u \in Sighting : u.provider = p /\ <<id, row.verified>> \in Sides(u)
    BY <1>2, <2>1 DEF Truthful, TrueTeamIds
  <2>4. Called[raw] = Called[row.verified]
    BY <1>2, <2>2, <2>3 DEF Same
  <2>5. QED BY <2>2, <2>4 DEF Is
<1>3. CASE ~ (id # None /\ key \in DOMAIN c.teamIds)
  <2>1. result.method = "fuzzy" \/ result.name = name
    <3>1. SUFFICES ASSUME result.method # "fuzzy", result.name # name PROVE FALSE
      OBVIOUS
    <3>2. Evidence(c, p, raw, t, id) = 0
      BY <1>3, <3>1, Zenon DEF Evidence
    <3>3. QED BY <3>2
  <2>2. CASE result.method = "fuzzy"
    <3>1. Similar(raw, name)
      BY <2>2 DEF Normalize
    <3>2. QED BY <1>1, <3>1 DEF Is, NamesAreCurated
  <2>3. CASE result.method # "fuzzy"
    <3>1. result.name = name
      BY <2>1, <2>3
    <3>2. Called[result.name] = Called[raw]
      BY NormalizeSame
    <3>3. QED BY <3>1, <3>2 DEF Is
  <2>4. QED BY <2>2, <2>3
<1>4. QED BY <1>2, <1>3

LEMMA EvidenceTyped ==
  ASSUME NEW c, Sane(c), NEW p, NEW raw \in Name, NEW id, NEW t \in DOMAIN c.teams
  PROVE  Evidence(c, p, raw, t, id) \in Int
<1>1. c.teams[t].name \in Name
  <2>1. c.teams[t] \in Team
    BY TableRow DEF Sane, Entities
  <2>2. QED BY <2>1 DEF Team
<1> DEFINE ratio == Ratio[raw, c.teams[t].name]
<1>2. ratio \in 0 .. 100
  <2>1. Ratio \in [Name \X Name -> 0 .. 100]
    BY CatalogAssumption
  <2>2. QED BY <1>1, <2>1, Zenon
<1>3. Evidence(c, p, raw, t, id) \in {100, 0, -1, ratio}
  BY Zenon DEF Evidence
<1> HIDE DEF ratio
<1>4. QED BY <1>2, <1>3

LEMMA ScoreNeedsASide ==
  ASSUME NEW h \in Int, NEW a \in Int, Score(h, a) > 0 PROVE h > 0 \/ a > 0
BY DEF Score

LEMMA ContextTrue ==
  ASSUME Curated(Sighting), NEW comp, Sane(comp.cat), Truthful(comp.cat),
         NEW a, Recorded(comp.cat, a), NEW s \in Sighting, InLeague(comp.cat, comp.id, s),
         NEW e \in ByContext(comp.cat, s, comp)
  PROVE  EventIs(comp.cat, e, s) /\ a[e] = {s.fixture}
<1> DEFINE c == comp.cat
           row == c.events[e]
           h == Evidence(c, s.provider, s.home, row.home, s.homeId)
           g == Evidence(c, s.provider, s.away, row.away, s.awayId)
<1>1. /\ e \in DOMAIN c.events /\ row.competition = comp.id
      /\ Apart(row.start, s.start) <= Tolerance /\ Score(h, g) > 0
  BY DEF ByContext
<1>2. /\ NamesAreCurated /\ LeaguesAreCurated(Sighting) /\ FixturesAreCurated(Sighting)
      /\ TeamIdsAreCurated(Sighting)
  BY DEF Curated
<1> HIDE DEF c
<1>3. /\ s.home \in Name /\ s.away \in Name /\ row.home \in DOMAIN c.teams
      /\ row.away \in DOMAIN c.teams
  BY <1>1, SightingTyped, EventParts DEF c
<1>4. PICK u \in Sighting : EventIs(c, e, u)
  BY <1>1 DEF Recorded, EventsRecorded, c
<1>5. League[u.fixture] = League[s.fixture]
  BY <1>1, <1>2, <1>4, OneLeague DEF EventIs, c
<1>6. h \in Int /\ g \in Int
  BY <1>3, EvidenceTyped DEF c
<1>7. h > 0 \/ g > 0
  <2> HIDE DEF h, g
  <2>1. QED BY <1>1, <1>6, ScoreNeedsASide
<1> HIDE DEF row
<1> Sane(c) /\ Truthful(c)
  BY DEF c
<1>8. CASE h > 0
  <2>1. ASSUME NEW v \in Sighting, v.provider = s.provider, NEW x \in Sides(v),
               Same(x[1], s.homeId), Is(c, row.home, x[2])
        PROVE  Called[s.home] = Called[x[2]]
    <3>1. Called[u.home] = Called[x[2]]
      BY <1>4, <2>1 DEF EventIs, Is, row
    <3>2. QED BY <1>2, <1>5, <2>1, <3>1 DEF TeamIdsAreCurated
  <2>2. Is(c, row.home, s.home)
    BY <1>2, <1>3, <1>8, <2>1, EvidenceTrue
  <2>3. QED BY <1>1, <1>2, <2>2, NearAndAlike DEF c, row
<1>9. CASE g > 0
  <2>1. ASSUME NEW v \in Sighting, v.provider = s.provider, NEW x \in Sides(v),
               Same(x[1], s.awayId), Is(c, row.away, x[2])
        PROVE  Called[s.away] = Called[x[2]]
    <3>1. Called[u.away] = Called[x[2]]
      BY <1>4, <2>1 DEF EventIs, Is, row
    <3>2. QED BY <1>2, <1>5, <2>1, <3>1 DEF TeamIdsAreCurated
  <2>2. Is(c, row.away, s.away)
    BY <1>2, <1>3, <1>9, <2>1, EvidenceTrue
  <2>3. QED BY <1>1, <1>2, <2>2, NearAndAlike DEF c, row
<1>10. QED BY <1>7, <1>8, <1>9

(* _event_mapping_is_compatible sees that an id is another fixture's.      *)
LEMMA IdShows ==
  ASSUME FixtureIdsAreCurated(Sighting), FixturesAreCurated(Sighting),
         NEW c, NEW a, Sane(c), Recorded(c, a), NEW s \in Sighting, s.eventId # None,
         <<s.provider, s.eventId>> \in DOMAIN c.eventIds,
         c.eventIds[<<s.provider, s.eventId>>].trust = "VERIFIED",
         Compatible(c, s, c.eventIds[<<s.provider, s.eventId>>])
  PROVE  LET e == c.eventIds[<<s.provider, s.eventId>>].to IN
         e \in DOMAIN c.events /\ EventIs(c, e, s) /\ a[e] = {s.fixture}
<1> DEFINE key == <<s.provider, s.eventId>>
           row == c.eventIds[key]
<1>1. PICK u \in Sighting : a[row.to] = {u.fixture} /\ Reported(row, key, u)
  BY DEF Recorded, FixturesRecorded
<1>2. /\ Agrees(row.homeId, s.homeId, row.home, s.home)
      /\ Agrees(row.awayId, s.awayId, row.away, s.away)
      /\ Agrees(row.leagueId, s.leagueId, row.league, s.league)
      /\ row.country = None \/ s.country = None \/ row.country = s.country
  BY DEF Compatible
<1>3. /\ row.home = u.home /\ row.away = u.away /\ row.league = u.league
      /\ row.country = u.country /\ u.provider = s.provider /\ u.eventId = s.eventId
      /\ u.homeId # None => row.homeId = u.homeId
      /\ u.awayId # None => row.awayId = u.awayId
      /\ u.leagueId # None => row.leagueId = u.leagueId
  BY <1>1 DEF Reported
<1>4. u.home # None /\ u.away # None /\ u.league # None
  BY SightingTyped, CatalogAssumption
<1>5. row.to \in DOMAIN c.events
  BY DEF Sane, Mapped, Leads
<1> HIDE DEF row, key
<1>6. ~ Shows(u.homeId, s.homeId, u.home, s.home)
  BY <1>2, <1>3, <1>4 DEF Agrees, Shows
<1>7. ~ Shows(u.awayId, s.awayId, u.away, s.away)
  BY <1>2, <1>3, <1>4 DEF Agrees, Shows
<1>8. ~ Shows(u.leagueId, s.leagueId, u.league, s.league)
  BY <1>2, <1>3, <1>4 DEF Agrees, Shows
<1>9. u.fixture = s.fixture
  BY <1>2, <1>3, <1>6, <1>7, <1>8 DEF FixtureIdsAreCurated, Same
<1>10. PICK v \in Sighting : a[row.to] = {v.fixture} /\ EventIs(c, row.to, v)
  BY <1>5 DEF Recorded, EventsRecorded
<1>11. v.fixture = s.fixture
  BY <1>1, <1>9, <1>10
<1>12. QED BY <1>1, <1>5, <1>9, <1>10, <1>11, AboutSame DEF row, key

-----------------------------------------------------------------------------
(* match, path by path.                                                    *)

LEMMA EventTold ==
  ASSUME LeaguesAreCurated(Sighting), FixturesAreCurated(Sighting),
         NEW c, NEW a, Sane(c), Truthful(c), Recorded(c, a), NEW s \in Sighting,
         NEW k, InLeague(c, k, s), NEW home, Is(c, home, s.home), NEW away, Is(c, away, s.away),
         NEW trust
  PROVE  LET r == ResolveEvent(c, s, k, home, away)
             f == [r.cat EXCEPT !.eventIds = SaveEventIdIfAny(@, s, r.id, trust)]
         IN Truthful(f) /\ Recorded(f, Used(a, r.id, s))
<1> DEFINE rows == Matchups(c, k, home, away, s.start)
           old == CHOOSE x \in rows : TRUE
           e == NextId(c.events)
           ref == RefOfNew(c.events, s.provider, s.eventId)
           row == [competition |-> k, home |-> home, away |-> away, start |-> s.start,
                   by |-> s.provider, ref |-> ref]
           r == ResolveEvent(c, s, k, home, away)
           f == [r.cat EXCEPT !.eventIds = SaveEventIdIfAny(@, s, r.id, trust)]
<1>1. Table(c.events, Event) /\ DOMAIN c = Fields /\ Entities(c)
  BY DEF Sane, Entities
<1>2. CASE Cardinality(rows) = 1
  <2> DEFINE c1 == SyncStart(c, s, old)
             d == PromoteEvent(c1, s.provider, old, s.eventId)
  <2>1. r.id = old /\ r.cat = d
    BY <1>2 DEF ResolveEvent
  <2>2. rows # {}
    BY <1>2, FS_EmptySet
  <2>3. \A x \in rows : /\ x \in DOMAIN c.events /\ c.events[x].competition = k
                        /\ c.events[x].home = home /\ c.events[x].away = away
                        /\ Apart(c.events[x].start, s.start) <= Tolerance
    BY DEF Matchups
  <2> HIDE DEF rows
  <2>4. old \in rows
    BY <2>2
  <2> HIDE DEF old
  <2>5. old \in DOMAIN c.events
    BY <2>3, <2>4
  <2>6. EventIs(c, old, s) /\ a[old] = {s.fixture}
    BY <2>3, <2>4, NearAndAlike
  <2>7. Moved(c, c1, old, s) /\ Reaches(c, c1)
    BY <2>5, StartMoved, SyncStartReaches
  <2> HIDE DEF c1
  <2>8. Moved(c1, d, old, s)
    BY <2>5, <2>7, ReferenceMoved DEF Reaches, Grows
  <2> HIDE DEF d
  <2>9. Moved(c, d, old, s)
    BY <2>7, <2>8, MovedOn
  <2> DEFINE g == [d EXCEPT !.eventIds = SaveEventIdIfAny(@, s, old, trust)]
  <2>10. Truthful(g) /\ Recorded(g, Used(a, old, s))
    BY <2>5, <2>6, <2>9, MovedTold
  <2>11. f = g
    BY <2>1
  <2> HIDE DEF f, g, r
  <2>12. Truthful(f) /\ Recorded(f, Used(a, r.id, s))
    BY <2>1, <2>10, <2>11
  <2>13. QED BY <2>12 DEF f, r
<1>3. CASE Cardinality(rows) # 1
  <2> DEFINE d == [c EXCEPT !.events = Put(@, e, row)]
             g == [d EXCEPT !.eventIds = SaveEventIdIfAny(@, s, e, trust)]
  <2>1. r.id = e /\ r.cat = d
    BY <1>3 DEF ResolveEvent
  <2>2. ref \in Ref
    BY RefOfNewIsUnused, SightingTyped
  <2>3. home \in DOMAIN c.teams /\ away \in DOMAIN c.teams /\ k \in DOMAIN c.competitions
    BY DEF Is, InLeague
  <2>4. home \in Nat /\ away \in Nat /\ k \in Nat
    BY <1>1, <2>3, TableRow DEF Entities
  <2>5. row \in Event
    BY <2>2, <2>4, SightingTyped DEF Event
  <2>6. e \notin DOMAIN c.events
    BY <1>1, <2>5, NextIdIsNew
  <2>7. e \notin DOMAIN a
    BY <2>6 DEF Recorded
  <2>8. /\ DOMAIN d = Fields /\ SameMappings(c, d)
        /\ d.competitions = c.competitions /\ d.teams = c.teams
        /\ d.events = Put(c.events, e, row)
    BY <1>1 DEF SameMappings, Fields, Mappings
  <2>9. row.home = home /\ row.away = away /\ row.competition = k /\ row.start = s.start
    OBVIOUS
  <2> HIDE DEF e, row, d
  <2>10. /\ DOMAIN d.events = DOMAIN c.events \cup {e} /\ d.events[e] = row
         /\ \A x \in DOMAIN c.events \ {e} : d.events[x] = c.events[x]
    BY <2>8 DEF Put
  <2>11. EventIs(d, e, s)
    BY <2>8, <2>9, <2>10 DEF EventIs, InLeague, Bears, Is
  <2>12. \A x \in DOMAIN d.events \ {e} :
           x \in DOMAIN c.events /\ SameParts(c, d, x) /\ d.events[x].start = c.events[x].start
    BY <2>10 DEF SameParts
  <2>13. Truthful(g) /\ Recorded(g, Used(a, e, s))
    BY <2>7, <2>8, <2>9, <2>10, <2>11, <2>12, FixtureTold
  <2>14. f = g
    BY <2>1
  <2> HIDE DEF f, g, r
  <2>15. Truthful(f) /\ Recorded(f, Used(a, r.id, s))
    BY <2>1, <2>13, <2>14
  <2>16. QED BY <2>15 DEF f, r
<1>4. QED BY <1>2, <1>3

LEMMA SidesTold ==
  ASSUME LeaguesAreCurated(Sighting), FixturesAreCurated(Sighting),
         NEW s \in Sighting, NEW comp, NEW home, NEW away, NEW a,
         Sane(away.cat), Truthful(away.cat), Recorded(away.cat, a),
         InLeague(away.cat, comp.id, s), Is(away.cat, home.id, s.home),
         Is(away.cat, away.id, s.away)
  PROVE  Tells(FixtureOfSides(s, comp, home, away), a, s)
<1> DEFINE event == ResolveEvent(away.cat, s, comp.id, home.id, away.id)
           trust == IF {home.trust, away.trust, comp.trust} = {"VERIFIED"}
                    THEN "VERIFIED" ELSE "UNVERIFIED"
           d == [event.cat EXCEPT !.eventIds = SaveEventIdIfAny(@, s, event.id, trust)]
           r == FixtureOfSides(s, comp, home, away)
<1>1. r.id = event.id /\ r.cat = d
  BY DEF FixtureOfSides
<1>2. Truthful(d) /\ Recorded(d, Used(a, event.id, s))
  BY EventTold
<1> HIDE DEF r, d, event
<1>3. Tells(r, a, s)
  BY <1>1, <1>2 DEF Tells
<1>4. QED BY <1>3 DEF r

LEMMA PartsTold ==
  ASSUME Curated(Sighting), NEW s \in Sighting, NEW comp, NEW a, Sane(comp.cat),
         Truthful(comp.cat), Recorded(comp.cat, a), InLeague(comp.cat, comp.id, s), NEW last
  PROVE  Tells(FixtureIn(s, comp, last), a, s)
<1> DEFINE found == ByContext(comp.cat, s, comp)
           e == CHOOSE x \in found : TRUE
           home == ResolveTeam(comp.cat, s.provider, s.home, comp.id, s.homeId, last)
           away == ResolveTeam(home.cat, s.provider, s.away, comp.id, s.awayId, last)
<1>1. NamesAreCurated /\ LeaguesAreCurated(Sighting) /\ FixturesAreCurated(Sighting)
  BY DEF Curated
<1>2. CASE found # {}
  <2>1. FixtureIn(s, comp, last) = FixtureInContext(comp.cat, s, e)
    BY <1>2 DEF FixtureIn
  <2>2. e \in found
    BY <1>2
  <2>3. EventIs(comp.cat, e, s) /\ a[e] = {s.fixture}
    <3> HIDE DEF e
    <3>1. QED BY <2>2, ContextTrue
  <2>4. e \in DOMAIN comp.cat.events
    BY <2>2 DEF ByContext
  <2> HIDE DEF e
  <2>5. Tells(FixtureInContext(comp.cat, s, e), a, s)
    BY <1>1, <2>3, <2>4, FixtureOfEventTold
  <2>6. QED BY <2>1, <2>5
<1>3. CASE found = {}
  <2>1. FixtureIn(s, comp, last) = FixtureOfSides(s, comp, home, away)
    BY <1>3 DEF FixtureIn, FixtureOfHome
  <2>2. <<s.homeId, s.home>> \in Sides(s) /\ <<s.awayId, s.away>> \in Sides(s)
    BY DEF Sides
  <2>3. comp.id \in DOMAIN comp.cat.competitions
    BY DEF InLeague
  <2>4. Follows(comp.cat, home.cat) /\ Is(home.cat, home.id, s.home)
    BY <1>1, <2>2, <2>3, TeamResolved
  <2> HIDE DEF home
  <2>5. /\ Sane(home.cat) /\ Truthful(home.cat) /\ InLeague(home.cat, comp.id, s)
        /\ comp.id \in DOMAIN home.cat.competitions
    BY <2>4, FollowsSane DEF Follows, Keeps, InLeague
  <2>6. Follows(home.cat, away.cat) /\ Is(away.cat, away.id, s.away)
    BY <1>1, <2>2, <2>5, TeamResolved
  <2> HIDE DEF away
  <2>7. /\ Sane(away.cat) /\ Truthful(away.cat) /\ InLeague(away.cat, comp.id, s)
        /\ Is(away.cat, home.id, s.home)
    BY <2>4, <2>5, <2>6, FollowsSane DEF Follows, Keeps
  <2>8. Recorded(away.cat, a)
    BY <2>4, <2>6, RecordedOn
  <2>9. Tells(FixtureOfSides(s, comp, home, away), a, s)
    BY <1>1, <2>6, <2>7, <2>8, SidesTold
  <2>10. QED BY <2>1, <2>9
<1>4. QED BY <1>2, <1>3

LEMMA MatchTold ==
  ASSUME Curated(Sighting), NEW c, NEW a, Sane(c), Truthful(c), Recorded(c, a),
         NEW s \in Sighting, NEW last
  PROVE  Tells(Match(c, s, last), a, s)
<1> DEFINE key   == <<s.provider, s.eventId>>
           e     == c.eventIds[key].to
           tried == s.eventId # None /\ key \in DOMAIN c.eventIds
                      /\ c.eventIds[key].trust = "VERIFIED"
           c1 == IF tried THEN [c EXCEPT !.eventIds = MarkSuspect(@, key)] ELSE c
           comp == ResolveCompetition(c1, s)
<1>1. \/ /\ tried /\ Compatible(c, s, c.eventIds[key])
         /\ Match(c, s, last) = KnownFixture(c, s, e)
      \/ Match(c, s, last) = FixtureIn(s, comp, last)
  BY DEF Match
<1>2. Mapped(c) /\ DOMAIN c = Fields /\ Entities(c)
  BY DEF Sane
<1>3. NamesAreCurated /\ LeaguesAreCurated(Sighting) /\ FixturesAreCurated(Sighting)
      /\ FixtureIdsAreCurated(Sighting)
  BY DEF Curated
<1>4. ASSUME tried, Compatible(c, s, c.eventIds[key])
      PROVE  Tells(KnownFixture(c, s, e), a, s)
  <2>1. e \in DOMAIN c.events /\ EventIs(c, e, s) /\ a[e] = {s.fixture}
    BY <1>3, <1>4, IdShows
  <2> HIDE DEF e
  <2>2. QED BY <1>3, <1>4, <2>1, FixtureOfEventTold
<1>5. Sane(c1) /\ Truthful(c1) /\ Recorded(c1, a)
  <2>1. CASE ~ tried
    BY <2>1
  <2>2. CASE tried
    <3> DEFINE ids == MarkSuspect(c.eventIds, key)
               d == [c EXCEPT !.eventIds = MarkSuspect(@, key)]
    <3>1. Leads(ids, DOMAIN c.events)
      BY <1>2, <2>2, MarkTyped DEF Mapped
    <3>2. /\ DOMAIN d = Fields /\ d.ok = c.ok /\ d.competitions = c.competitions
          /\ d.teams = c.teams /\ d.events = c.events /\ d.plays = c.plays
          /\ d.teamNames = c.teamNames /\ d.teamIds = c.teamIds /\ d.eventIds = ids
          /\ d.leagueNames = c.leagueNames /\ d.leagueIds = c.leagueIds
      BY <1>2 DEF Fields, Mappings
    <3>3. /\ DOMAIN ids = DOMAIN c.eventIds /\ ids[key].trust = "SUSPECT"
          /\ \A x \in DOMAIN ids \ {key} : ids[x] = c.eventIds[x]
      BY <1>2, <2>2 DEF MarkSuspect, Mapped, Leads, Rows
    <3> HIDE DEF ids, d
    <3>4. Mapped(d)
      BY <1>2, <3>1, <3>2 DEF Mapped
    <3>5. Sane(d)
      BY <1>2, <3>2, <3>4, MappingsReach DEF Entities, Reaches
    <3>6. Keeps(c, d)
      BY <3>2 DEF Keeps, InLeague, Bears, Is
    <3>7. Truthful(d)
      BY <3>2, <3>6, StillTrue DEF Truthful, Borne, Bears
    <3>8. EventsRecorded(d, a)
      BY <3>2, <3>6 DEF Recorded, EventsRecorded, EventIs, Keeps
    <3>9. FixturesRecorded(ids, a)
      BY <3>3 DEF Recorded, FixturesRecorded
    <3>10. Recorded(d, a)
      BY <3>2, <3>8, <3>9 DEF Recorded
    <3>11. QED BY <2>2, <3>5, <3>7, <3>10 DEF d
  <2>3. QED BY <2>1, <2>2
<1> HIDE DEF c1
<1>6. Follows(c1, comp.cat) /\ InLeague(comp.cat, comp.id, s)
  BY <1>3, <1>5, CompetitionResolved
<1> HIDE DEF comp
<1>7. Sane(comp.cat) /\ Truthful(comp.cat) /\ Recorded(comp.cat, a)
  BY <1>5, <1>6, FollowsSane, RecordedOn
<1>8. Tells(FixtureIn(s, comp, last), a, s)
  BY <1>6, <1>7, PartsTold
<1>9. QED BY <1>1, <1>4, <1>8

-----------------------------------------------------------------------------
(* Until a reviewer interferes, the tables tell the truth.                 *)
Faithful == WellFormed /\ (reviews = 0 => Truthful(cat) /\ Recorded(cat, about))

LEMMA FaithfulInit == Init => Faithful
<1> SUFFICES ASSUME Init PROVE Faithful
  OBVIOUS
<1>1. /\ cat.competitions = NoRows /\ cat.events = NoRows /\ about = NoRows
      /\ cat.teamNames = NoRows /\ cat.teamIds = NoRows /\ cat.eventIds = NoRows
      /\ cat.leagueNames = NoRows /\ cat.leagueIds = NoRows
  BY DEF Init
<1>2. DOMAIN NoRows = {}
  BY DEF NoRows
<1>3. Truthful(cat)
  BY <1>1, <1>2 DEF Truthful, Borne, TrueLeagueNames, TrueLeagueIds, TrueTeamNames, TrueTeamIds
<1>4. Recorded(cat, about)
  BY <1>1, <1>2 DEF Recorded, EventsRecorded, FixturesRecorded
<1>5. QED BY <1>3, <1>4, WellFormedInit DEF Faithful

LEMMA FaithfulNext == ASSUME Curated(Sighting) PROVE Faithful /\ [Next]_vars => Faithful'
<1> SUFFICES ASSUME Faithful, [Next]_vars PROVE Faithful'
  OBVIOUS
<1>1. WellFormed'
  BY WellFormedNext DEF Faithful
<1>2. ASSUME NEW s \in Sighting, NEW last, Ingest(s, last) PROVE Faithful'
  <2> DEFINE r == Match(cat, s, last)
  <2>1. /\ reviews' = reviews
        /\ \/ cat' = r.cat /\ about' = Used(about, r.id, s)
           \/ UNCHANGED <<cat, about>>
    BY <1>2 DEF Ingest, Used
  <2>2. reviews = 0 => Tells(r, about, s)
    BY MatchTold DEF Faithful, WellFormed
  <2> HIDE DEF r
  <2>3. QED BY <1>1, <2>1, <2>2 DEF Faithful, Tells
<1>3. ASSUME NEW s \in Reviewed, Review(s) PROVE Faithful'
  <2>1. reviews' = reviews + 1 /\ reviews \in 0 .. MaxReviews
    <3>1. s \in Sighting
      BY CatalogAssumption
    <3>2. QED BY <1>3, <3>1, ReviewReaches DEF Faithful, WellFormed
  <2>2. QED BY <1>1, <2>1, CatalogAssumption DEF Faithful
<1>4. CASE UNCHANGED vars
  BY <1>1, <1>4 DEF Faithful, vars
<1>5. QED BY <1>2, <1>3, <1>4 DEF Next

(* If what the providers report is curated, no two real fixtures share an  *)
(* event, in whatever order they are reported, until a reviewer interferes.*)
THEOREM FixturesKeepApart == ASSUME Curated(Sighting) PROVE Spec => []OneFixtureEach
<1>1. Spec => []Faithful
  BY FaithfulInit, FaithfulNext, PTL DEF Spec
<1>2. Faithful => OneFixtureEach
  <2> SUFFICES ASSUME Faithful, reviews = 0, NEW e \in DOMAIN about
               PROVE  Cardinality(about[e]) = 1
    BY DEF OneFixtureEach
  <2>1. PICK u \in Sighting : about[e] = {u.fixture}
    BY DEF Faithful, Recorded, EventsRecorded
  <2>2. QED BY <2>1, FS_Singleton
<1>3. QED BY <1>1, <1>2, PTL
=============================================================================
