--------------------------- MODULE MCFixtureCatalog ---------------------------
(* Fixtures: 1, arsenal - chelsea in England; 2, another arsenal - zenit   *)
(* in Russia, in leagues of the same name at the same time; 3, leeds -     *)
(* fulham in an English cup; 4 and 5, two further matches of 1's clubs.    *)
EXTENDS FixtureCatalog

Clubs == {"arsenal", "the gunners", "fc chelsea", "chelsea fc", "zenit", "leeds", "fulham"}
Names == Clubs \cup {"premier", "cup"}

Aliases == [n \in {"the gunners"} |-> "arsenal"]
\* 100 for the words of a name in another order
Ratios == [x \in Names \X Names |->
             IF x \in {<<"fc chelsea", "chelsea fc">>, <<"chelsea fc", "fc chelsea">>} THEN 100 ELSE 20]

CalledBy == [n \in Names |-> CASE n \in {"arsenal", "the gunners"} -> "Arsenal"
                             [] n \in {"fc chelsea", "chelsea fc"}   -> "Chelsea"
                             [] OTHER -> n]
LeagueOf == [f \in 1 .. 5 |-> IF f > 3 THEN 1 ELSE f]

NoIds == <<None, None, None, None>>

Report(p, f, league, country, home, away, ids, start) ==
  [provider |-> p, fixture |-> f, league |-> league, country |-> country,
   home |-> home, away |-> away, start |-> start,
   leagueId |-> ids[1], homeId |-> ids[2], awayId |-> ids[3], eventId |-> ids[4]]

Api1 == Report("api", 1, "premier", "England", "arsenal", "fc chelsea", <<"L1", "T1", "T2", "E1">>, 0)
(* The kick-off is moved.                                                  *)
Api1Moved == [Api1 EXCEPT !.start = 3]
(* Other spellings, and a start within the tolerance.                      *)
Bet1 == Report("bet", 1, "premier", "England", "the gunners", "chelsea fc",
               <<None, "T1", "T2", "E1">>, 1)
(* The namesakes abroad.                                                   *)
Bet2 == Report("bet", 2, "premier", "Russia", "arsenal", "zenit", <<None, "T3", "T4", "E2">>, 0)
(* The ids of a fixture and of a team are recycled, and no country given.  *)
Bet3 == Report("bet", 3, "cup", None, "leeds", "fulham", <<None, "T3", "T5", "E2">>, 0)
(* A provider without ids, and one that gives no country either.           *)
Moz1 == Report("moz", 1, "premier", "England", "the gunners", "fc chelsea", NoIds, 0)
Moz3 == Report("moz", 3, "premier", None, "leeds", "fulham", NoIds, 0)

Reports == {Api1, Api1Moved, Bet1, Bet2, Bet3}
Recycled == {Bet3}

(* The sides swapped, at the same time, and another match some days later: *)
(* only these tell it from the first; a provider without ids of its clubs. *)
Bet4 == Report("bet", 4, "premier", "England", "chelsea fc", "the gunners",
               <<None, "T2", "T1", "E2">>, 0)
Api5 == Report("api", 5, "premier", "England", "arsenal", "fc chelsea", <<"L1", "T1", "T2", "E2">>, 6)
Moz5 == Report("moz", 5, "premier", "England", "the gunners", "chelsea fc",
               <<None, None, None, "E2">>, 6)
Season == Reports \cup {Bet4, Api5, Moz5}

(* The theorem about OneFixtureEach asks this of what providers report.    *)
ASSUME ReportsAreCurated == Sighting = Reports => Curated(Sighting)
ASSUME SeasonIsCurated == Curated(Season)

Countryless == {Api1, Bet2, Moz1, Moz3}
=============================================================================
