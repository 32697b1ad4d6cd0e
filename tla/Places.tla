---------------------------------- MODULE Places ----------------------------------
(***************************************************************************)
(* Where a posting or a candidate is: LocationIndex over the table of places,  *)
(* the free text of a posting, the city and country of a profile, and the        *)
(* typeahead that a profile is filled in with.                                  *)
(*                                                                           *)
(* A normalised name is a model value; a text is the sequence of the names       *)
(* between its commas.  A population counts in units of 200,000, what one point   *)
(* of the tie-break stands for.                                                 *)
(***************************************************************************)
EXTENDS Integers, Sequences, FiniteSets, FiniteSetsExt, SequencesExt

CONSTANTS
  Place,        \* the table, in the order it was read: [id, name, keys, country, province, people]
  CountryName,  \* [country -> its normalised name]
  CountryCode,  \* [country -> its two-letter code]
  PlaceName,        \* what a text may be made of
  Typed,        \* [what may be typed into the typeahead -> the names that begin with it]
  MaxPlaceNames  \* names in a text at most

\* A row of locations; a province is what its code and its name are, or nothing for a city state.
Location == [name : STRING, keys : SUBSET STRING, country : DOMAIN CountryName, province : SUBSET STRING, people : Nat]

ASSUME PlacesAssumption ==
  /\ \A k \in DOMAIN Place : Place[k] \in Location /\ Place[k].name \in Place[k].keys
  /\ DOMAIN CountryName = DOMAIN CountryCode /\ IsInjective(CountryName)
  /\ MaxPlaceNames \in Nat

VARIABLES
  table,   \* the index: "loading", "ready", or "none" when the table was empty or out of reach
  wording,    \* the text of a posting
  home     \* what it resolved to

placeVars == <<table, wording, home>>

Unplaced == 0       \* null; a place is its position in the table
Countries == DOMAIN CountryName
NoCountry == "no country"

-----------------------------------------------------------------------------
(* bestCandidate. *)

Admin1Match == 500
IsoCodeMatch == 100
MaxPopulationBonus == 50

\* The rows a part names, in the country when one is authoritative.
Contenders(parts, country) ==
  {c \in (DOMAIN parts) \X (DOMAIN Place) :
     parts[c[1]] \in Place[c[2]].keys /\ (country = NoCountry \/ Place[c[2]].country = country)}

\* Does another part name the province of this row?
ProvinceNamed(parts, c) == \E k \in DOMAIN parts : parts[k] # parts[c[1]] /\ parts[k] \in Place[c[2]].province

Bonus(r) == Min({Place[r].people, MaxPopulationBonus})
ScoreOf_BySize(parts, country, hints, c) == Bonus(c[2])
ScoreOf(parts, country, hints, c) ==
  (IF ProvinceNamed(parts, c) THEN Admin1Match ELSE 0)
  + (IF Place[c[2]].country \in hints THEN IsoCodeMatch ELSE 0)
  + (IF country # NoCountry THEN Admin1Match ELSE 0)
  + Bonus(c[2])

\* The first of the best, parts before rows.
BestCandidate(parts, country, hints) ==
  LET running == Contenders(parts, country)
      score(c) == ScoreOf(parts, country, hints, c)
      first(c, d) == c[1] < d[1] \/ (c[1] = d[1] /\ c[2] <= d[2])
      best == {c \in running : \A d \in running : score(c) >= score(d)}
  IN IF running = {} THEN Unplaced ELSE (CHOOSE c \in best : \A d \in best : first(c, d))[2]

-----------------------------------------------------------------------------
(* Resolution. *)

CountryNamed(name) == IF name \in Range(CountryName) THEN CHOOSE c \in Countries : CountryName[c] = name ELSE NoCountry
CountryCoded(name) == IF name \in Range(CountryCode) THEN CHOOSE c \in Countries : CountryCode[c] = name ELSE NoCountry

\* A spelled-out country decides; a two-letter part only favours the country it may stand for.
ResolveText(parts) ==
  LET named == {k \in DOMAIN parts : CountryNamed(parts[k]) # NoCountry}
      country == IF named = {} THEN NoCountry ELSE CountryNamed(parts[Min(named)])
      hints == {CountryCoded(parts[k]) : k \in DOMAIN parts} \ {NoCountry}
  IN BestCandidate(parts, country, hints)

\* A country not known is no filter: a typo in it does not erase a good city.
ResolveStructured_ByCode(city, country) == BestCandidate(<<city>>, CountryCoded(country), {})
ResolveStructured(city, country) ==
  BestCandidate(<<city>>, IF CountryNamed(country) # NoCountry THEN CountryNamed(country) ELSE CountryCoded(country), {})

\* searchCities: the city being spelled first, then what has another name like it, largest first.
TypedTier(r, typed) == IF Place[r].name = typed THEN 0 ELSE IF Place[r].name \in Typed[typed] THEN 1 ELSE 2
SearchCities(country, typed, limit) ==
  LET hits == {r \in DOMAIN Place : /\ country = NoCountry \/ Place[r].country = country
                                    /\ Place[r].keys \cap Typed[typed] # {}}
      ahead(a, b) == \/ TypedTier(a, typed) < TypedTier(b, typed)
                     \/ TypedTier(a, typed) = TypedTier(b, typed) /\ Place[a].people > Place[b].people
                     \/ TypedTier(a, typed) = TypedTier(b, typed) /\ Place[a].people = Place[b].people /\ a < b
      sorted == SetToSortSeq(hits, ahead)
  IN SubSeq(sorted, 1, Min({limit, Len(sorted)}))

-----------------------------------------------------------------------------
(* The service: the index is built before the first request, or there is none. *)

OnModuleInit ==
  /\ table = "loading" /\ table' \in {"ready", "none"}
  /\ UNCHANGED <<wording, home>>

\* The place of a posting, as scoreJobs and the local retriever look it up: its own text first.
PlacePosting ==
  /\ table \in {"ready", "none"} /\ wording = <<>>
  /\ \E n \in 1..MaxPlaceNames : wording' \in [1..n -> PlaceName]
  /\ home' = IF table = "ready" THEN ResolveText(wording') ELSE Unplaced
  /\ UNCHANGED table

PlacesInit == table = "loading" /\ wording = <<>> /\ home = Unplaced
PlacesNext == OnModuleInit \/ PlacePosting
PlacesSpec == PlacesInit /\ [][PlacesNext]_placeVars

-----------------------------------------------------------------------------
(* Properties. *)

\* A name that stands for a country and for nothing else in the table.
PlainCountry(c) == \A r \in DOMAIN Place : CountryName[c] \notin Place[r].keys \cup Place[r].province

\* "Chicago, IL" is in Illinois: a place whose province the text names is never passed over for a
\* larger one, and a two-letter part that names a province is not taken for a country.
ProvincesDecide ==
  LET said == {c \in Contenders(wording, NoCountry) : ProvinceNamed(wording, c)} IN
  home # Unplaced /\ said # {} /\ (\A k \in DOMAIN wording : CountryNamed(wording[k]) = NoCountry) =>
    \E c \in said : c[2] = home

\* A country spelled out is never left, whatever else the text names.
CountriesAreKept ==
  LET named == {CountryNamed(wording[k]) : k \in DOMAIN wording} \ {NoCountry} IN
  home # Unplaced /\ named # {} => Place[home].country \in named

\* Saying more about where a posting is does not move it: the country of the place it resolved
\* to may be added to its text.
SayingMoreMovesNothing ==
  LET country == Place[home].country IN
  home # Unplaced /\ PlainCountry(country) => ResolveText(Append(wording, CountryName[country])) = home

\* A candidate's form and a posting's text that say the same are the same place: the location
\* score compares the two.
BothSidesAgree ==
  \A city \in PlaceName, c \in Countries :
    PlainCountry(c) /\ CountryNamed(city) = NoCountry /\ CountryCoded(city) = NoCountry =>
      ResolveStructured(city, CountryName[c]) = ResolveText(<<city, CountryName[c]>>)

\* A city picked from the typeahead, stored as its name and its country, comes back as that city
\* or as one of the same name in the same country that has as many people.
PickedCitiesResolve ==
  \A typed \in DOMAIN Typed, c \in Countries \cup {NoCountry} :
    \A r \in Range(SearchCities(c, typed, 10)) :
      LET back == ResolveStructured(Place[r].name, CountryName[Place[r].country]) IN
      /\ back # Unplaced
      /\ Place[back].country = Place[r].country /\ Place[r].name \in Place[back].keys /\ Bonus(back) >= Bonus(r)

PlacesAreFound == ProvincesDecide /\ CountriesAreKept /\ SayingMoreMovesNothing /\ BothSidesAgree /\ PickedCitiesResolve
=============================================================================
