------------------------------ MODULE QueryPlan ------------------------------
(***************************************************************************)
(* Which listings a saved search asks for (matching.py), which query the   *)
(* planners send to the source on behalf of several searches of one city   *)
(* or of one search (sources/planner.py), and what a source that applies   *)
(* the query's filters shows (the Zillow URL of sources/zillow.py).  Pure  *)
(* data: searches, queries and listings are records with the fields of     *)
(* the code; texts are compared after normalization, baths are counted in  *)
(* any unit.  The query's window of days on the market and its limit of    *)
(* results, which leave out listings of every search alike, are not here.  *)
(***************************************************************************)
EXTENDS Integers

CONSTANT None      \* an optional field that is not set

PropertyTypes ==
  {"apartment", "studio", "room", "condo", "townhouse", "house", "single_family",
   "multi_family", "manufactured", "land", "other"}

\* property_type_group
Group(t) ==
  CASE t \in {"studio", "room"} -> "apartment"
    [] t = "house" -> "single_family"
    [] OTHER -> t

\* _ZILLOW_FILTERABLE_GROUPS, the groups the source has a filter for.
Filterable ==
  {"apartment", "condo", "townhouse", "single_family", "multi_family", "manufactured", "land"}

Groups(s) == {Group(t) : t \in s.property_types}

\* _zillow_types
Types(s) == Groups(s) \cap Filterable

\* Optional bounds hold nothing against a listing.
Within(n, low, high) ==
  n # None => (low # None => low <= n) /\ (high # None => n <= high)

\* matches_search
Matches(l, s) ==
  /\ l.city = s.city
  /\ s.state # None => l.state = s.state
  /\ s.district # None => s.district = IF l.district # None THEN l.district ELSE l.city
  /\ s.price_min <= l.price /\ l.price <= s.price_max
  /\ Group(l.property_type) \in Groups(s)
  /\ s.bed_min <= l.beds /\ l.beds <= s.bed_max
  /\ s.bath_min <= l.baths /\ l.baths <= s.bath_max
  /\ Within(l.sqft, s.sqft_min, s.sqft_max)
  /\ s.required_features \subseteq l.features
  /\ s.excluded_features \cap l.features = {}
-----------------------------------------------------------------------------
(* The planners. *)

IsLeast(n, ns) == n \in ns /\ \A m \in ns : n <= m
IsGreatest(n, ns) == n \in ns /\ \A m \in ns : m <= n

\* _group_by_city: the active searches of one city that can be planned at all.
InCity(S, city, state) == {s \in S : s.state # None /\ s.city = city /\ s.state = state}

\* _envelope_query.  The incremental planner's _zillow_query is the envelope of
\* one search.
IsEnvelope(q, S) ==
  /\ IsLeast(q.price_min, {s.price_min : s \in S})
  /\ IsGreatest(q.price_max, {s.price_max : s \in S})
  /\ IsLeast(q.beds_min, {s.bed_min : s \in S})
  /\ IsGreatest(q.beds_max, {s.bed_max : s \in S})
  /\ IsLeast(q.baths_min, {s.bath_min : s \in S})
  /\ q.property_types = UNION {Types(s) : s \in S}

\* The filters of rental_search_url, as a source that honours them applies them:
\* with a type selected, every group that is not selected is switched off.
Shows(q, l) ==
  /\ q.price_min <= l.price /\ l.price <= q.price_max
  /\ q.beds_min <= l.beds /\ l.beds <= q.beds_max
  /\ q.baths_min <= l.baths
  /\ q.property_types # {} => Group(l.property_type) \in q.property_types

\* Searches and listings have whole numbers where they are compared.
HasNumbers(s) == {s.price_min, s.price_max, s.bed_min, s.bed_max, s.bath_min, s.bath_max} \subseteq Int
IsListing(l) == {l.price, l.beds, l.baths} \subseteq Int /\ l.property_type \in PropertyTypes
=============================================================================
