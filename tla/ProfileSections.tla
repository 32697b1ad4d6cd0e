------------------------------ MODULE ProfileSections ------------------------------
(***************************************************************************)
(* A profile and the rows under it: experiences and educations, skills with their  *)
(* endorsements, and the subscription tier.  Each edit reads the whole row, decides  *)
(* and later writes the whole row; a deletion marks the row and keeps it.            *)
(*                                                                           *)
(* An edit names the version its client saw (updatedAt, to the millisecond).  A      *)
(* skill keeps its row, and its place in the unique index on user and skill, after   *)
(* it is removed.                                                                  *)
(*                                                                           *)
(* An operator named after another with a suffix, as SavePiece_Reviving, is a        *)
(* mutated form of it that no action uses.                                         *)
(***************************************************************************)
EXTENDS Naturals, FiniteSets

CONSTANTS
  Piece,       \* experiences and educations
  Skill,       \* skills of the shared catalogue
  Editing,     \* requests in progress
  LastMoment,  \* clock readings are 0..LastMoment
  MaxWritings, \* texts and endorsements written at most
  MaxRevisions \* saves of the profile at most

ASSUME SectionsAssumption ==
  LastMoment \in Nat /\ MaxWritings \in Nat /\ MaxRevisions \in Nat /\ Piece \cap Skill = {}

VARIABLES
  moment,      \* the clock, in the milliseconds versions are told apart by
  piece,       \* rows of experiences and educations
  skillRow,    \* rows of user_skills
  subscriber,  \* the row of the user: address and tier
  editing,     \* each request: what it is about and what it has read
  writings,    \* texts and endorsements written
  removedRows, \* pieces and skills that were deleted
  endorsed,    \* endorsements answered
  blind,       \* pieces on which an edit replaced a text its client had not seen
  tangledRows, \* rows that requests in progress at once, or one millisecond, wrote
  restored,    \* a tier was changed while the account was being deleted
  facts,       \* the row of the profile
  revision,    \* each request about the profile: what it asks for and the profile it read
  answered,    \* what the last answer about each part of the profile said
  crossed      \* parts written back by a request that read them before another saved

sectionVars == <<moment, piece, skillRow, subscriber, editing, writings, removedRows, endorsed,
                 blind, tangledRows, restored>>

NoPiece == [held |-> FALSE, deleted |-> FALSE, version |-> 0, text |-> 0]
NoSkill == [held |-> FALSE, deleted |-> FALSE, count |-> 0]
NoEditing == [pc |-> "idle"]
LivePiece(p) == piece[p].held /\ ~ piece[p].deleted
LiveSkill(k) == skillRow[k].held /\ ~ skillRow[k].deleted
OtherOn(e, pc, on) == \E d \in Editing \ {e} : editing[d].pc = pc /\ editing[d].on = on
Leave(e) == editing' = [editing EXCEPT ![e] = NoEditing]

PassMoment ==
  /\ moment < LastMoment /\ moment' = moment + 1
  /\ UNCHANGED <<piece, skillRow, subscriber, editing, writings, removedRows, endorsed, blind, tangledRows, restored>>

-----------------------------------------------------------------------------
(* Experiences and educations. *)

\* addExperience, addEducation: the entity validates, the row is new.
AddPiece(p) ==
  /\ ~ piece[p].held /\ writings < MaxWritings
  /\ piece' = [piece EXCEPT ![p] = [held |-> TRUE, deleted |-> FALSE, version |-> moment, text |-> writings + 1]]
  /\ writings' = writings + 1
  /\ UNCHANGED <<moment, skillRow, subscriber, editing, removedRows, endorsed, blind, tangledRows, restored>>

\* The client reads the row it will edit.
ShowPiece(e, p) ==
  /\ editing[e] = NoEditing /\ LivePiece(p)
  /\ editing' = [editing EXCEPT ![e] = [pc |-> "shown", on |-> p, version |-> piece[p].version, text |-> piece[p].text]]
  /\ UNCHANGED <<moment, piece, skillRow, subscriber, writings, removedRows, endorsed, blind, tangledRows, restored>>

\* assertVersionMatches: the row must be there and still be the version the client saw.
VersionMatches_Always(e) == LivePiece(editing[e].on)
VersionMatches(e) == LivePiece(editing[e].on) /\ piece[editing[e].on].version = editing[e].version

AskEdit(e) ==
  /\ editing[e].pc = "shown"
  /\ IF VersionMatches(e)
     THEN /\ editing' = [editing EXCEPT ![e].pc = "save"]
          /\ tangledRows' = IF OtherOn(e, "save", editing[e].on) THEN tangledRows \cup {editing[e].on} ELSE tangledRows
     ELSE Leave(e) /\ UNCHANGED tangledRows
  /\ UNCHANGED <<moment, piece, skillRow, subscriber, writings, removedRows, endorsed, blind, restored>>

\* The upsert writes every field but the mark of deletion.
SavePiece_Reviving(e, p) ==
  [piece EXCEPT ![p].text = writings + 1, ![p].version = moment, ![p].deleted = FALSE]
SavePiece(e, p) == [piece EXCEPT ![p].text = writings + 1, ![p].version = moment]

WritePiece(e) ==
  LET p == editing[e].on IN
  /\ editing[e].pc = "save" /\ writings < MaxWritings
  /\ piece' = SavePiece(e, p)
  /\ writings' = writings + 1
  /\ blind' = IF piece[p].text # editing[e].text THEN blind \cup {p} ELSE blind
  /\ tangledRows' = IF piece[p].version = moment THEN tangledRows \cup {p} ELSE tangledRows
  /\ Leave(e)
  /\ UNCHANGED <<moment, skillRow, subscriber, removedRows, endorsed, restored>>

\* deleteExperience, deleteEducation: by id, in one statement.
DeletePiece(p) ==
  /\ LivePiece(p)
  /\ piece' = [piece EXCEPT ![p].deleted = TRUE, ![p].version = moment]
  /\ removedRows' = removedRows \cup {p}
  /\ UNCHANGED <<moment, skillRow, subscriber, editing, writings, endorsed, blind, tangledRows, restored>>

-----------------------------------------------------------------------------
(* Skills. *)

\* addSkill inserts a new row; the index refuses a skill that has one, removed or not.
AddSkill(k) ==
  /\ ~ skillRow[k].held
  /\ skillRow' = [skillRow EXCEPT ![k].held = TRUE]
  /\ UNCHANGED <<moment, piece, subscriber, editing, writings, removedRows, endorsed, blind, tangledRows, restored>>

\* removeSkill and endorseSkill read a row that is not removed.
FindByUserAndSkill(e, k, pc) ==
  /\ editing[e] = NoEditing /\ LiveSkill(k)
  /\ editing' = [editing EXCEPT ![e] = [pc |-> pc, on |-> k, count |-> skillRow[k].count]]
  /\ tangledRows' = IF pc = "endorse" /\ OtherOn(e, "endorse", k) THEN tangledRows \cup {k} ELSE tangledRows
  /\ UNCHANGED <<moment, piece, skillRow, subscriber, writings, removedRows, endorsed, blind, restored>>

\* endorse adds one to the count that was read, and the whole row is saved.
SaveEndorsement_Reviving(e) ==
  [skillRow EXCEPT ![editing[e].on].count = editing[e].count + 1, ![editing[e].on].deleted = FALSE]
SaveEndorsement(e) == [skillRow EXCEPT ![editing[e].on].count = editing[e].count + 1]

EndorseSkill(e) ==
  /\ editing[e].pc = "endorse" /\ writings < MaxWritings
  /\ skillRow' = SaveEndorsement(e)
  /\ endorsed' = [endorsed EXCEPT ![editing[e].on] = @ + 1]
  /\ writings' = writings + 1
  /\ Leave(e)
  /\ UNCHANGED <<moment, piece, subscriber, removedRows, blind, tangledRows, restored>>

RemoveSkill(e) ==
  /\ editing[e].pc = "remove"
  /\ skillRow' = [skillRow EXCEPT ![editing[e].on].deleted = TRUE]
  /\ removedRows' = removedRows \cup {editing[e].on}
  /\ Leave(e)
  /\ UNCHANGED <<moment, piece, subscriber, writings, endorsed, blind, tangledRows, restored>>

-----------------------------------------------------------------------------
(* The tier. *)

\* upgradeSubscription loads the user, address and role with it, deleted or not.
AskTier(e) ==
  /\ editing[e] = NoEditing
  /\ editing' = [editing EXCEPT ![e] = [pc |-> "tier", on |-> "user", address |-> subscriber.address]]
  /\ UNCHANGED <<moment, piece, skillRow, subscriber, writings, removedRows, endorsed, blind, tangledRows, restored>>

\* The save writes back the address that was loaded.
SaveTier(e, tier) ==
  /\ editing[e].pc = "tier"
  /\ subscriber' = [subscriber EXCEPT !.tier = tier, !.address = editing[e].address]
  /\ Leave(e)
  /\ UNCHANGED <<moment, piece, skillRow, writings, removedRows, endorsed, blind, tangledRows, restored>>

\* AdminUserRepository.softDelete: the address goes to deletedEmail and a tombstone takes its place.
SoftDeleteSubscriber_KeepingAddress ==
  /\ ~ subscriber.deleted
  /\ subscriber' = [subscriber EXCEPT !.deleted = TRUE]
  /\ restored' = \E e \in Editing : editing[e].pc = "tier"
  /\ UNCHANGED <<moment, piece, skillRow, editing, writings, removedRows, endorsed, blind, tangledRows>>
SoftDeleteSubscriber ==
  /\ ~ subscriber.deleted
  /\ subscriber' = [subscriber EXCEPT !.deleted = TRUE, !.address = "tombstone"]
  /\ restored' = \E e \in Editing : editing[e].pc = "tier"
  /\ UNCHANGED <<moment, piece, skillRow, editing, writings, removedRows, endorsed, blind, tangledRows>>

-----------------------------------------------------------------------------

SectionsInit ==
  /\ moment = 0
  /\ piece = [p \in Piece |-> NoPiece]
  /\ skillRow = [k \in Skill |-> NoSkill]
  /\ subscriber = [address |-> "own", tier |-> "FREE", deleted |-> FALSE]
  /\ editing = [e \in Editing |-> NoEditing]
  /\ writings = 0 /\ removedRows = {} /\ endorsed = [k \in Skill |-> 0]
  /\ blind = {} /\ tangledRows = {} /\ restored = FALSE

SectionsNext ==
  \/ PassMoment
  \/ \E p \in Piece : AddPiece(p) \/ DeletePiece(p)
  \/ \E e \in Editing, p \in Piece : ShowPiece(e, p)
  \/ \E k \in Skill : AddSkill(k)
  \/ \E e \in Editing, k \in Skill, pc \in {"endorse", "remove"} : FindByUserAndSkill(e, k, pc)
  \/ \E e \in Editing : AskEdit(e) \/ WritePiece(e) \/ EndorseSkill(e) \/ RemoveSkill(e) \/ AskTier(e)
  \/ \E e \in Editing, tier \in {"FREE", "PREMIUM"} : SaveTier(e, tier)
  \/ SoftDeleteSubscriber

-----------------------------------------------------------------------------
(* The profile itself: name, place, preferences and the range of salaries, each a number. *)

profileVars == <<facts, revision, answered, crossed>>
Unstated == 0
NoRevision == [pc |-> "idle"]
ProfileParts == {"name", "place", "prefs", "range"}
EmptyRow == [version |-> 0, name |-> Unstated, city |-> Unstated, country |-> Unstated, prefs |-> Unstated,
             min |-> Unstated, max |-> Unstated]

\* A place has a city and a country, a range both its ends: the entity has the two or neither.
Both(one, other) == IF one # Unstated /\ other # Unstated THEN {<<one, other>>} ELSE {}
SoundRange(min, max) == min # Unstated /\ max # Unstated /\ min <= max
MapToDomain(row) ==
  [name |-> row.name, prefs |-> row.prefs, place |-> Both(row.city, row.country), range |-> Both(row.min, row.max)]

Side(pair, k) == IF pair = {} THEN Unstated ELSE (CHOOSE p \in pair : TRUE)[k]
ToRow(profile, version) ==
  [version |-> version, name |-> profile.name, prefs |-> profile.prefs, min |-> Side(profile.range, 1),
   max |-> Side(profile.range, 2), city |-> Side(profile.place, 1), country |-> Side(profile.place, 2)]

\* What each kind of request may name.  Only a creation may name the range beside the rest.
CreateProfileDto(n) ==
  {d \in [name : {n}, city : {Unstated, n}, country : {Unstated, n}, min : {Unstated, n, n + 1}, max : {Unstated, n}] :
     d.city = d.country}
UpdateProfileDto(n) == [name : {Unstated, n}, place : {{}, {<<n, n>>}}]

SaveProfile(profile, named) ==
  /\ facts' = ToRow(profile, facts.version + 1)
  /\ answered' = [f \in ProfileParts |-> IF f \in named THEN profile[f] ELSE answered[f]]

\* A range given by one end is dropped, one that is upside down refused, as is a second profile.
CreateProfile(d) ==
  /\ facts = EmptyRow
  /\ Both(d.min, d.max) # {} => SoundRange(d.min, d.max)
  /\ SaveProfile([name |-> d.name, prefs |-> Unstated, place |-> Both(d.city, d.country), range |-> Both(d.min, d.max)],
                  ProfileParts)
  /\ UNCHANGED <<revision, crossed>>

\* The profile as the request read it, with what it names.
UpdateProfile_FromTheRequest(profile, d) ==
  [profile EXCEPT !.name = IF d.name = Unstated THEN @ ELSE d.name, !.place = d.place]
UpdateProfile(profile, d) ==
  [profile EXCEPT !.name = IF d.name = Unstated THEN @ ELSE d.name, !.place = IF d.place = {} THEN @ ELSE d.place]

Reads(e, changed, named) ==
  /\ facts # EmptyRow /\ facts.version < MaxRevisions /\ revision[e] = NoRevision
  /\ revision' = [revision EXCEPT ![e] = [pc |-> "save", profile |-> changed, named |-> named, version |-> facts.version]]
  /\ UNCHANGED <<facts, answered, crossed>>

\* A client that saw another version is refused here; the saves of one millisecond are with the
\* pieces above.
AskUpdate(e, d) ==
  Reads(e, UpdateProfile(MapToDomain(facts), d),
        (IF d.name = Unstated THEN {} ELSE {"name"}) \cup (IF d.place = {} THEN {} ELSE {"place"}))

\* These two name no version.
UpdateWorkPreferences(e, n) == Reads(e, [MapToDomain(facts) EXCEPT !.prefs = n], {"prefs"})
UpdateSalaryExpectations(e, min, max) ==
  /\ min # Unstated /\ max # Unstated /\ min < max
  /\ Reads(e, [MapToDomain(facts) EXCEPT !.range = {<<min, max>>}], {"range"})

WriteProfile(e) ==
  LET r == revision[e] IN
  /\ r.pc = "save"
  /\ SaveProfile(r.profile, r.named)
  /\ crossed' = (crossed \ r.named) \cup IF r.version = facts.version THEN {} ELSE ProfileParts \ r.named
  /\ revision' = [revision EXCEPT ![e] = NoRevision]

ProfileInit ==
  /\ facts = EmptyRow /\ revision = [e \in Editing |-> NoRevision] /\ crossed = {}
  /\ answered = MapToDomain(EmptyRow)

ProfileNext ==
  LET n == facts.version + 1 IN
  \/ \E d \in CreateProfileDto(n) : CreateProfile(d)
  \/ \E e \in Editing :
       \/ \E d \in UpdateProfileDto(n) : AskUpdate(e, d)
       \/ UpdateWorkPreferences(e, n)
       \/ \E min, max \in {Unstated, n, n + 1} : UpdateSalaryExpectations(e, min, max)
       \/ WriteProfile(e)

-----------------------------------------------------------------------------
(* Properties. *)

\* What the user was last told a part of the profile is, it is: a request that names other parts
\* leaves it alone, but for one that read the row before another saved.  No row has half a place
\* or half a range, which would be lost when it is next read.
ProfileIsAsAnswered ==
  /\ \A f \in ProfileParts \ crossed : MapToDomain(facts)[f] = answered[f]
  /\ (facts.city = Unstated) = (facts.country = Unstated)
  /\ {facts.min, facts.max} = {Unstated} \/ SoundRange(facts.min, facts.max)

\* An edit replaces only the text its client saw, but for two edits in progress at once or two
\* versions of one millisecond.
EditsSeeWhatTheyReplace == blind \subseteq tangledRows

\* What was deleted stays deleted through the whole-row saves of requests that read it before.
RowsStayRemoved ==
  /\ \A p \in Piece \cap removedRows : piece[p].deleted
  /\ \A k \in Skill \cap removedRows : skillRow[k].deleted

\* Every endorsement answered is in the count, but where two read it at once; none is invented.
EndorsementsAreCounted ==
  \A k \in Skill : skillRow[k].count <= endorsed[k] /\ (k \notin tangledRows => skillRow[k].count = endorsed[k])

\* A deleted account gives its address up, but for a tier saved from a row read before.
AddressIsReleased == subscriber.deleted /\ ~ restored => subscriber.address = "tombstone"

SectionsAreKept == EditsSeeWhatTheyReplace /\ RowsStayRemoved /\ EndorsementsAreCounted /\ AddressIsReleased
=============================================================================
