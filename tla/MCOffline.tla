-------------------------------- MODULE MCOffline --------------------------------
(***************************************************************************)
(* Small instances of the offline queue for TLC.                           *)
(***************************************************************************)
EXTENDS OfflineQueue, TLC

CONSTANTS x, y, z, v, w, k1, k2, k3, k4, k5, k6, phone, laptop, s1, s2

Act(type, of, key) == [type |-> type, of |-> of, key |-> key, changes |-> "good"]
Bad(type, of, key, changes) == [type |-> type, of |-> of, key |-> key, changes |-> changes]

\* A bookmark and its removal, one that names no job, an application, an edit of an entry and one
\* that its entity refuses.
OneOfEach == {Act("SAVE_JOB", x, k1), Act("UNSAVE_JOB", x, k2), Act("SAVE_JOB", Nothing, k3),
              Act("SUBMIT_APPLICATION", y, k4), Act("UPDATE_EXPERIENCE", w, k5), Bad("UPDATE_EXPERIENCE", w, k6, "unfit")}
\* Actions that can be refused, two of them under the same key.
Mixed == {Act("SUBMIT_APPLICATION", y, k1), Act("DISMISS_RECOMMENDATION", x, k2), Act("UPDATE_PROFILE", Profile, k2)}

Symmetry == Permutations(Device) \cup Permutations(Slot)
=============================================================================
