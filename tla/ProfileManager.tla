--------------------------- MODULE ProfileManager ---------------------------
(***************************************************************************)
(* Lookups in ProfileManager::profiles, a vector of Profile pointers that  *)
(* only grows: a profile is identified by its position.                    *)
(***************************************************************************)
EXTENDS Naturals, Sequences, SequencesExt

\* Seeded fault: the last match.
GetLastProfileByName(dir, handle) ==
    SelectLastInSeq(dir, LAMBDA p : p.handle = handle)

\* GetProfileByName: the first match, 0 for nullptr.  It holds profileMutex.
GetProfileByName(dir, handle) ==
    SelectInSeq(dir, LAMBDA p : p.handle = handle)

\* Between two moments no profile is removed or renamed.
Extends(dir, old) ==
    /\ Len(old) <= Len(dir)
    /\ \A i \in 1 .. Len(old) : dir[i].handle = old[i].handle

=============================================================================
