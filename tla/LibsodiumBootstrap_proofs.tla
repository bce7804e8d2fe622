---------------------- MODULE LibsodiumBootstrap_proofs ----------------------
(***************************************************************************)
(* Proofs about LibsodiumBootstrap: its types, that runs one after another *)
(* leave a whole library unless one broke off its unpacking or copying,    *)
(* and that a settled file stays as it is, whoever overlaps or is killed.  *)
(***************************************************************************)
EXTENDS LibsodiumBootstrap, TLAPS

\* Two are at work at once only if that is on record.
Alone == ~overlapped => \A p, q \in Process : Active(p) /\ Active(q) => p = q

\* What is extracted is a library.
MembersHeld == \A p \in Process : at[p] = "extracting" => held[p] \in Library

\* Who is about to write a file has found it absent, and has torn it since.
FreshFiles ==
    ~overlapped => \A p \in Process :
        /\ at[p] \in {"download", "store"} => disk["archive"] = "absent"
        /\ at[p] = "storing" => disk["archive"] = "torn"
        /\ at[p] = "copy" => disk["bin"] = "absent"
        /\ at[p] = "copying" => disk["bin"] = "torn"

\* Only whole archives are extracted; a kill may have left a torn one.
Clean == ~overlapped /\ \A p \in Process : at[p] # "brokenOff"
ArchiveClean ==
    Clean => \A p \in Process : at[p] \in {"extract", "extracting"} => disk["archive"] # "torn"

\* What has been unpacked is whole, and the preferred build is part of it; only where
\* a torn tarball was tried it may not be, and then nobody ever selects from it.
LibrariesClean ==
    Clean =>
        /\ \A p \in Process : at[p] \in {"extract", "extracting"} => todo[p] \subseteq Packed
        /\ \A p \in Process : at[p] = "extract" => \A f \in Packed \ todo[p] : disk[f] = f
        /\ \A p \in Process : at[p] = "extracting" =>
              /\ held[p] \in Packed
              /\ \A f \in Packed \ (todo[p] \cup {held[p]}) : disk[f] = f
        /\ /\ env.windows
           /\ \A p \in Process : at[p] \notin {"extract", "extracting"}
           /\ \E f \in Library : Exists(f)
           => disk["preferred"] = "preferred"
        /\ \A p \in Process : at[p] = "select" => disk["preferred"] = "preferred"

\* The copy is absent, whole, or being written by one that holds the preferred build.
CopyClean ==
    Clean => /\ disk["bin"] \in {"absent", "preferred"} \/ \E p \in Process : at[p] = "copying"
             /\ \A p \in Process : at[p] \in {"copy", "copying"} => held[p] = "preferred"

BootInv ==
    /\ BootTypeOK
    /\ Alone
    /\ MembersHeld
    /\ FreshFiles
    /\ ArchiveClean
    /\ LibrariesClean
    /\ CopyClean
    /\ FoundIsSound

-----------------------------------------------------------------------------
LEMMA BootInitInv == BootInit => BootInv
<1> SUFFICES ASSUME BootInit PROVE BootInv
  OBVIOUS
<1> USE DEF BootInit
<1>1. BootTypeOK
  BY EnvironmentsAssumption DEF BootTypeOK, File, Content, Library
<1>2. Alone /\ MembersHeld /\ FreshFiles
  BY DEF Alone, MembersHeld, FreshFiles, Active, Working
<1>3. ArchiveClean /\ CopyClean /\ FoundIsSound
  BY DEF ArchiveClean, CopyClean, FoundIsSound, Clean, File, Library
<1>4. LibrariesClean
  BY DEF LibrariesClean, Clean, Exists, File, Library
<1> QED
  BY <1>1, <1>2, <1>3, <1>4 DEF BootInv

\* Every step preserves the types.
LEMMA BootTypeStep ==
    ASSUME BootTypeOK, [BootNext]_bootVars
    PROVE  BootTypeOK'
<1> USE DEF BootTypeOK, Goto, Return, File, Content, Library, Working
<1>1. CASE UNCHANGED bootVars
  BY <1>1 DEF bootVars
<1>2. ASSUME NEW p \in Process, EnsureLibsodium(p)
      PROVE  BootTypeOK'
  BY <1>2 DEF EnsureLibsodium, Existing
<1>3. ASSUME NEW p \in Process, Fetch(p) \/ Download(p) \/ OpenArchive(p) \/ WriteArchive(p)
      PROVE  BootTypeOK'
  BY <1>3 DEF Fetch, Download, OpenArchive, WriteArchive
<1>4. ASSUME NEW p \in Process, Unpack(p)
      PROVE  BootTypeOK'
  BY <1>4 DEF Unpack, Packed
<1>5. ASSUME NEW p \in Process, OpenMember(p) \/ WriteMember(p)
      PROVE  BootTypeOK'
  <2>1. CASE OpenMember(p)
    BY <2>1 DEF OpenMember
  <2>2. CASE WriteMember(p)
    BY <2>2 DEF WriteMember
  <2> QED
    BY <1>5, <2>1, <2>2
<1>6. ASSUME NEW p \in Process, Select(p) \/ OpenCopy(p) \/ WriteCopy(p)
      PROVE  BootTypeOK'
  BY <1>6 DEF Select, Best, OpenCopy, WriteCopy
<1>7. ASSUME NEW p \in Process, Crash(p)
      PROVE  BootTypeOK'
  BY <1>7 DEF Crash
<1> QED
  BY <1>1, <1>2, <1>3, <1>4, <1>5, <1>6, <1>7 DEF BootNext, Work

\* Only the one who acts moves; it was at work, or it comes in.
LEMMA Movers ==
    ASSUME BootTypeOK, BootNext
    PROVE  \E p \in Process :
              /\ Active(p) \/ (EnsureLibsodium(p) /\ at[p] = "idle")
              /\ \A q \in Process \ {p} : at'[q] = at[q]
              /\ EnsureLibsodium(p) \/ Download(p) \/ Work(p) \/ Crash(p)
<1>1. PICK p \in Process : EnsureLibsodium(p) \/ Download(p) \/ Work(p) \/ Crash(p)
  BY DEF BootNext
<1> USE DEF BootTypeOK, Goto, Return, Active, Working
<1>2. CASE EnsureLibsodium(p)
  BY <1>2 DEF EnsureLibsodium
<1>3. CASE Crash(p)
  BY <1>3 DEF Crash
<1>4. CASE Download(p)
  BY <1>4 DEF Download
<1>5. CASE Work(p)
  <2> SUFFICES Active(p) /\ \A q \in Process \ {p} : at'[q] = at[q]
    BY <1>5
  <2>1. CASE Fetch(p) \/ OpenArchive(p) \/ WriteArchive(p)
    BY <2>1 DEF Fetch, OpenArchive, WriteArchive
  <2>2. CASE Unpack(p)
    BY <2>2 DEF Unpack
  <2>3. CASE OpenMember(p) \/ WriteMember(p)
    BY <2>3 DEF OpenMember, WriteMember
  <2>4. CASE Select(p) \/ OpenCopy(p) \/ WriteCopy(p)
    BY <2>4 DEF Select, OpenCopy, WriteCopy
  <2> QED
    BY <1>5, <2>1, <2>2, <2>3, <2>4 DEF Work
<1> QED
  BY <1>1, <1>2, <1>3, <1>4, <1>5

\* Whether two were at work at once is changed by those who come in.
LEMMA Overlap ==
    ASSUME NEW p \in Process, Download(p) \/ Work(p) \/ Crash(p)
    PROVE  /\ overlapped' = overlapped
           /\ env' = env
           /\ Download(p) \/ Work(p) => crashes' = crashes
<1>1. CASE Crash(p)
  BY <1>1 DEF Crash, Active, Working, Work, Download, Fetch, OpenArchive, WriteArchive, Unpack,
              OpenMember, WriteMember, Select, OpenCopy, WriteCopy
<1>2. CASE Download(p) \/ Work(p)
  BY <1>2 DEF Work, Download, Fetch, OpenArchive, WriteArchive, Unpack, OpenMember, WriteMember,
              Select, OpenCopy, WriteCopy
<1> QED
  BY <1>1, <1>2

LEMMA AloneStep ==
    ASSUME BootTypeOK, Alone, BootNext
    PROVE  Alone'
<1>1. PICK p \in Process :
         /\ Active(p) \/ (EnsureLibsodium(p) /\ at[p] = "idle")
         /\ \A q \in Process \ {p} : at'[q] = at[q]
         /\ EnsureLibsodium(p) \/ Download(p) \/ Work(p) \/ Crash(p)
  BY Movers
<1>2. CASE EnsureLibsodium(p)
  BY <1>1, <1>2 DEF EnsureLibsodium, Alone, Active
<1>3. CASE Active(p) /\ ~EnsureLibsodium(p)
  <2>1. overlapped' = overlapped
    BY <1>1, <1>3, Overlap
  <2> QED
    BY <1>1, <1>3, <2>1 DEF Alone, Active
<1> QED
  BY <1>1, <1>2, <1>3

-----------------------------------------------------------------------------
(* A step of one that works alone.                                          *)

LEMMA MembersStep ==
    ASSUME BootTypeOK, MembersHeld, BootNext
    PROVE  MembersHeld'
<1> USE DEF Goto, Return, BootTypeOK, MembersHeld
<1>1. PICK p \in Process : EnsureLibsodium(p) \/ Download(p) \/ Work(p) \/ Crash(p)
  BY DEF BootNext
<1>2. CASE EnsureLibsodium(p) \/ Crash(p) \/ Download(p)
  BY <1>2 DEF EnsureLibsodium, Crash, Download
<1>3. CASE Fetch(p) \/ OpenArchive(p) \/ WriteArchive(p) \/ Unpack(p)
  BY <1>3 DEF Fetch, OpenArchive, WriteArchive, Unpack
<1>4. CASE OpenMember(p)
  BY <1>4 DEF OpenMember
<1>5. CASE WriteMember(p)
  BY <1>5 DEF WriteMember
<1>6. CASE Select(p) \/ OpenCopy(p) \/ WriteCopy(p)
  BY <1>6 DEF Select, OpenCopy, WriteCopy
<1> QED
  BY <1>1, <1>2, <1>3, <1>4, <1>5, <1>6 DEF Work

LEMMA FreshStep ==
    ASSUME BootInv, BootNext
    PROVE  FreshFiles'
<1> USE DEF Goto, Return, BootTypeOK, File
<1> SUFFICES ASSUME ~overlapped' PROVE FreshFiles'
  BY DEF FreshFiles
<1>0. BootTypeOK /\ Alone /\ MembersHeld /\ FreshFiles
  BY DEF BootInv
<1>1. PICK p \in Process : EnsureLibsodium(p) \/ Download(p) \/ Work(p) \/ Crash(p)
  BY DEF BootNext
<1>2. CASE EnsureLibsodium(p)
  BY <1>0, <1>2 DEF EnsureLibsodium, FreshFiles
<1>3. CASE Crash(p)
  BY <1>0, <1>3 DEF Crash, FreshFiles
<1>4. CASE Download(p) \/ Work(p)
  <2>1. overlapped' = overlapped /\ Active(p)
    BY <1>4, Overlap DEF Work, Download, Fetch, OpenArchive, WriteArchive, Unpack, OpenMember,
                         WriteMember, Select, OpenCopy, WriteCopy, Active, Working
  <2>2. \A q \in Process : Active(q) => q = p
    BY <1>0, <2>1 DEF Alone
  <2>3. \A q \in Process \ {p} : at[q] \notin Working
    BY <2>2 DEF Active
  <2>4. CASE Fetch(p) \/ Download(p)
    BY <1>0, <2>1, <2>3, <2>4 DEF Fetch, Download, FreshFiles, Exists, Working
  <2>5. CASE OpenArchive(p) \/ WriteArchive(p)
    BY <1>0, <2>1, <2>3, <2>5 DEF OpenArchive, WriteArchive, FreshFiles, Working
  <2>6. CASE Unpack(p)
    BY <1>0, <2>1, <2>3, <2>6 DEF Unpack, FreshFiles, Working
  <2>7. CASE OpenMember(p) \/ WriteMember(p)
    BY <1>0, <2>1, <2>3, <2>7 DEF OpenMember, WriteMember, MembersHeld, FreshFiles, Working
  <2>8. CASE Select(p)
    BY <1>0, <2>1, <2>3, <2>8 DEF Select, FreshFiles, Exists, Working
  <2>9. CASE OpenCopy(p) \/ WriteCopy(p)
    BY <1>0, <2>1, <2>3, <2>9 DEF OpenCopy, WriteCopy, FreshFiles, Working
  <2> QED
    BY <1>4, <2>4, <2>5, <2>6, <2>7, <2>8, <2>9 DEF Work
<1> QED
  BY <1>1, <1>2, <1>3, <1>4

\* What has been broken off stays so, and an overlap stays on record.
LEMMA CleanBefore ==
    ASSUME BootTypeOK, BootNext, Clean'
    PROVE  Clean
<1>1. PICK p \in Process :
         /\ Active(p) \/ (EnsureLibsodium(p) /\ at[p] = "idle")
         /\ \A q \in Process \ {p} : at'[q] = at[q]
         /\ EnsureLibsodium(p) \/ Download(p) \/ Work(p) \/ Crash(p)
  BY Movers
<1>2. ~overlapped
  <2>1. CASE EnsureLibsodium(p)
    BY <2>1 DEF EnsureLibsodium, Clean
  <2>2. CASE Download(p) \/ Work(p) \/ Crash(p)
    BY <2>2, Overlap DEF Clean
  <2> QED
    BY <1>1, <2>1, <2>2
<1>3. at[p] # "brokenOff"
  BY <1>1 DEF Active, Working
<1>4. \A q \in Process : at[q] # "brokenOff"
  BY <1>1, <1>3 DEF Clean
<1> QED
  BY <1>2, <1>4 DEF Clean

LEMMA CleanStep ==
    ASSUME BootInv, BootNext, Clean'
    PROVE  ArchiveClean' /\ LibrariesClean' /\ CopyClean' /\ FoundIsSound'
<1> USE DEF Goto, Return, BootTypeOK, File, Library
<1> DEFINE Parts == ArchiveClean /\ LibrariesClean /\ CopyClean /\ FoundIsSound
<1>1. PICK p \in Process : EnsureLibsodium(p) \/ Download(p) \/ Work(p) \/ Crash(p)
  BY DEF BootNext
<1>0. Clean
  BY CleanBefore DEF BootInv
<1>2. CASE EnsureLibsodium(p)
  <2>1. Clean /\ \A q \in Process : at[q] \notin Working
    BY <1>0, <1>2 DEF EnsureLibsodium, Clean, Active
  <2>2. disk["bin"] \in {"absent", "preferred"}
    BY <2>1 DEF BootInv, CopyClean, Working
  <2>3. env.windows /\ (\E f \in Library : Exists(f)) => disk["preferred"] = "preferred"
    BY <2>1 DEF BootInv, LibrariesClean, Working
  <2>4. found'[p] = "bin" /\ at'[p] = "returned" => disk["bin"] = "preferred"
    BY <1>2, <2>2 DEF EnsureLibsodium, Existing, Exists, BootInv
  <2> QED
    BY <1>2, <2>1, <2>2, <2>3, <2>4
       DEF EnsureLibsodium, BootInv, ArchiveClean, LibrariesClean, CopyClean, FoundIsSound,
           Clean, Packed, Exists, Working
<1>3. CASE Crash(p)
  <2>1. Clean /\ at[p] \notin {"extract", "extracting", "copying"} /\ at'[p] = "crashed"
    BY <1>0, <1>3 DEF Crash, Clean, BootInv
  <2> QED
    BY <1>3, <2>1
       DEF Crash, BootInv, ArchiveClean, LibrariesClean, CopyClean, FoundIsSound, Clean, Packed,
           Exists
<1>4. CASE Download(p) \/ Work(p)
  <2>1. Clean /\ Active(p) /\ env' = env
    BY <1>0, <1>4, Overlap
       DEF Work, Download, Fetch, OpenArchive, WriteArchive, Unpack, OpenMember, WriteMember,
           Select, OpenCopy, WriteCopy, Active, Working
  <2>2. \A q \in Process \ {p} : at[q] \notin Working
    BY <2>1 DEF BootInv, Alone, Active, Clean
  <2>3. BootTypeOK /\ FreshFiles /\ Parts
    BY DEF BootInv
  <2> USE DEF ArchiveClean, LibrariesClean, CopyClean, FoundIsSound, Packed, Exists, Working
  <2>4. CASE Fetch(p) \/ Download(p)
    BY <2>1, <2>2, <2>3, <2>4 DEF Fetch, Download, Content, Clean
  <2>5. CASE OpenArchive(p) \/ WriteArchive(p)
    BY <2>1, <2>2, <2>3, <2>5 DEF OpenArchive, WriteArchive
  <2>6. CASE Unpack(p)
    BY <2>1, <2>2, <2>3, <2>6 DEF Unpack
  <2>7. CASE OpenMember(p)
    BY <2>1, <2>2, <2>3, <2>7 DEF OpenMember
  <2>8. CASE WriteMember(p)
    BY <2>1, <2>2, <2>3, <2>8 DEF WriteMember
  <2>9. CASE Select(p)
    BY <2>1, <2>2, <2>3, <2>9 DEF Select, Best
  <2>10. CASE OpenCopy(p) \/ WriteCopy(p)
    BY <2>1, <2>2, <2>3, <2>10 DEF OpenCopy, WriteCopy, FreshFiles, Clean
  <2> QED
    BY <1>4, <2>4, <2>5, <2>6, <2>7, <2>8, <2>9, <2>10 DEF Work
<1> QED
  BY <1>1, <1>2, <1>3, <1>4

LEMMA BootInvStep ==
    ASSUME BootInv, [BootNext]_bootVars
    PROVE  BootInv'
<1>1. CASE BootNext
  <2>1. BootTypeOK' /\ Alone' /\ MembersHeld' /\ FreshFiles'
    BY <1>1, BootTypeStep, AloneStep, MembersStep, FreshStep DEF BootInv
  <2>2. CASE Clean'
    BY <1>1, <2>1, <2>2, CleanStep DEF BootInv
  <2>3. CASE ~Clean'
    BY <2>1, <2>3 DEF BootInv, ArchiveClean, LibrariesClean, CopyClean, FoundIsSound, Clean
  <2> QED
    BY <2>2, <2>3
<1>2. CASE UNCHANGED bootVars
  BY <1>2 DEF bootVars, BootInv, BootTypeOK, Alone, MembersHeld, FreshFiles, ArchiveClean, LibrariesClean, CopyClean,
              FoundIsSound, Clean, Active, Packed, Exists
<1> QED
  BY <1>1, <1>2

\* In every reachable state.
THEOREM BootInvariant == BootSpec => []BootInv
<1>1. BootInv /\ [BootNext]_bootVars => BootInv'
  BY BootInvStep
<1> QED
  BY BootInitInv, <1>1, PTL DEF BootSpec

\* Every variable of the bootstrap holds values of its kind.
THEOREM BootTypeCorrect == BootSpec => []BootTypeOK
<1>1. BootInv => BootTypeOK
  BY DEF BootInv
<1> QED
  BY BootInvariant, <1>1, PTL

\* Unless a process broke off unpacking or copying, or two were at work at once,
\* whoever is sent to bin finds the whole preferred build there: a kill in the
\* download or while the archive is being written leads nobody to a bad copy.
THEOREM LoneBootstrapIsSound == BootSpec => []FoundIsSound
<1>1. BootInv => FoundIsSound
  BY DEF BootInv
<1> QED
  BY BootInvariant, <1>1, PTL

\* A settled archive or copy, whole or torn, is never written again, for any number
\* of processes at work at once and of kills.
THEOREM SettledFilesStay == BootSpec => SettledFileStays
<1> DEFINE Stays(f) == Settled(f) => Settled(f)' /\ disk'[f] = disk[f]
<1>1. ASSUME BootInv, BootNext, NEW f \in {"archive", "bin"}, Settled(f)
      PROVE  Settled(f)' /\ disk'[f] = disk[f]
  <2>1. PICK p \in Process : EnsureLibsodium(p) \/ Download(p) \/ Work(p) \/ Crash(p)
    BY <1>1 DEF BootNext
  <2> USE <1>1 DEF BootInv, BootTypeOK, File, Library, Settled, Writing, Exists, Goto, Return
  <2>2. CASE EnsureLibsodium(p) \/ Download(p) \/ Crash(p)
    BY <2>2 DEF EnsureLibsodium, Download, Crash
  <2>3. CASE OpenArchive(p) \/ WriteArchive(p)
    BY <2>3 DEF OpenArchive, WriteArchive
  <2>4. CASE OpenCopy(p) \/ WriteCopy(p)
    BY <2>4 DEF OpenCopy, WriteCopy
  <2>5. CASE Unpack(p)
    BY <2>5 DEF Unpack
  <2>6. CASE Fetch(p) \/ Select(p)
    BY <2>6 DEF Fetch, Select
  <2>7. CASE OpenMember(p)
    BY <2>7 DEF OpenMember
  <2>8. CASE WriteMember(p)
    BY <2>8 DEF WriteMember, MembersHeld
  <2> QED
    BY <2>1, <2>2, <2>3, <2>4, <2>5, <2>6, <2>7, <2>8 DEF Work
<1>2. BootInv /\ [BootNext]_bootVars => [\A f \in {"archive", "bin"} : Stays(f)]_bootVars
  BY <1>1
<1> QED
  BY BootInvariant, <1>2, PTL DEF BootSpec, SettledFileStays
=============================================================================
