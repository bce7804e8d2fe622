------------------------- MODULE LibsodiumBootstrap -------------------------
(***************************************************************************)
(* ensure_libsodium() (libsodium_bootstrap.py) in processes that share one *)
(* vendor/ directory: find the library, or download an archive, unpack it  *)
(* and copy the library to vendor/libsodium/bin.                           *)
(*                                                                         *)
(* What is there is taken by name: exists() says nothing of the contents.  *)
(* A file that is opened for writing is "torn" until it is written; a      *)
(* process may be killed in between, and may read what another one writes. *)
(***************************************************************************)
EXTENDS Naturals

CONSTANTS
    Process,       \* the runs of the programs on this machine
    Environments,  \* the environments the machine may have
    MaxCrashes     \* bound on the processes killed at work

Environment == [skip: BOOLEAN,      \* LAB1_SKIP_LIBSODIUM_BOOTSTRAP
                windows: BOOLEAN,   \* os.name == "nt"
                given: BOOLEAN,     \* LIBSODIUM_DIR holds the library
                system: BOOLEAN,    \* on PATH (Windows), in the system's folders (else)
                url: BOOLEAN,       \* LIBSODIUM_URL
                fits: BOOLEAN]      \* the preferred build runs on this machine

ASSUME EnvironmentsAssumption == Environments \subseteq Environment
ASSUME CrashesAssumption == MaxCrashes \in Nat

VARIABLES
    env,         \* the environment
    disk,        \* contents of the files under vendor/libsodium
    at,          \* where each process is in ensure_libsodium
    todo,        \* extractall: the members still to be written
    held,        \* the member being written, or the bytes about to be copied
    found,       \* the folder put in front of the loader's path
    crashes,     \* processes killed at work
    overlapped   \* whether two processes have been at work at once

bootVars == <<env, disk, at, todo, held, found, crashes, overlapped>>

\* The archive for Windows holds builds for several machines, of which the x64 release
\* is preferred whatever this machine is; that of LIBSODIUM_URL is taken to hold one
\* library.  `bin` is the copy the loader is sent to.
Library == {"other", "preferred"}
File == Library \cup {"archive", "bin"}
Content == {"absent", "torn", "archive"} \cup Library
Packed == IF env.windows THEN Library ELSE {"preferred"}
Exists(f) == disk[f] # "absent"

Working == {"fetch", "download", "store", "storing", "unpack", "extract", "extracting",
            "select", "copy", "copying"}
Active(p) == at[p] \in Working
Goto(p, l) == at' = [at EXCEPT ![p] = l]
Return(p, folder) == Goto(p, "returned") /\ found' = [found EXCEPT ![p] = folder]

-----------------------------------------------------------------------------
\* Where the search ends before anything is fetched.  On Windows the first folder
\* that has the file is put on the path; elsewhere a library in LIBSODIUM_DIR or
\* bin ends the search, but its folder is put on no path.
Existing ==
    IF env.windows
    THEN CASE env.given -> "given" [] Exists("bin") -> "bin"
           [] env.system -> "system" [] OTHER -> "nowhere"
    ELSE CASE env.system -> "system" [] env.given \/ Exists("bin") -> "unlisted"
           [] OTHER -> "nowhere"

EnsureLibsodium(p) ==
    /\ at[p] = "idle"
    /\ LET place == IF env.skip THEN "unlisted" ELSE Existing IN
          IF place # "nowhere"
          THEN Return(p, place)
          ELSE Goto(p, IF env.windows \/ env.url THEN "fetch" ELSE "failed") /\ UNCHANGED found
    /\ overlapped' = (overlapped \/ \E q \in Process : Active(q))
    /\ UNCHANGED <<env, disk, todo, held, crashes>>

\* A cached archive is fetched again.
BrokenFetch(p) ==
    /\ at[p] = "fetch"
    /\ Goto(p, "download")
    /\ UNCHANGED <<env, disk, todo, held, found, crashes, overlapped>>

\* An archive that is there is used as it is.
Fetch(p) ==
    /\ at[p] = "fetch"
    /\ Goto(p, IF Exists("archive") THEN "unpack" ELSE "download")
    /\ UNCHANGED <<env, disk, todo, held, found, crashes, overlapped>>

\* urlopen(), which has no timeout: it answers, fails, or blocks for good.
Download(p) ==
    /\ at[p] = "download"
    /\ Goto(p, "store") \/ Goto(p, "failed")
    /\ UNCHANGED <<env, disk, todo, held, found, crashes, overlapped>>

\* write_bytes() of the archive
OpenArchive(p) ==
    /\ at[p] = "store"
    /\ disk' = [disk EXCEPT !["archive"] = "torn"]
    /\ Goto(p, "storing")
    /\ UNCHANGED <<env, todo, held, found, crashes, overlapped>>
WriteArchive(p) ==
    /\ at[p] = "storing"
    /\ disk' = [disk EXCEPT !["archive"] = "archive"]
    /\ Goto(p, "unpack")
    /\ UNCHANGED <<env, todo, held, found, crashes, overlapped>>

\* Windows unpacks only if no library is there yet, the others always.  A torn zip
\* is refused at once, a torn tarball perhaps after the library was written.
Unpack(p) ==
    /\ at[p] = "unpack"
    /\ \/ /\ env.windows /\ \E f \in Packed : Exists(f)
          /\ Goto(p, "select")
          /\ UNCHANGED <<disk, todo>>
       \/ /\ ~(env.windows /\ \E f \in Packed : Exists(f))
          /\ disk["archive"] # "torn"
          /\ todo' = [todo EXCEPT ![p] = Packed]
          /\ Goto(p, "extract")
          /\ UNCHANGED disk
       \/ /\ ~(env.windows /\ \E f \in Packed : Exists(f))
          /\ disk["archive"] = "torn"
          /\ disk' \in {disk} \cup
                {[disk EXCEPT !["preferred"] = c] :
                    c \in IF env.windows THEN {} ELSE {"torn", "preferred"}}
          /\ Goto(p, "failed")
          /\ UNCHANGED todo
    /\ UNCHANGED <<env, held, found, crashes, overlapped>>

\* extractall(): one member after the other, over what is there.  It ends when
\* another process tears the archive meanwhile.
OpenMember(p) ==
    /\ at[p] = "extract"
    /\ \E f \in todo[p] :
          /\ held' = [held EXCEPT ![p] = f]
          /\ todo' = [todo EXCEPT ![p] = @ \ {f}]
          /\ disk' = [disk EXCEPT ![f] = "torn"]
    /\ Goto(p, "extracting")
    /\ UNCHANGED <<env, found, crashes, overlapped>>
WriteMember(p) ==
    /\ at[p] = "extracting"
    /\ \/ disk["archive"] = "torn" /\ Goto(p, "failed") /\ UNCHANGED disk
       \/ /\ disk' = [disk EXCEPT ![held[p]] = held[p]]
          /\ Goto(p, IF todo[p] = {} THEN "select" ELSE "extract")
    /\ UNCHANGED <<env, todo, held, found, crashes, overlapped>>

\* The candidates are sorted the wrong way round.
BrokenBest == IF Exists("other") THEN "other" ELSE "preferred"

\* _select_windows_dll(), _select_shared_library(): by the names of the folders only
Best == IF Exists("preferred") THEN "preferred" ELSE "other"

\* It is read, unless bin has a copy already.
Select(p) ==
    /\ at[p] = "select"
    /\ IF Exists("bin")
       THEN Return(p, "bin") /\ UNCHANGED held
       ELSE /\ held' = [held EXCEPT ![p] = disk[Best]]
            /\ Goto(p, "copy")
            /\ UNCHANGED found
    /\ UNCHANGED <<env, disk, todo, crashes, overlapped>>

\* write_bytes() of the copy
OpenCopy(p) ==
    /\ at[p] = "copy"
    /\ disk' = [disk EXCEPT !["bin"] = "torn"]
    /\ Goto(p, "copying")
    /\ UNCHANGED <<env, todo, held, found, crashes, overlapped>>
WriteCopy(p) ==
    /\ at[p] = "copying"
    /\ disk' = [disk EXCEPT !["bin"] = held[p]]
    /\ Return(p, "bin")
    /\ UNCHANGED <<env, todo, held, crashes, overlapped>>

\* The process is killed at work: it may have broken off unpacking, or the copy.
Crash(p) ==
    /\ Active(p) /\ crashes < MaxCrashes
    /\ Goto(p, IF at[p] \in {"extract", "extracting", "copying"} THEN "brokenOff" ELSE "crashed")
    /\ crashes' = crashes + 1
    /\ UNCHANGED <<env, disk, todo, held, found, overlapped>>

-----------------------------------------------------------------------------
BootInit ==
    /\ env \in Environments
    /\ disk = [f \in File |-> "absent"]
    /\ at = [p \in Process |-> "idle"]
    /\ todo = [p \in Process |-> {}]
    /\ held = [p \in Process |-> "absent"]
    /\ found = [p \in Process |-> "nowhere"]
    /\ crashes = 0
    /\ overlapped = FALSE

Work(p) ==
    \/ Fetch(p) \/ OpenArchive(p) \/ WriteArchive(p) \/ Unpack(p) \/ OpenMember(p)
    \/ WriteMember(p) \/ Select(p) \/ OpenCopy(p) \/ WriteCopy(p)
BootNext == \E p \in Process : EnsureLibsodium(p) \/ Download(p) \/ Work(p) \/ Crash(p)
BootSpec == BootInit /\ [][BootNext]_bootVars
-----------------------------------------------------------------------------
(* What the directory may be relied upon for.                              *)

BootTypeOK ==
    /\ env \in Environment
    /\ disk \in [File -> Content]
    /\ at \in [Process -> Working \cup {"idle", "returned", "failed", "crashed", "brokenOff"}]
    /\ todo \in [Process -> SUBSET Library]
    /\ held \in [Process -> Content]
    /\ found \in [Process -> {"given", "bin", "system", "unlisted", "nowhere"}]
    /\ crashes \in Nat
    /\ overlapped \in BOOLEAN

\* Whoever is sent to bin finds the whole preferred build there, unless a process
\* broke off unpacking or copying, or two were at work at once.  A kill in or before
\* the download, or while the archive is being written, does no such harm.
FoundIsSound ==
    ~overlapped /\ (\A p \in Process : at[p] # "brokenOff") =>
        \A p \in Process : at[p] = "returned" /\ found[p] = "bin" => disk["bin"] = "preferred"

\* A file is settled when it is there and nobody has yet to write it.
Writing(f) == IF f = "archive" THEN {"download", "store", "storing"} ELSE {"copy", "copying"}
Settled(f) == Exists(f) /\ \A p \in Process : at[p] \notin Writing(f)

\* A settled archive or copy stays as it is, whoever works at once and whoever is
\* killed: only a run that has found it missing writes it.  So no later run spoils
\* what another may have loaded, and none repairs what a kill has left torn.
SettledFileStays ==
    [][\A f \in {"archive", "bin"} :
          Settled(f) => Settled(f)' /\ disk'[f] = disk[f]]_bootVars
=============================================================================
