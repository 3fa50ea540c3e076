---------------------------- MODULE ReleaseFetch ----------------------------
(***************************************************************************)
(* An agent fetches a release from Central's cache: fetchReleaseBundle     *)
(* (agent/release.go) asks for the manifest and the files one after the    *)
(* other, and serveRelease (central/release_cache.go) answers each request *)
(* from the bundle that is the current one by then.  The bundles in the    *)
(* cache are complete and are switched at once (scripts/auto-update.sh);   *)
(* the directory the agent fetches into may hold files of a download that  *)
(* failed before.  A checksum stands for the contents.                     *)
(***************************************************************************)
EXTENDS Integers, Sequences

CONSTANTS
  Releases,   \* the releases Central has in its cache in turn
  Contents,   \* contents of a file by release and name
  Missing     \* no file

Parts == <<"binary", "updater">>
Manifest == "SHA256SUMS"
Files == {Parts[i] : i \in DOMAIN Parts}

ASSUME ReleaseAssumption ==
  /\ \A r \in Releases : \A f \in Files : Contents[r][f] # Missing
  /\ Missing \notin Releases

VARIABLES
  current,      \* the release of the cache
  fetch,        \* where the fetch stands: step and number of the file
  manifest,     \* release of the manifest the agent has read
  staged,       \* contents of the files in the staging directory
  destination   \* contents of the destination, and the release of its manifest

releaseVars == <<current, fetch, manifest, staged, destination>>

NothingStaged == [f \in Files |-> Missing]

(* The destination: a new directory, or what the download from elsewhere   *)
(* has left there.                                                         *)
ReleaseInit ==
  /\ current \in Releases
  /\ fetch = [step |-> "manifest", file |-> 1]
  /\ manifest = Missing /\ staged = NothingStaged
  /\ \E r \in Releases \cup {Missing} :
       destination = [files |-> [f \in Files |-> IF r = Missing THEN Missing ELSE Contents[r][f]],
                      manifest |-> Missing]

Fail == fetch' = [step |-> "failed", file |-> 1] /\ staged' = NothingStaged

(* Central publishes another bundle.                                       *)
Switch(r) ==
  /\ r # current /\ current' = r
  /\ UNCHANGED <<fetch, manifest, staged, destination>>

GetManifest ==
  /\ fetch.step = "manifest"
  /\ \/ manifest' = current /\ fetch' = [fetch EXCEPT !.step = "file"] /\ UNCHANGED staged
     \/ Fail /\ UNCHANGED manifest
  /\ UNCHANGED <<current, destination>>

(* serveRelease: the file of the bundle that is current at the request; a   *)
(* request that is refused or cut off is one that fails.                   *)
BundleFile(f) == Contents[current][f]

(* A mutant of Verified: the checksum is not compared. *)
VerifiedUnseen(f, data) == manifest # Missing /\ data # Missing

Verified(f, data) == data = Contents[manifest][f]

(* One file is asked for, compared with the manifest and staged.           *)
GetFile ==
  /\ fetch.step = "file"
  /\ LET f == Parts[fetch.file]
         data == BundleFile(f) IN
     \/ /\ Verified(f, data)
        /\ staged' = [staged EXCEPT ![f] = data]
        /\ fetch' = IF fetch.file = Len(Parts) THEN [step |-> "rename", file |-> 1]
                    ELSE [fetch EXCEPT !.file = @ + 1]
     \/ Fail
  /\ UNCHANGED <<current, manifest, destination>>

(* The files are renamed into the destination one by one, the manifest     *)
(* last.                                                                   *)
Rename ==
  /\ fetch.step = "rename"
  /\ \/ /\ fetch.file <= Len(Parts)
        /\ destination' = [destination EXCEPT !.files[Parts[fetch.file]] = staged[Parts[fetch.file]]]
        /\ fetch' = [fetch EXCEPT !.file = @ + 1] /\ UNCHANGED staged
     \/ /\ fetch.file = Len(Parts) + 1
        /\ destination' = [destination EXCEPT !.manifest = manifest]
        /\ fetch' = [step |-> "done", file |-> 1] /\ staged' = NothingStaged
     \/ Fail /\ UNCHANGED destination
  /\ UNCHANGED <<current, manifest>>

(* The updater starts over, with a new directory.                          *)
StartOver ==
  /\ fetch.step \in {"failed", "done"}
  /\ fetch' = [step |-> "manifest", file |-> 1]
  /\ destination' = [files |-> NothingStaged, manifest |-> Missing]
  /\ UNCHANGED <<current, manifest, staged>>

ReleaseNext ==
  \/ GetManifest \/ GetFile \/ Rename \/ StartOver
  \/ \E r \in Releases : Switch(r)

ReleaseSpec == ReleaseInit /\ [][ReleaseNext]_releaseVars

-----------------------------------------------------------------------------
FileContents == {Contents[r][f] : r \in Releases, f \in Files} \cup {Missing}

ReleaseTypeOK ==
  /\ current \in Releases /\ manifest \in Releases \cup {Missing}
  /\ fetch \in [step : {"manifest", "file", "rename", "done", "failed"}, file : 1 .. Len(Parts) + 1]
  /\ staged \in [Files -> FileContents]
  /\ destination \in [files : [Files -> FileContents], manifest : Releases \cup {Missing}]

(* A fetch that succeeds leaves the files of one release and its manifest, *)
(* although Central may switch to another release between two requests and *)
(* the destination may have held files of a third one.                     *)
OneRelease ==
  fetch.step = "done" =>
    /\ destination.manifest \in Releases
    /\ \A f \in Files : destination.files[f] = Contents[destination.manifest][f]
=============================================================================
