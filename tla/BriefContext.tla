---------------------------- MODULE BriefContext -----------------------------
(***************************************************************************)
(* The source code in a brief: the frames of the stack trace, looked for on*)
(* GitHub, then on Bitbucket, then on the worker's own disk.               *)
(*                                                                         *)
(* A line of the trace is a frame of the application's or anything else    *)
(* (prose, a frame of a library).  The file of a frame is the path that is *)
(* left without the container's prefix; snippets, commits and links are    *)
(* left out.                                                               *)
(***************************************************************************)
EXTENDS Lists, Integers, FiniteSets, SequencesExt

CONSTANTS
  File,
  MaxFrames  \* the five frames that are kept

ASSUME BriefAssumption == MaxFrames \in Nat

Frame(file, line) == [file |-> file, line |-> line]
Noise == [file |-> "none", line |-> 0]

(* A remote is not connected (or has no token), fails with an exception at  *)
(* some point, or answers; repos: the files of each repository, in the order*)
(* they are asked.  A list of repositories that is refused is an empty one. *)
Remote == [status : {"none", "fails", "ok"}, repos : Seq(SUBSET File)]

-----------------------------------------------------------------------------
(* The frames, each once.                                                   *)
Frames(trace) ==
  LET seen[n \in 0 .. Len(trace)] ==
        IF n = 0 THEN <<>>
        ELSE IF trace[n] = Noise \/ Contains(seen[n - 1], trace[n])
             THEN seen[n - 1] ELSE Append(seen[n - 1], trace[n])
  IN  seen[Len(trace)]

(* _parse_traceback_frames: of the last MaxFrames the last first.           *)
ParseTraceback(trace) ==
  LET all   == Frames(trace)
      first == IF Len(all) > MaxFrames THEN Len(all) - MaxFrames + 1 ELSE 1
  IN  Reverse(SubSeq(all, first, Len(all)))

CodeFrame(frame, source, repo) == [frame |-> frame, source |-> source, repo |-> repo]

InRepos(remote, frame) == {k \in DOMAIN remote.repos : frame.file \in remote.repos[k]}

FirstRepo(remote, frame) ==
  CHOOSE k \in InRepos(remote, frame) : \A m \in InRepos(remote, frame) : k <= m

(* The first repository with the file; an exception loses what was found    *)
(* before it.                                                               *)
FetchRemote(source, remote, frames) ==
  IF remote.status # "ok" THEN <<>>
  ELSE LET there == Only(frames, {frame \in ToSet(frames) : InRepos(remote, frame) # {}})
       IN  [i \in DOMAIN there |-> CodeFrame(there[i], source, FirstRepo(remote, there[i]))]

(* _fetch_github_code_context, _fetch_bitbucket_code_context                *)
FetchGitHub(remote, frames)    == FetchRemote("github", remote, frames)
FetchBitbucket(remote, frames) == FetchRemote("bitbucket", remote, frames)

(* _fetch_local_code_context: what can be read from the disk.               *)
FetchLocal(disk, frames) ==
  LET there == Only(frames, {frame \in ToSet(frames) : frame.file \in disk})
  IN  [i \in DOMAIN there |-> CodeFrame(there[i], "local", 0)]

Remaining(frames, found) ==
  Only(frames, {frame \in ToSet(frames) :
                  \A i \in DOMAIN found : found[i].frame.file # frame.file})

(* Mutant: what is not on GitHub is looked for on the disk too, wherever it *)
(* was found.                                                               *)
MutFetchCodeContext(frames, github, bitbucket, disk) ==
  LET gh == FetchGitHub(github, frames)
      bb == FetchBitbucket(bitbucket, Remaining(frames, gh))
  IN  gh \o bb \o FetchLocal(disk, Remaining(frames, gh))

(* _fetch_code_context *)
FetchCodeContext(frames, github, bitbucket, disk) ==
  LET gh == FetchGitHub(github, frames)
      bb == FetchBitbucket(bitbucket, Remaining(frames, gh))
  IN  gh \o bb \o FetchLocal(disk, Remaining(frames, gh \o bb))

-----------------------------------------------------------------------------
Has(remote, frame) == remote.status = "ok" /\ InRepos(remote, frame) # {}

(* The first source that works and has the file.                            *)
SourceFor(frame, github, bitbucket, disk) ==
  IF Has(github, frame) THEN "github"
  ELSE IF Has(bitbucket, frame) THEN "bitbucket"
  ELSE IF frame.file \in disk THEN "local" ELSE "nowhere"

(* Where a frame is first seen.                                             *)
FirstAt(trace, f) ==
  CHOOSE n \in DOMAIN trace : trace[n] = f /\ \A m \in 1 .. n - 1 : trace[m] # f

(* Each of the innermost frames, as the trace prints them, is in the brief  *)
(* once, from the first source that works and has the file, whatever failed *)
(* before; of one source the inner frame comes first.                       *)
CodeFound(trace, github, bitbucket, disk) ==
  LET found == FetchCodeContext(ParseTraceback(trace), github, bitbucket, disk)
      PlaceOf(f) == {i \in DOMAIN found : found[i].frame = f}
      Inner(f) == {g \in ToSet(trace) \ {Noise, f} : FirstAt(trace, g) > FirstAt(trace, f)}
  IN  /\ \A f \in ToSet(trace) \ {Noise} :
           IF \/ Cardinality(Inner(f)) >= MaxFrames
              \/ SourceFor(f, github, bitbucket, disk) = "nowhere"
           THEN PlaceOf(f) = {}
           ELSE \E i \in DOMAIN found :
                  /\ PlaceOf(f) = {i}
                  /\ found[i].source = SourceFor(f, github, bitbucket, disk)
      /\ \A i, j \in DOMAIN found :
           i < j /\ found[i].source = found[j].source
             => FirstAt(trace, found[j].frame) < FirstAt(trace, found[i].frame)
=============================================================================
