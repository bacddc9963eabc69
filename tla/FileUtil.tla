------------------------------- MODULE FileUtil -------------------------------
(***************************************************************************)
(* utility/FileUtil.cxx: a file that is divided into branches, files of their  *)
(* own, whenever the current one is full.  The methods are functions from the  *)
(* object, a record with the disk as one of its fields, to the object; one      *)
(* thread at a time calls them, see FileSink.                                 *)
(*                                                                         *)
(* Abstractions.  A file is known by the run and the branch number that its     *)
(* name is formatted from, and holds the items that were written to it.  A      *)
(* length does not change when it is compressed.  The path "/dev/null", a run   *)
(* without number, and permissions are left out.                              *)
(***************************************************************************)
EXTENDS Integers, SequencesExt

CONSTANTS
  PathGiven,      (* was the option path given?                              *)
  Split,          (* "none", "raw-size", "compressed-size", "num-iteration"   *)
  Packs,          (* is the extension that of a compressed format?            *)
  Openmode,       (* "create" (or "new"): no existing file is opened; "recreate" *)
  MaxBranchSize,  (* fMaxBranchSize                                         *)
  Existing        (* the files there are when the device starts              *)

ASSUME FileUtilAssumption ==
  /\ PathGiven \in BOOLEAN /\ Packs \in BOOLEAN
  /\ Split \in {"none", "raw-size", "compressed-size", "num-iteration"}
  /\ Openmode \in {"create", "recreate"}
  /\ MaxBranchSize \in Nat \ {0}
  /\ \A f \in Existing : f.run \in Nat /\ f.branch \in Int

Path   == [run |-> 0, branch |-> -1]
NoName == [run |-> -1, branch |-> -1]

(* What a file holds that was there before.                                  *)
Stale == <<[n |-> -3, run |-> 0]>>

(* A FileUtil after Init, on a given disk.                                    *)
NewFile(disk) ==
  [fName |-> IF PathGiven THEN Path ELSE NoName, fBranchNum |-> -1, isOpen |-> FALSE,
   branches |-> <<>>, status |-> "ok", disk |-> disk]

(* Mutant: the branch number goes on from run to run.                        *)
ClearBranch_KeepsNumber(u) ==
  [u EXCEPT !.branches = <<>>, !.fBranchNum = IF @ < 0 THEN 0 ELSE @]

(* The option first-branch-number is never read: fFirstBranchNum is 0.        *)
ClearBranch(u) == [u EXCEPT !.branches = <<>>, !.fBranchNum = 0]

(* Mutant: the name of the closed file is kept.                              *)
Close_KeepsName(u) == IF u.isOpen THEN [u EXCEPT !.isOpen = FALSE] ELSE u

(* If no file is open, its name is kept.                                     *)
Close(u) == IF u.isOpen THEN [u EXCEPT !.isOpen = FALSE, !.fName = NoName] ELSE u

(* The name of the file to be opened, if it is not yet known: without split     *)
(* there is no branch number.                                               *)
NameFile(u, run) ==
  LET num == IF Split = "none" THEN -1 ELSE u.fBranchNum IN
    [u EXCEPT !.fName = [run |-> run, branch |-> num], !.fBranchNum = num]

OpenBranch(u) ==
  [u EXCEPT !.isOpen = TRUE,
            !.disk = [f \in DOMAIN @ \union {u.fName} |-> IF f = u.fName THEN <<>> ELSE u.disk[f]],
            !.branches = Append(@, [file |-> u.fName, raw |-> 0, compressed |-> 0, n |-> 0])]

(* With a path the formats of run and branch number are empty, and to format a  *)
(* number then throws.  Nobody looks at the result of Open.                   *)
Open(u, run) ==
  IF u.fName = NoName /\ PathGiven THEN [u EXCEPT !.status = "thrown"]
  ELSE LET v == IF u.fName = NoName THEN NameFile(u, run) ELSE u IN
         IF v.fName \in DOMAIN v.disk /\ Openmode = "create" THEN v ELSE OpenBranch(v)

(* Mutant: a branch is full when it is beyond its size.                       *)
Full_Beyond(b) ==
  \/ Split = "raw-size" /\ b.raw > MaxBranchSize
  \/ Split = "compressed-size" /\ b.compressed > MaxBranchSize
  \/ Split = "num-iteration" /\ b.n > MaxBranchSize

Full(b) ==
  \/ Split = "raw-size" /\ b.raw >= MaxBranchSize
  \/ Split = "compressed-size" /\ b.compressed >= MaxBranchSize
  \/ Split = "num-iteration" /\ b.n >= MaxBranchSize

Count(b, length) ==
  [b EXCEPT !.raw = @ + length, !.n = @ + 1,
            !.compressed = @ + (IF Packs THEN length ELSE 0)]

(* Mutant: the branch number stays when the file is split.                    *)
NextBranch_Same(u) == u

NextBranch(u) == IF u.fBranchNum >= 0 THEN [u EXCEPT !.fBranchNum = @ + 1] ELSE u

(* A write to a file that is not open goes nowhere, but is counted.  There is    *)
(* no last branch to count it for if the first file was not opened.           *)
Write(u, item, length, run) ==
  IF u.status # "ok" THEN u
  ELSE IF u.branches = <<>> THEN [u EXCEPT !.status = "undefined"]
  ELSE LET v == [u EXCEPT !.branches[Len(u.branches)] = Count(@, length),
                          !.disk = IF u.isOpen
                                   THEN [u.disk EXCEPT ![u.fName] = Append(u.disk[u.fName], item)]
                                   ELSE u.disk]
       IN IF Full(Last(v.branches)) THEN Open(NextBranch(Close(v)), run) ELSE v

(* What the branches of a FileUtil hold, one by one.                          *)
Contents(u) == [i \in DOMAIN u.branches |-> u.disk[u.branches[i].file]]

=============================================================================
