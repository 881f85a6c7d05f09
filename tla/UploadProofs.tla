---------------------------- MODULE UploadProofs ----------------------------
(***************************************************************************)
(* What holds of the upload for any number of requests, any forms the pages*)
(* post and any limits: the order of parts and their names (Control), what *)
(* is on the disk (DiskInv), the pictures (PicturesInv), the directory of  *)
(* temporary files (TmpInv), and what the page shows (ToldInv, PageInv).   *)
(*                                                                         *)
(* The disk is shared, and all that keeps the files of two requests apart  *)
(* is their names.  So the proofs come in this order: names of different   *)
(* parts differ (StemsAreOwn); whatever a step writes was opened by a part *)
(* of its own request (Control); hence it leaves what others have written  *)
(* (OwnIsKept, PictureIsKept).                                             *)
(***************************************************************************)
EXTENDS UploadPage, FiniteSetTheorems, WellFoundedInduction, TLAPS

-----------------------------------------------------------------------------
\* The least and the greatest part of a form.

LessThan == {p \in Nat \X Nat : p[1] < p[2]}

LEMMA LessThanIsWellFounded == IsWellFoundedOn(LessThan, Nat)
<1>1. OpToRel(<, Nat) = LessThan
  BY DEF OpToRel, LessThan
<1> QED
  BY <1>1, NatLessThanWellFounded

LEMMA MinOfParts ==
  ASSUME NEW S \in SUBSET Nat, S # {}
  PROVE  Min(S) \in S /\ \A j \in S : Min(S) <= j
<1>1. PICK x \in S : \A y \in S : ~(<<y, x>> \in LessThan)
  BY LessThanIsWellFounded, WFMin
<1>2. ASSUME NEW y \in S PROVE x <= y
  <2>1. x \in Nat /\ y \in Nat
    OBVIOUS
  <2>2. ~(y < x)
    BY <1>1, <2>1 DEF LessThan
  <2> QED
    BY <2>1, <2>2
<1> QED
  BY <1>2 DEF Min

LEMMA MaxOfParts ==
  ASSUME NEW S \in SUBSET Nat, NEW m \in S, \A j \in S : j <= m
  PROVE  Max(S) = m
<1>1. \A j \in S : m >= j
  OBVIOUS
<1>2. Max(S) \in S /\ \A j \in S : Max(S) >= j
  BY <1>1 DEF Max
<1>3. Max(S) \in Nat /\ m \in Nat /\ Max(S) >= m /\ m >= Max(S)
  BY <1>1, <1>2
<1> HIDE DEF Max
<1> QED
  BY <1>3

-----------------------------------------------------------------------------
\* Which parts of a form are files, and where they go.

Files(r) == {i \in DOMAIN form[r].parts : Matches(form[r], i)}
Target(r, i, d) == [dir |-> <<FuncName(form[r]), d>>, name |-> getUploadFileName(r, i)]

LEMMA FormsOfRequests ==
  ASSUME form \in [Requests -> Forms], NEW r \in Requests
  PROVE  /\ Len(form[r].parts) \in Nat
         /\ DOMAIN form[r].parts = 1..Len(form[r].parts)
         /\ Files(r) \subseteq DOMAIN form[r].parts
         /\ Files(r) \subseteq Nat
  BY FormsAssumption DEF Files

LEMMA FilesOfRequests ==
  ASSUME form \in [Requests -> Forms], NEW r \in Requests, NEW i \in Files(r)
  PROVE  /\ ~Part(r, i).isFormField
         /\ Part(r, i).size \in Nat
         /\ Part(r, i).name = [stem |-> Part(r, i).name.stem, ext |-> Part(r, i).name.ext]
         /\ Part(r, i).name.stem \notin Requests \X Nat
         /\ \A k \in DOMAIN Sizes : Part(r, i).name.ext # Sizes[k]
<1>1. form[r] \in Forms /\ i \in DOMAIN form[r].parts /\ ~form[r].parts[i].isFormField
  BY DEF Files, Matches
<1> QED
  BY <1>1, FormsAssumption DEF Part

LEMMA RenamesAll ==
  ASSUME NEW r, NEW i
  PROVE  Renames(form[r], i) <=> ~KeepsNames(form[r])
  BY DEF Renames, KeepsNames

\* A new name is a UUID with the old extension, a kept one is that of the client.
LEMMA TargetNames ==
  ASSUME form \in [Requests -> Forms], NEW r \in Requests, NEW i \in Files(r), NEW d
  PROVE  /\ Target(r, i, d).dir = <<FuncName(form[r]), d>>
         /\ Target(r, i, d).name.ext = Part(r, i).name.ext
         /\ Target(r, i, d).name = [stem |-> Target(r, i, d).name.stem, ext |-> Part(r, i).name.ext]
         /\ KeepsNames(form[r]) => Target(r, i, d).name = Part(r, i).name
         /\ ~KeepsNames(form[r]) => Target(r, i, d).name.stem = <<r, i>>
<1> DEFINE n == Part(r, i).name
<1>0. n = [stem |-> n.stem, ext |-> n.ext]
  BY FilesOfRequests
<1>1. /\ Target(r, i, d).dir = <<FuncName(form[r]), d>>
      /\ Target(r, i, d).name = IF Renames(form[r], i) THEN [n EXCEPT !.stem = <<r, i>>] ELSE n
  BY DEF Target, getUploadFileName
<1> HIDE DEF n
<1>2. /\ [n EXCEPT !.stem = <<r, i>>] = [stem |-> <<r, i>>, ext |-> n.ext]
  BY <1>0
<1>3. CASE KeepsNames(form[r])
  <2>1. Target(r, i, d).name = n
    BY <1>1, <1>3, RenamesAll
  <2> QED
    BY <1>0, <1>1, <1>3, <2>1 DEF n
<1>4. CASE ~KeepsNames(form[r])
  <2>1. Target(r, i, d).name = [stem |-> <<r, i>>, ext |-> n.ext]
    BY <1>1, <1>2, <1>4, RenamesAll
  <2>2. Target(r, i, d).name.stem = <<r, i>> /\ Target(r, i, d).name.ext = n.ext
    BY <2>1
  <2> QED
    BY <1>1, <1>4, <2>1, <2>2 DEF n
<1> QED
  BY <1>3, <1>4

\* Whose names have a UUID in them.
LEMMA StemsAreOwn ==
  ASSUME form \in [Requests -> Forms],
         NEW r \in Requests, NEW i \in Files(r), NEW d, ~KeepsNames(form[r]),
         NEW q \in Requests, NEW j \in Files(q), NEW e,
         Target(r, i, d).name.stem = Target(q, j, e).name.stem
  PROVE  r = q /\ i = j
<1>1. Target(r, i, d).name.stem = <<r, i>>
  BY TargetNames
<1>2. i \in Nat
  BY FormsOfRequests
<1>3. CASE KeepsNames(form[q])
  <2>1. Target(q, j, e).name = Part(q, j).name
    BY <1>3, TargetNames
  <2>2. Part(q, j).name.stem = <<r, i>>
    BY <1>1, <2>1
  <2>3. Part(q, j).name.stem \notin Requests \X Nat
    BY FilesOfRequests
  <2> QED
    BY <1>2, <2>2, <2>3
<1>4. CASE ~KeepsNames(form[q])
  <2>1. Target(q, j, e).name.stem = <<q, j>>
    BY <1>4, TargetNames
  <2>2. <<q, j>> = <<r, i>>
    BY <1>1, <2>1
  <2> QED
    BY <2>2
<1> QED
  BY <1>3, <1>4

\* A file with a new name is written by one part of one request only.
LEMMA TargetIsOwn ==
  ASSUME form \in [Requests -> Forms],
         NEW r \in Requests, NEW i \in Files(r), NEW d, ~KeepsNames(form[r]),
         NEW q \in Requests, NEW j \in Files(q), NEW e,
         Target(r, i, d) = Target(q, j, e)
  PROVE  r = q /\ i = j
  BY StemsAreOwn

\* The pictures of an avatar have names of their own.
LEMMA ScaledNames ==
  ASSUME form \in [Requests -> Forms], NEW r \in Requests, NEW i \in Files(r), NEW d,
         NEW k \in DOMAIN Sizes
  PROVE  /\ Scaled(Target(r, i, d), k).name.ext = Sizes[k]
         /\ Scaled(Target(r, i, d), k).name.stem = Target(r, i, d).name.stem
<1> DEFINE n == Target(r, i, d).name
           p == [dir |-> <<FuncName(form[r]), d>>, name |-> getUploadFileName(r, i)]
<1>1. n = [stem |-> n.stem, ext |-> Part(r, i).name.ext]
  BY TargetNames
<1>2. n = getUploadFileName(r, i) /\ Target(r, i, d) = p
  BY DEF Target
<1> HIDE DEF n
<1>3. [n EXCEPT !.ext = Sizes[k]].ext = Sizes[k] /\ [n EXCEPT !.ext = Sizes[k]].stem = n.stem
  BY <1>1
<1>4. [p EXCEPT !.name.ext = Sizes[k]].name = [n EXCEPT !.ext = Sizes[k]]
  BY <1>2
<1>5. Scaled(p, k).name = [n EXCEPT !.ext = Sizes[k]]
  BY <1>4 DEF Scaled
<1> QED
  BY <1>2, <1>3, <1>5 DEF n

LEMMA ScaledNotTarget ==
  ASSUME form \in [Requests -> Forms],
         NEW r \in Requests, NEW i \in Files(r), NEW d,
         NEW q \in Requests, NEW j \in Files(q), NEW e, NEW k \in DOMAIN Sizes
  PROVE  Scaled(Target(q, j, e), k) # Target(r, i, d)
<1>1. Target(r, i, d).name.ext = Part(r, i).name.ext
  BY TargetNames
<1>2. Part(r, i).name.ext # Sizes[k]
  BY FilesOfRequests
<1>3. Scaled(Target(q, j, e), k).name.ext = Sizes[k]
  BY ScaledNames
<1> QED
  BY <1>1, <1>2, <1>3

LEMMA ScaledIsOwn ==
  ASSUME form \in [Requests -> Forms],
         NEW r \in Requests, NEW i \in Files(r), NEW d, ~KeepsNames(form[r]),
         NEW q \in Requests, NEW j \in Files(q), NEW e,
         NEW k \in DOMAIN Sizes, NEW l \in DOMAIN Sizes,
         Scaled(Target(r, i, d), k) = Scaled(Target(q, j, e), l)
  PROVE  r = q /\ i = j /\ k = l
<1>1. Target(q, j, e).name.stem = Target(r, i, d).name.stem
  BY ScaledNames
<1>2. Sizes[k] = Sizes[l]
  BY ScaledNames
<1>3. k = l
  BY <1>2 DEF Sizes
<1> QED
  BY <1>1, <1>3, StemsAreOwn
-----------------------------------------------------------------------------
\* The invariant of the control: who has written what, and under which name.

Stages == {"start", "parse", "files", "write", "scale", "scaling"} \cup Preparing \cup Ended

Types ==
  /\ form \in [Requests -> Forms]
  /\ at \in [Requests -> Stages]
  /\ left \in [Requests -> SUBSET Nat]
  /\ attr = [r \in Requests |-> attr[r]]
  /\ out = [r \in Requests |-> [path |-> out[r].path, part |-> out[r].part, blocks |-> out[r].blocks]]
  /\ \A r \in Requests : out[r].blocks \in Nat
  /\ disk = [p \in DOMAIN disk |-> disk[p]]
  /\ temps \subseteq Requests /\ (temps # {} => tmp = "dir")
  /\ tmp \in {"none", "file", "dir"}
  /\ day \in 0..MaxDay

\* What is written was written by a part of a form, under the name it asks for.
Wrote(r, i, p) == i \in Files(r) /\ \E d \in 0..MaxDay : p = Target(r, i, d)

\* The parts S of request r were all written, the last one under attr[r].
WrittenWhole(r, S) ==
  /\ \A i \in S : \E s \in saved : s.req = r /\ s.part = i
  /\ S # {} => [req |-> r, part |-> Max(S), path |-> attr[r]] \in saved

Opened(r) == Files(r) \ left[r]

\* Where a request is decides what it has written and what is left: before it
\* writes, at the parts in their order, one of them being written, at the
\* pictures, and when it is answered.
Progress(r) ==
  /\ at[r] \in Preparing \cup {"start", "parse"} =>
       out[r].part = 0 /\ attr[r] = NoAttr /\ \A s \in saved : s.req # r
  /\ at[r] \in {"files", "write"} =>
       /\ left[r] \subseteq Files(r)
       /\ \A i \in Opened(r), j \in left[r] : i < j
       /\ \A s \in saved : s.req = r => s.part \notin left[r]
  /\ at[r] = "files" =>
       /\ WrittenWhole(r, Opened(r))
       /\ attr[r] # NoAttr => Opened(r) # {}
  /\ at[r] = "write" =>
       /\ out[r].part \in Opened(r) /\ \A i \in Opened(r) : i <= out[r].part
       /\ attr[r] = out[r].path
       /\ \A i \in Opened(r) \ {out[r].part} : \E s \in saved : s.req = r /\ s.part = i
       /\ \A s \in saved : s.req = r => s.part # out[r].part
  /\ at[r] \in {"scale", "scaling"} => left[r] \subseteq DOMAIN Sizes
  /\ at[r] = "scaling" => left[r] # {}
  /\ at[r] \in {"scale", "scaling", "ok", "shown"} => WrittenWhole(r, Files(r))
  /\ at[r] \in {"scale", "scaling", "ok"} => Files(r) # {}

Paths ==
  /\ \A s \in saved : s.req \in Requests /\ Wrote(s.req, s.part, s.path)
  /\ \A r \in Requests : out[r].part # 0 => Wrote(r, out[r].part, out[r].path)

Control == Types /\ Paths /\ \A r \in Requests : Progress(r)

-----------------------------------------------------------------------------
\* What a step of one request leaves of the others.

Frame(q) ==
  /\ form' = form
  /\ \A r \in Requests \ {q} : /\ at'[r] = at[r] /\ left'[r] = left[r]
                               /\ attr'[r] = attr[r] /\ out'[r] = out[r]
  /\ saved \subseteq saved' /\ \A s \in saved' \ saved : s.req = q

LEMMA OthersProgress ==
  ASSUME Control, NEW q \in Requests, Frame(q)
  PROVE  \A r \in Requests \ {q} : Progress(r)'
<1> SUFFICES ASSUME NEW r \in Requests \ {q} PROVE Progress(r)'
  OBVIOUS
<1>1. /\ form' = form /\ at'[r] = at[r] /\ left'[r] = left[r]
      /\ attr'[r] = attr[r] /\ out'[r] = out[r] /\ saved \subseteq saved'
      /\ \A s \in saved' : s.req = r => s \in saved
  BY DEF Frame
<1>2. Files(r)' = Files(r) /\ Opened(r)' = Opened(r)
  BY <1>1 DEF Files, Opened, Matches
<1>3. Progress(r)
  BY DEF Control
<1>4. ASSUME NEW S, WrittenWhole(r, S) PROVE WrittenWhole(r, S)'
  BY <1>1, <1>4 DEF WrittenWhole
<1>5. at[r] = "files" => WrittenWhole(r, Opened(r))'
  BY <1>2, <1>3, <1>4 DEF Progress
<1>6. at[r] \in {"scale", "scaling", "ok", "shown"} => WrittenWhole(r, Files(r))'
  BY <1>2, <1>3, <1>4 DEF Progress
<1> QED
  BY <1>1, <1>2, <1>3, <1>5, <1>6 DEF Progress

LEMMA WroteKept ==
  ASSUME form' = form, NEW r, NEW i, NEW p, Wrote(r, i, p)
  PROVE  Wrote(r, i, p)'
  BY DEF Wrote, Files, Target, getUploadFileName, Part

LEMMA PathsKept == ASSUME Paths, UNCHANGED <<form, out, saved>> PROVE Paths'
  BY WroteKept DEF Paths

LEMMA Moved ==
  ASSUME Types, NEW q \in Requests, NEW place, Moves(q, place)
  PROVE  at'[q] = place /\ \A r \in Requests \ {q} : at'[r] = at[r]
  BY DEF Types, Moves

LEMMA FailedMoved ==
  ASSUME Types, NEW q \in Requests, Failed(q)
  PROVE  /\ at'[q] \in {"error", "nothing"}
         /\ \A r \in Requests \ {q} : at'[r] = at[r]
         /\ at' \in [Requests -> Stages]
  BY DEF Types, Failed, Moves, Stages, Ended

\* Steps that leave everything but the place of one request, and the directory
\* of temporary files, as it was.
LEMMA PlaceKeeps ==
  ASSUME Control, NEW q \in Requests,
         UNCHANGED <<form, left, attr, out, disk, day, saved>>,
         \A r \in Requests \ {q} : at'[r] = at[r],
         at' \in [Requests -> Stages],
         temps' \subseteq Requests, temps' # {} => tmp' = "dir", tmp' \in {"none", "file", "dir"},
         Progress(q)'
  PROVE  Control'
<1>1. Types'
  BY DEF Control, Types
<1>2. Paths'
  BY PathsKept DEF Control
<1>3. Frame(q)
  BY DEF Frame
<1>4. \A r \in Requests : Progress(r)'
  BY <1>3, OthersProgress
<1> QED
  BY <1>1, <1>2, <1>4 DEF Control

\* The same, if what Progress says of the new place held at the old one.
LEMMA ProgressAfter ==
  ASSUME Control, NEW q \in Requests, UNCHANGED <<form, left, attr, out, saved>>,
         \/ /\ at[q] \in Preparing \cup {"start", "parse"}
            /\ at'[q] \in Preparing \cup {"start", "parse", "error", "nothing"}
         \/ at'[q] \in {"error", "nothing"}
         \/ at[q] = "files" /\ left[q] = {} /\ at'[q] = "shown"
         \/ at[q] = "scale" /\ at'[q] = "ok"
  PROVE  Progress(q)'
<1>1. Files(q)' = Files(q) /\ Opened(q)' = Opened(q)
  BY DEF Files, Opened, Matches
<1>2. left[q] = {} => Opened(q) = Files(q)
  BY DEF Opened
<1>3. Progress(q)
  BY DEF Control
<1>4. ASSUME NEW S, WrittenWhole(q, S) PROVE WrittenWhole(q, S)'
  BY <1>4 DEF WrittenWhole
<1>5. at'[q] \in {"ok", "shown"} => WrittenWhole(q, Files(q))
  BY <1>2, <1>3 DEF Progress, Preparing
<1>6. at'[q] \in {"ok", "shown"} => WrittenWhole(q, Files(q))'
  BY <1>1, <1>4, <1>5
<1>7. at'[q] = "ok" => Files(q)' # {}
  BY <1>1, <1>3 DEF Progress, Preparing
<1> QED
  BY <1>1, <1>3, <1>6, <1>7 DEF Progress, Preparing

LEMMA PrepareKeeps ==
  ASSUME Control, NEW q \in Requests, Prepare(q) \/ ParseFails(q)
  PROVE  Control'
<1>0. Types
  BY DEF Control
<1>1. /\ UNCHANGED <<form, left, attr, out, disk, day, saved, temps>>
      /\ at[q] \in Preparing \cup {"start", "parse"}
      /\ tmp' \in {"none", "file", "dir"} /\ (temps # {} => tmp' = "dir")
  BY <1>0 DEF Prepare, CheckFile, CheckMissing, Delete, MakeDirs, ParseFails, Types, Preparing
<1>2. /\ at'[q] \in Preparing \cup {"parse", "error", "nothing"}
      /\ \A r \in Requests \ {q} : at'[r] = at[r]
      /\ at' \in [Requests -> Stages]
  <2>1. CASE ParseFails(q)
    BY <1>0, <2>1, FailedMoved DEF ParseFails
  <2>2. CASE Prepare(q)
    <3>1. PICK place \in Preparing \cup {"parse"} : Moves(q, place)
      BY <2>2 DEF Prepare, CheckFile, CheckMissing, Delete, MakeDirs, Preparing
    <3> QED
      BY <1>0, <3>1 DEF Types, Moves, Stages
  <2> QED
    BY <2>1, <2>2
<1>3. Progress(q)'
  BY <1>1, <1>2, ProgressAfter
<1> QED
  BY <1>0, <1>1, <1>2, <1>3, PlaceKeeps DEF Types

LEMMA EndsKeep ==
  ASSUME Control, NEW q \in Requests,
         WriteFails(q) \/ Forward(q) \/ ScaleFails(q) \/ printInfoBack(q)
  PROVE  Control'
<1>0. Types
  BY DEF Control
<1>1. UNCHANGED <<form, left, attr, out, disk, day, saved, temps, tmp>>
  BY DEF WriteFails, Forward, ScaleFails, printInfoBack
<1>2. /\ \/ at'[q] \in {"error", "nothing"}
         \/ at[q] = "files" /\ left[q] = {} /\ at'[q] = "shown"
         \/ at[q] = "scale" /\ at'[q] = "ok"
      /\ \A r \in Requests \ {q} : at'[r] = at[r]
      /\ at' \in [Requests -> Stages]
  <2>1. CASE WriteFails(q) \/ ScaleFails(q)
    BY <1>0, <2>1, FailedMoved DEF WriteFails, ScaleFails
  <2>2. CASE Forward(q) \/ printInfoBack(q)
    BY <1>0, <2>2, Moved DEF Forward, printInfoBack, Types, Stages, Ended, Moves
  <2> QED
    BY <2>1, <2>2
<1>3. Progress(q)'
  BY <1>1, <1>2, ProgressAfter
<1> QED
  BY <1>0, <1>1, <1>2, <1>3, PlaceKeeps DEF Types

LEMMA ParseKeeps ==
  ASSUME Control, NEW q \in Requests, Parse(q)
  PROVE  Control'
<1>0. Types /\ Progress(q) /\ Paths
  BY DEF Control
<1>1. /\ at[q] = "parse" /\ Moves(q, "files")
      /\ left' = [left EXCEPT ![q] = Files(q)]
      /\ UNCHANGED <<form, attr, out, disk, tmp, day, saved>>
      /\ temps' \subseteq Requests /\ (temps' # {} => tmp = "dir")
  BY <1>0 DEF Parse, Types, Files
<1>2. at'[q] = "files" /\ \A r \in Requests \ {q} : at'[r] = at[r]
  BY <1>0, <1>1, Moved
<1>3. left'[q] = Files(q) /\ \A r \in Requests \ {q} : left'[r] = left[r]
  BY <1>0, <1>1 DEF Types
<1>4. Types'
  <2>1. Files(q) \in SUBSET Nat
    BY <1>0, FormsOfRequests DEF Types
  <2>2. at' \in [Requests -> Stages]
    BY <1>0, <1>1 DEF Types, Moves, Stages
  <2> QED
    BY <1>0, <1>1, <2>1, <2>2 DEF Types
<1>5. Paths'
  BY <1>0, <1>1, PathsKept
<1>6. Files(q)' = Files(q)
  BY <1>1 DEF Files, Matches
<1>7. Opened(q)' = {}
  BY <1>3, <1>6 DEF Opened
<1>8. Progress(q)'
  BY <1>0, <1>1, <1>2, <1>3, <1>6, <1>7 DEF Progress, WrittenWhole, Preparing
<1>9. Frame(q)
  BY <1>1, <1>2, <1>3 DEF Frame
<1> QED
  BY <1>4, <1>5, <1>8, <1>9, OthersProgress DEF Control

\* The first part that is left is taken: behind all that were, before the rest.
LEMMA FirstLeft ==
  ASSUME Types, NEW q \in Requests, left[q] # {}
  PROVE  /\ Min(left[q]) \in left[q] /\ Min(left[q]) \in Nat
         /\ \A j \in left[q] : Min(left[q]) <= j
<1>1. left[q] \in SUBSET Nat
  BY DEF Types
<1> QED
  BY <1>1, MinOfParts

LEMMA doUploadKeeps ==
  ASSUME Control, NEW q \in Requests, doUpload(q)
  PROVE  Control'
<1> DEFINE i == Min(left[q])
           target == Target(q, i, day)
<1>0. Types /\ Progress(q) /\ Paths
  BY DEF Control
<1>1. /\ at[q] = "files" /\ left[q] # {}
      /\ attr' = [attr EXCEPT ![q] = target]
      /\ left' = [left EXCEPT ![q] = @ \ {i}]
      /\ \/ Failed(q) /\ UNCHANGED <<out, disk>>
         \/ /\ Moves(q, "write")
            /\ out' = [out EXCEPT ![q] = [path |-> target, part |-> i, blocks |-> 0]]
            /\ disk' = [p \in DOMAIN disk \cup {target} |-> IF p = target THEN <<>> ELSE disk[p]]
      /\ UNCHANGED <<form, tmp, temps, day, saved>>
  BY DEF doUpload, Target, getRelativePath
<1>2. /\ i \in left[q] /\ i \in Nat
      /\ \A j \in left[q] : i <= j
  BY <1>0, <1>1, FirstLeft
<1>3. /\ left[q] \subseteq Files(q) /\ Files(q) \subseteq Nat /\ i \in Files(q)
      /\ \A k \in Opened(q), j \in left[q] : k < j
  BY <1>0, <1>1, <1>2, FormsOfRequests DEF Progress, Types
<1>4. Wrote(q, i, target)
  BY <1>0, <1>3 DEF Wrote, Types
<1> HIDE DEF i, target
<1>5. /\ left'[q] = left[q] \ {i} /\ attr'[q] = target
      /\ \A r \in Requests \ {q} : left'[r] = left[r] /\ attr'[r] = attr[r]
      /\ left' \in [Requests -> SUBSET Nat] /\ attr' = [r \in Requests |-> attr'[r]]
  BY <1>0, <1>1 DEF Types
<1>6. Files(q)' = Files(q) /\ Opened(q)' = Opened(q) \cup {i}
  <2>1. Files(q)' = Files(q)
    BY <1>1 DEF Files
  <2> QED
    BY <1>2, <1>3, <1>5, <2>1 DEF Opened
<1>7. \A k \in Opened(q)', j \in left'[q] : k < j
  <2>1. \A j \in left'[q] : j \in Nat /\ i <= j /\ i # j
    BY <1>2, <1>3, <1>5
  <2>2. \A j \in left'[q] : i < j
    BY <1>2, <2>1
  <2> QED
    BY <1>3, <1>5, <1>6, <2>2
<1>8. \A r \in Requests \ {q} : at'[r] = at[r]
  BY <1>0, <1>1, Moved, FailedMoved
<1>9. CASE Failed(q) /\ UNCHANGED <<out, disk>>
  <2>1. at'[q] \in {"error", "nothing"} /\ at' \in [Requests -> Stages]
    BY <1>0, <1>9, FailedMoved
  <2>2. Types'
    BY <1>0, <1>1, <1>5, <1>9, <2>1 DEF Types
  <2>3. Paths'
    BY <1>0, <1>1, <1>9, PathsKept
  <2>4. Progress(q)'
    BY <2>1 DEF Progress, Preparing
  <2>5. Frame(q)
    BY <1>1, <1>5, <1>8, <1>9 DEF Frame
  <2> QED
    BY <2>2, <2>3, <2>4, <2>5, OthersProgress DEF Control
<1>10. CASE /\ Moves(q, "write")
            /\ out' = [out EXCEPT ![q] = [path |-> target, part |-> i, blocks |-> 0]]
            /\ disk' = [p \in DOMAIN disk \cup {target} |-> IF p = target THEN <<>> ELSE disk[p]]
  <2>1. at'[q] = "write" /\ at' \in [Requests -> Stages]
    BY <1>0, <1>10, Moved DEF Types, Moves, Stages
  <2>2. /\ out'[q] = [path |-> target, part |-> i, blocks |-> 0]
        /\ \A r \in Requests \ {q} : out'[r] = out[r]
        /\ out' = [r \in Requests |-> out'[r]]
    BY <1>0, <1>10 DEF Types
  <2>3. out'[q].path = target /\ out'[q].part = i /\ out'[q].blocks = 0
    BY <2>2
  <2>4. disk' = [p \in DOMAIN disk' |-> disk'[p]]
    BY <1>10
  <2>5. out' = [r \in Requests |-> [path |-> out'[r].path, part |-> out'[r].part, blocks |-> out'[r].blocks]]
    <3>1. \A r \in Requests \ {q} : out[r] = [path |-> out[r].path, part |-> out[r].part, blocks |-> out[r].blocks]
      BY <1>0 DEF Types
    <3>2. \A r \in Requests : out'[r] = [path |-> out'[r].path, part |-> out'[r].part, blocks |-> out'[r].blocks]
      BY <2>2, <2>3, <3>1
    <3> QED
      BY <2>2, <3>2
  <2>6. \A r \in Requests : out'[r].blocks \in Nat
    BY <1>0, <2>2, <2>3 DEF Types
  <2>7. Types'
    BY <1>0, <1>1, <1>5, <2>1, <2>4, <2>5, <2>6 DEF Types
  <2>8. Paths'
    BY <1>0, <1>1, <1>4, <2>2, <2>3, WroteKept DEF Paths
  <2>9. Progress(q)'
    <3>1. out'[q].part \in Opened(q)' /\ \A k \in Opened(q)' : k <= out'[q].part
      <4>1. \A k \in Opened(q) : k \in Nat /\ k < i
        BY <1>2, <1>3 DEF Opened
      <4> QED
        BY <1>2, <1>6, <2>3, <4>1
    <3>2. \A s \in saved : s.req = q => s.part \notin left[q]
      BY <1>0, <1>1 DEF Progress
    <3>3. \A s \in saved' : s.req = q => s.part \notin left'[q] /\ s.part # i
      BY <1>1, <1>2, <1>5, <3>2
    <3>4. \A k \in Opened(q)' \ {i} : \E s \in saved' : s.req = q /\ s.part = k
      <4>1. WrittenWhole(q, Opened(q))
        BY <1>0, <1>1 DEF Progress
      <4> QED
        BY <1>1, <1>6, <4>1 DEF WrittenWhole
    <3>5. left'[q] \subseteq Files(q)'
      BY <1>3, <1>5, <1>6
    <3> QED
      BY <1>5, <1>7, <2>1, <2>3, <3>1, <3>3, <3>4, <3>5 DEF Progress, Preparing
  <2>10. Frame(q)
    BY <1>1, <1>5, <1>8, <2>2 DEF Frame
  <2> QED
    BY <2>7, <2>8, <2>9, <2>10, OthersProgress DEF Control
<1> QED
  BY <1>1, <1>9, <1>10

LEMMA writeToStreamKeeps ==
  ASSUME Control, NEW q \in Requests, writeToStream(q)
  PROVE  Control'
<1> DEFINE o == out[q]
<1>0. Types /\ Progress(q) /\ Paths
  BY DEF Control
<1>1. /\ at[q] = "write"
      /\ disk' = [disk EXCEPT ![o.path] = PutBlock(@, o.blocks + 1, <<q, o.part>>)]
      /\ out' = [out EXCEPT ![q].blocks = @ + 1]
      /\ UNCHANGED <<form, at, left, attr, tmp, temps, day, saved>>
  BY DEF writeToStream
<1>2. o = [path |-> o.path, part |-> o.part, blocks |-> o.blocks] /\ o.blocks \in Nat
  BY <1>0 DEF Types
<1>3. /\ out'[q] = [path |-> o.path, part |-> o.part, blocks |-> o.blocks + 1]
      /\ \A r \in Requests \ {q} : out'[r] = out[r]
      /\ out' = [r \in Requests |-> out'[r]]
  <2>1. out = [r \in Requests |-> out[r]]
    BY <1>0 DEF Types
  <2>2. [o EXCEPT !.blocks = @ + 1] = [path |-> o.path, part |-> o.part, blocks |-> o.blocks + 1]
    BY <1>2
  <2>3. out' = [out EXCEPT ![q] = [o EXCEPT !.blocks = @ + 1]]
    BY <1>1
  <2> HIDE DEF o
  <2> QED
    BY <2>1, <2>2, <2>3
<1>4. /\ out'[q].path = o.path /\ out'[q].part = o.part /\ out'[q].blocks = o.blocks + 1
  BY <1>3
<1>5. Types'
  <2>1. out' = [r \in Requests |-> [path |-> out'[r].path, part |-> out'[r].part, blocks |-> out'[r].blocks]]
    <3>1. \A r \in Requests \ {q} : out[r] = [path |-> out[r].path, part |-> out[r].part, blocks |-> out[r].blocks]
      BY <1>0 DEF Types
    <3>2. \A r \in Requests : out'[r] = [path |-> out'[r].path, part |-> out'[r].part, blocks |-> out'[r].blocks]
      BY <1>3, <1>4, <3>1
    <3> QED
      BY <1>3, <3>2
  <2>2. \A r \in Requests : out'[r].blocks \in Nat
    BY <1>0, <1>2, <1>3, <1>4 DEF Types
  <2>3. disk' = [p \in DOMAIN disk' |-> disk'[p]]
    BY <1>0, <1>1 DEF Types
  <2> QED
    BY <1>0, <1>1, <2>1, <2>2, <2>3 DEF Types
<1>6. Paths'
  BY <1>0, <1>1, <1>3, <1>4, WroteKept DEF Paths
<1>7. Files(q)' = Files(q) /\ Opened(q)' = Opened(q)
  BY <1>1 DEF Files, Opened
<1>8. Progress(q)'
  BY <1>0, <1>1, <1>4, <1>7 DEF Progress, Preparing
<1>9. Frame(q)
  BY <1>1, <1>3 DEF Frame
<1> QED
  BY <1>5, <1>6, <1>8, <1>9, OthersProgress DEF Control

\* A part that was closed is the last that was opened.
LEMMA CloseStreamKeeps ==
  ASSUME Control, NEW q \in Requests, CloseStream(q)
  PROVE  Control'
<1> DEFINE o == out[q]
           rec == [req |-> q, part |-> o.part, path |-> o.path]
<1>0. Types /\ Progress(q) /\ Paths
  BY DEF Control
<1>1. /\ at[q] = "write" /\ Moves(q, "files")
      /\ saved' = saved \cup {rec}
      /\ UNCHANGED <<form, left, attr, out, disk, tmp, temps, day>>
  BY DEF CloseStream
<1>2. at'[q] = "files" /\ \A r \in Requests \ {q} : at'[r] = at[r]
  BY <1>0, <1>1, Moved
<1>3. rec.req = q /\ rec.part = o.part /\ rec.path = o.path
  OBVIOUS
<1>4. /\ left[q] \subseteq Files(q)
      /\ \A i \in Opened(q), j \in left[q] : i < j
      /\ \A s \in saved : s.req = q => s.part \notin left[q]
      /\ o.part \in Opened(q) /\ \A i \in Opened(q) : i <= o.part
      /\ attr[q] = o.path
      /\ \A i \in Opened(q) \ {o.part} : \E s \in saved : s.req = q /\ s.part = i
  BY <1>0, <1>1 DEF Progress
<1>5. Files(q)' = Files(q) /\ Opened(q)' = Opened(q)
  BY <1>1 DEF Files, Opened
<1>6. Opened(q) \in SUBSET Nat /\ o.part \in Files(q) /\ o.part \notin left[q] /\ o.part # 0
  <2>1. DOMAIN form[q].parts = 1..Len(form[q].parts) /\ Files(q) \subseteq DOMAIN form[q].parts
        /\ Files(q) \subseteq Nat
    BY <1>0, FormsOfRequests DEF Types
  <2>2. o.part \in Files(q) /\ o.part \notin left[q]
    BY <1>4 DEF Opened
  <2> QED
    BY <2>1, <2>2 DEF Opened
<1>7. Max(Opened(q)) = o.part
  BY <1>4, <1>6, MaxOfParts
<1>8. Types'
  BY <1>0, <1>1 DEF Types, Moves, Stages
<1>9. Paths'
  <2>1. Wrote(q, o.part, o.path)
    BY <1>0, <1>6 DEF Paths
  <2> QED
    BY <1>0, <1>1, <1>3, <2>1, WroteKept DEF Paths
<1>10. WrittenWhole(q, Opened(q))'
  <2>1. \A i \in Opened(q)' : \E s \in saved' : s.req = q /\ s.part = i
    BY <1>1, <1>3, <1>4, <1>5
  <2>2. [req |-> q, part |-> Max(Opened(q)'), path |-> attr'[q]] \in saved'
    BY <1>1, <1>4, <1>5, <1>7
  <2> QED
    BY <2>1, <2>2 DEF WrittenWhole
<1> HIDE DEF rec
<1>11. \A s \in saved' : s.req = q => s.part \notin left'[q]
  BY <1>1, <1>3, <1>4, <1>6
<1>12. Progress(q)'
  BY <1>1, <1>2, <1>4, <1>5, <1>10, <1>11 DEF Progress, Preparing
<1>13. Frame(q)
  BY <1>1, <1>2, <1>3 DEF Frame
<1> QED
  BY <1>8, <1>9, <1>12, <1>13, OthersProgress DEF Control

LEMMA ResizeKeeps ==
  ASSUME Control, NEW q \in Requests, Resize(q)
  PROVE  Control'
<1>0. Types /\ Progress(q) /\ Paths
  BY DEF Control
<1>1. /\ at[q] = "files" /\ left[q] = {}
      /\ \/ attr[q] = NoAttr /\ Failed(q) /\ UNCHANGED left
         \/ attr[q] # NoAttr /\ Moves(q, "scale") /\ left' = [left EXCEPT ![q] = DOMAIN Sizes]
      /\ UNCHANGED <<form, attr, out, disk, tmp, temps, day, saved>>
  BY DEF Resize
<1>2. CASE Failed(q) /\ UNCHANGED left
  <2>1. /\ at'[q] \in {"error", "nothing"} /\ at' \in [Requests -> Stages]
        /\ \A r \in Requests \ {q} : at'[r] = at[r]
    BY <1>0, <1>2, FailedMoved
  <2>2. Progress(q)'
    BY <1>1, <1>2, <2>1, ProgressAfter
  <2> QED
    BY <1>0, <1>1, <1>2, <2>1, <2>2, PlaceKeeps DEF Types
<1>3. CASE attr[q] # NoAttr /\ Moves(q, "scale") /\ left' = [left EXCEPT ![q] = DOMAIN Sizes]
  <2>1. /\ at'[q] = "scale" /\ \A r \in Requests \ {q} : at'[r] = at[r]
    BY <1>0, <1>3, Moved
  <2>2. /\ left'[q] = DOMAIN Sizes /\ \A r \in Requests \ {q} : left'[r] = left[r]
    BY <1>0, <1>3 DEF Types
  <2>3. Types'
    <3>1. DOMAIN Sizes \in SUBSET Nat
      BY DEF Sizes
    <3>2. left' \in [Requests -> SUBSET Nat]
      BY <1>0, <1>3, <3>1 DEF Types
    <3>3. at' \in [Requests -> Stages]
      BY <1>0, <1>3 DEF Types, Moves, Stages
    <3> QED
      BY <1>0, <1>1, <3>2, <3>3 DEF Types
  <2>4. Paths'
    BY <1>0, <1>1, PathsKept
  <2>5. Opened(q) = Files(q)
    BY <1>1 DEF Opened
  <2>6. Files(q)' = Files(q)
    BY <1>1 DEF Files
  <2>7. WrittenWhole(q, Files(q)) /\ Files(q) # {}
    BY <1>0, <1>1, <1>3, <2>5 DEF Progress
  <2>8. WrittenWhole(q, Files(q))'
    BY <1>1, <2>6, <2>7 DEF WrittenWhole
  <2>9. Progress(q)'
    BY <2>1, <2>2, <2>6, <2>7, <2>8 DEF Progress, Preparing
  <2>10. Frame(q)
    BY <1>1, <2>1, <2>2 DEF Frame
  <2> QED
    BY <2>3, <2>4, <2>9, <2>10, OthersProgress DEF Control
<1> QED
  BY <1>1, <1>2, <1>3

\* The pictures: left goes down, and only files are written.
LEMMA PicturesKeep ==
  ASSUME Control, NEW q \in Requests, OpenScaled(q) \/ scale(q)
  PROVE  Control'
<1>0. Types /\ Progress(q) /\ Paths
  BY DEF Control
<1>1. UNCHANGED <<form, attr, out, tmp, temps, day, saved>> /\ at[q] \in {"scale", "scaling"}
  BY DEF OpenScaled, scale
<1>2. /\ at'[q] \in {"scale", "scaling"} /\ (at'[q] = "scaling" => left'[q] # {})
      /\ \A r \in Requests \ {q} : at'[r] = at[r] /\ left'[r] = left[r]
      /\ at' \in [Requests -> Stages]
      /\ left'[q] \subseteq left[q] /\ left' \in [Requests -> SUBSET Nat]
  <2>1. CASE OpenScaled(q)
    <3>1. Moves(q, "scaling") /\ left' = left /\ left[q] # {}
      BY <2>1 DEF OpenScaled
    <3> QED
      BY <1>0, <3>1, Moved DEF Types, Moves, Stages
  <2>2. CASE scale(q)
    <3>1. Moves(q, "scale") /\ left' = [left EXCEPT ![q] = left[q] \ {Min(left[q])}]
      BY <2>2 DEF scale
    <3>2. at'[q] = "scale" /\ \A r \in Requests \ {q} : at'[r] = at[r]
      BY <1>0, <3>1, Moved
    <3>3. at' \in [Requests -> Stages]
      BY <1>0, <3>1 DEF Types, Moves, Stages
    <3> QED
      BY <1>0, <3>1, <3>2, <3>3 DEF Types
  <2> QED
    BY <2>1, <2>2
<1>3. disk' = [p \in DOMAIN disk' |-> disk'[p]]
  BY <1>0 DEF OpenScaled, scale, Types
<1>4. Types'
  BY <1>0, <1>1, <1>2, <1>3 DEF Types
<1>5. Paths'
  BY <1>0, <1>1, PathsKept
<1>6. Files(q)' = Files(q)
  BY <1>1 DEF Files
<1>7. WrittenWhole(q, Files(q)) /\ Files(q) # {} /\ left[q] \subseteq DOMAIN Sizes
  BY <1>0, <1>1 DEF Progress
<1>8. WrittenWhole(q, Files(q))'
  BY <1>1, <1>6, <1>7 DEF WrittenWhole
<1>9. Progress(q)'
  BY <1>2, <1>6, <1>7, <1>8 DEF Progress, Preparing
<1>10. Frame(q)
  BY <1>1, <1>2 DEF Frame
<1> QED
  BY <1>4, <1>5, <1>9, <1>10, OthersProgress DEF Control

\* The clock, the temporary files of ended requests, and no step at all.
LEMMA ClockKeeps ==
  ASSUME Control, UNCHANGED <<form, at, left, attr, out, disk, tmp, saved>>,
         temps' \subseteq temps, day' \in 0..MaxDay
  PROVE  Control'
<1>1. Types'
  BY DEF Control, Types
<1>2. Paths'
  BY PathsKept DEF Control
<1>3. ASSUME NEW r \in Requests PROVE Progress(r)'
  <2>1. Files(r)' = Files(r) /\ Opened(r)' = Opened(r)
    BY DEF Files, Opened
  <2>2. ASSUME NEW S, WrittenWhole(r, S) PROVE WrittenWhole(r, S)'
    BY <2>2 DEF WrittenWhole
  <2>3. Progress(r)
    BY DEF Control
  <2>4. at[r] = "files" => WrittenWhole(r, Opened(r))'
    BY <2>1, <2>2, <2>3 DEF Progress
  <2>5. at[r] \in {"scale", "scaling", "ok", "shown"} => WrittenWhole(r, Files(r))'
    BY <2>1, <2>2, <2>3 DEF Progress
  <2> QED
    BY <2>1, <2>3, <2>4, <2>5 DEF Progress
<1> QED
  BY <1>1, <1>2, <1>3 DEF Control

LEMMA InitControl == Init => Control
<1> SUFFICES ASSUME Init PROVE Control
  OBVIOUS
<1>1. Types
  <2>1. \A r \in Requests : out[r] = [path |-> NoAttr, part |-> 0, blocks |-> 0]
    BY DEF Init
  <2>2. \A r \in Requests : out[r].path = NoAttr /\ out[r].part = 0 /\ out[r].blocks = 0
    BY <2>1
  <2>3. out = [r \in Requests |-> [path |-> out[r].path, part |-> out[r].part, blocks |-> out[r].blocks]]
    BY <2>2 DEF Init
  <2>4. at \in [Requests -> Stages] /\ left \in [Requests -> SUBSET Nat]
        /\ attr = [r \in Requests |-> attr[r]]
    BY DEF Init, Stages
  <2>5. disk = [p \in DOMAIN disk |-> disk[p]]
    BY DEF Init
  <2> QED
    BY <2>2, <2>3, <2>4, <2>5 DEF Init, Types, MaxDay
<1>2. \A r \in Requests : out[r].part = 0 /\ attr[r] = NoAttr /\ at[r] = "start"
  BY DEF Init
<1>3. saved = {}
  BY DEF Init
<1>4. Paths
  BY <1>2, <1>3 DEF Paths
<1>5. \A r \in Requests : Progress(r)
  BY <1>2, <1>3 DEF Progress
<1> QED
  BY <1>1, <1>4, <1>5 DEF Control

LEMMA NextControl == Control /\ [Next]_vars => Control'
<1> SUFFICES ASSUME Control, [Next]_vars PROVE Control'
  OBVIOUS
<1>1. CASE UNCHANGED vars \/ Midnight \/ \E q \in Requests : Collect(q)
  <2>1. day \in 0..MaxDay
    BY DEF Control, Types
  <2>2. UNCHANGED <<form, at, left, attr, out, disk, tmp, saved>> /\ temps' \subseteq temps
    BY <1>1 DEF vars, Midnight, Collect
  <2>3. day' \in 0..MaxDay
    BY <1>1, <2>1 DEF vars, Midnight, Collect, MaxDay
  <2> QED
    BY <2>2, <2>3, ClockKeeps
<1>2. ASSUME NEW q \in Requests, doPost(q) PROVE Control'
  BY <1>2, PrepareKeeps, ParseKeeps, doUploadKeeps, writeToStreamKeeps, CloseStreamKeeps,
     EndsKeep, ResizeKeeps, PicturesKeep
  DEF doPost, uploadManyFiles, ajaxUploadAvatar
<1> QED
  BY <1>1, <1>2 DEF Next

LEMMA ControlInvariant == Spec => []Control
  BY InitControl, NextControl, PTL DEF Spec

\* The file an answer names was written whole, and so was every other file of
\* the form, whatever failed and whenever midnight passed.
THEOREM SuccessIsAlwaysComplete == Spec => []SuccessIsComplete
<1>1. Control => SuccessIsComplete
  <2> SUFFICES ASSUME Control, NEW r \in Requests, at[r] \in Success
               PROVE  /\ \A i \in Files(r) : \E s \in saved : s.req = r /\ s.part = i
                      /\ Files(r) # {} => [req |-> r, part |-> Max(Files(r)), path |-> attr[r]] \in saved
    BY DEF SuccessIsComplete, Files
  <2>1. WrittenWhole(r, Files(r))
    BY DEF Control, Progress, Success
  <2> QED
    BY <2>1 DEF WrittenWhole
<1> QED
  BY <1>1, ControlInvariant, PTL

\* A name says whether it was kept, and a directory what funcName was.
LEMMA WroteNames ==
  ASSUME form \in [Requests -> Forms], NEW r \in Requests, NEW i, NEW p, Wrote(r, i, p)
  PROVE  /\ p.name \in Names[r] <=> KeepsNames(form[r])
         /\ p.dir[1] = FuncName(form[r])
<1>1. PICK d \in 0..MaxDay : i \in Files(r) /\ p = Target(r, i, d)
  BY DEF Wrote
<1>2. p.dir[1] = FuncName(form[r])
  <2>1. p.dir = <<FuncName(form[r]), d>>
    BY <1>1, TargetNames
  <2> QED
    BY <2>1
<1> DEFINE names == {Part(r, k).name : k \in {l \in DOMAIN form[r].parts : ~Part(r, l).isFormField}}
<1>3. Names[r] = names
  BY DEF Names, FileParts
<1>4. i \in DOMAIN form[r].parts /\ ~Part(r, i).isFormField /\ i \in Nat
  BY <1>1, FilesOfRequests, FormsOfRequests
<1>5. CASE KeepsNames(form[r])
  <2>1. p.name = Part(r, i).name
    BY <1>1, <1>5, TargetNames
  <2> QED
    BY <1>2, <1>3, <1>4, <1>5, <2>1
<1>6. CASE ~KeepsNames(form[r])
  <2>1. p.name.stem = <<r, i>>
    BY <1>1, <1>6, TargetNames
  <2>2. ASSUME NEW k \in DOMAIN form[r].parts, ~Part(r, k).isFormField
        PROVE  Part(r, k).name # p.name
    <3>1. form[r] \in Forms /\ ~form[r].parts[k].isFormField
      BY <2>2 DEF Part
    <3>2. Part(r, k).name.stem \notin Requests \X Nat
      BY <3>1, FormsAssumption DEF Part
    <3>3. <<r, i>> \in Requests \X Nat
      BY <1>4
    <3> QED
      BY <2>1, <3>2, <3>3
  <2>3. p.name \notin names
    BY <2>2
  <2> QED
    BY <1>2, <1>3, <1>6, <2>3
<1> QED
  BY <1>5, <1>6

\* The two passes over the form: isRename and funcName rule all of its files.
THEOREM FieldsAlwaysRuleAll == Spec => []FieldsRuleAllFiles
<1>1. Control => FieldsRuleAllFiles
  <2> SUFFICES ASSUME Control, NEW s \in saved
               PROVE  /\ (s.path.name \in Names[s.req]) = KeepsNames(form[s.req])
                      /\ \A t \in saved : t.req = s.req => t.path.dir[1] = s.path.dir[1]
    BY DEF FieldsRuleAllFiles
  <2>1. \A t \in saved : /\ t.path.name \in Names[t.req] <=> KeepsNames(form[t.req])
                         /\ t.path.dir[1] = FuncName(form[t.req])
    BY WroteNames DEF Control, Types, Paths
  <2>2. KeepsNames(form[s.req]) \in BOOLEAN
    BY DEF KeepsNames
  <2>3. (s.path.name \in Names[s.req]) = KeepsNames(form[s.req])
    BY <2>1, <2>2
  <2> QED
    BY <2>1, <2>3
<1> QED
  BY <1>1, ControlInvariant, PTL
-----------------------------------------------------------------------------
\* The invariant of the disk: what was given a new name is its owner's.

\* What has been written of part i of request r, after n blocks.
Prefix(r, i, n) == [k \in 1..n |-> <<r, i>>]
Stored(p, file) == p \in DOMAIN disk /\ disk[p] = file

SavedBy(r, p) == \E s \in saved : s.req = r /\ s.path = p

Stream(r) ==
  LET o == out[r] IN
  /\ at[r] = "write" => o.path \in DOMAIN disk /\ o.blocks <= Part(r, o.part).size
  /\ at[r] \in {"files", "write", "scale", "scaling", "nothing"} /\ o.part # 0 /\ ~KeepsNames(form[r]) =>
       \/ at[r] # "write" /\ SavedBy(r, o.path)
       \/ /\ at[r] \in {"write", "nothing"}
          /\ o.blocks <= Part(r, o.part).size
          /\ Stored(o.path, Prefix(r, o.part, o.blocks))

SavedIsStored ==
  \A s \in saved : ~KeepsNames(form[s.req]) => Stored(s.path, Content(s.req, s.part))

DiskInv == SavedIsStored /\ \A r \in Requests : Stream(r)

\* The pictures that were scaled are those of the last file of the form.
Pictures(r) ==
  /\ at[r] = "scaling" => Scaled(attr[r], Min(left[r])) \in DOMAIN disk
  /\ at[r] \in {"scale", "scaling", "ok"} /\ ~KeepsNames(form[r]) =>
       \A k \in DOMAIN Sizes : at[r] = "ok" \/ k \notin left[r] =>
         Stored(Scaled(attr[r], k), Content(r, Max(Files(r))))

\* What blocks come to.

LEMMA PrefixIsSeq ==
  ASSUME NEW r, NEW i, NEW n \in Nat
  PROVE  /\ Prefix(r, i, n) \in Seq({<<r, i>>}) /\ Len(Prefix(r, i, n)) = n
         /\ \A k \in 1..n : Prefix(r, i, n)[k] = <<r, i>>
<1> DEFINE x == <<r, i>>
<1> HIDE DEF x
<1>1. /\ [k \in 1..n |-> x] \in Seq({x}) /\ Len([k \in 1..n |-> x]) = n
      /\ \A k \in 1..n : [j \in 1..n |-> x][k] = x
  OBVIOUS
<1> QED
  BY <1>1 DEF Prefix, x

LEMMA NothingWritten == ASSUME NEW r, NEW i PROVE Prefix(r, i, 0) = <<>>
<1> DEFINE file == Prefix(r, i, 0)
           x == <<r, i>>
<1>1. file \in Seq({x}) /\ Len(file) = 0
  BY PrefixIsSeq
<1> HIDE DEF file, x
<1>2. file = <<>>
  BY <1>1
<1> QED
  BY <1>2 DEF file

LEMMA NextWritten ==
  ASSUME NEW r, NEW i, NEW n \in Nat
  PROVE  PutBlock(Prefix(r, i, n), n + 1, <<r, i>>) = Prefix(r, i, n + 1)
<1>1. Len(Prefix(r, i, n)) = n /\ \A k \in 1..n : Prefix(r, i, n)[k] = <<r, i>>
  BY PrefixIsSeq
<1>2. Max({n + 1, n}) = n + 1
  <2>1. {n + 1, n} \in SUBSET Nat /\ n + 1 \in {n + 1, n} /\ \A j \in {n + 1, n} : j <= n + 1
    OBVIOUS
  <2> QED
    BY <2>1, MaxOfParts
<1> DEFINE file == Prefix(r, i, n)
           x == <<r, i>>
<1> HIDE DEF file, x
<1>3. \A j \in 1..(n + 1) : (IF j = n + 1 THEN x ELSE IF j <= n THEN file[j] ELSE Hole) = x
  BY <1>1 DEF file, x
<1>4. PutBlock(file, n + 1, x) = [j \in 1..(n + 1) |-> x]
  BY <1>1, <1>2, <1>3 DEF PutBlock, file
<1> QED
  BY <1>4 DEF Prefix, file, x

LEMMA AllWritten ==
  ASSUME NEW r, NEW i
  PROVE  Prefix(r, i, Part(r, i).size) = Content(r, i)
  BY DEF Prefix, Content

LEMMA BeginningWritten ==
  ASSUME NEW r, NEW i, Part(r, i).size \in Nat, NEW n \in Nat, n <= Part(r, i).size
  PROVE  SubSeq(Content(r, i), 1, n) = Prefix(r, i, n)
<1> DEFINE m == Part(r, i).size
           c == Prefix(r, i, m)
           x == <<r, i>>
<1>1. c \in Seq({x}) /\ Len(c) = m /\ \A k \in 1..m : c[k] = x
  BY PrefixIsSeq
<1>2. c = Content(r, i)
  BY AllWritten
<1> HIDE DEF m, c, x
<1>3. m \in Nat /\ n <= m
  BY DEF m
<1>4. SubSeq(c, 1, n) = [k \in 1..n |-> x]
  BY <1>1, <1>3
<1> QED
  BY <1>2, <1>4 DEF Prefix, x

-----------------------------------------------------------------------------
\* What a step writes.

Same(p) == p \in DOMAIN disk => p \in DOMAIN disk' /\ disk'[p] = disk[p]

WritesPart(q, i) == \E w : Wrote(q, i, w) /\ \A p : p # w => Same(p)
WritesPicture(q, k) ==
  \E i, w : Wrote(q, i, w) /\ attr[q] = w /\ \A p : p # Scaled(w, k) => Same(p)

LEMMA OpensTarget ==
  ASSUME Control, NEW q \in Requests, doUpload(q), disk' # disk
  PROVE  LET i == Min(left[q]) IN i \in left[q] /\ WritesPart(q, i)
<1> DEFINE i == Min(left[q])
           w == Target(q, i, day)
<1>1. /\ at[q] = "files" /\ left[q] # {}
      /\ disk' = [p \in DOMAIN disk \cup {w} |-> IF p = w THEN <<>> ELSE disk[p]]
  BY DEF doUpload, Target, getRelativePath
<1>2. Types /\ left[q] \subseteq Files(q)
  BY <1>1 DEF Control, Progress
<1>3. i \in left[q] /\ i \in Files(q)
  BY <1>1, <1>2, FirstLeft
<1>4. Wrote(q, i, w)
  BY <1>2, <1>3 DEF Wrote, Types
<1> HIDE DEF i, w
<1>5. \A p : p # w => Same(p)
  BY <1>1 DEF Same
<1> QED
  BY <1>3, <1>4, <1>5 DEF WritesPart, i

LEMMA WritingPart ==
  ASSUME Control, NEW q \in Requests, at[q] = "write"
  PROVE  out[q].part \in Files(q) /\ out[q].part # 0
<1> DEFINE i == out[q].part
<1>1. Types /\ i \in Files(q)
  BY DEF Control, Progress, Opened
<1>2. DOMAIN form[q].parts = 1..Len(form[q].parts) /\ Files(q) \subseteq DOMAIN form[q].parts
      /\ Len(form[q].parts) \in Nat
  BY <1>1, FormsOfRequests DEF Types
<1> HIDE DEF i
<1>3. i # 0
  BY <1>1, <1>2
<1> QED
  BY <1>1, <1>3 DEF i

LEMMA WritesStream ==
  ASSUME Control, NEW q \in Requests, writeToStream(q)
  PROVE  WritesPart(q, out[q].part)
<1> DEFINE w == out[q].path
           i == out[q].part
<1>1. /\ at[q] = "write"
      /\ disk' = [disk EXCEPT ![w] = PutBlock(@, out[q].blocks + 1, <<q, out[q].part>>)]
  BY DEF writeToStream
<1>2. Types /\ Paths /\ i \in Opened(q)
  BY <1>1 DEF Control, Progress
<1>3. i # 0
  BY <1>1, WritingPart
<1>4. Wrote(q, i, w)
  BY <1>2, <1>3 DEF Paths
<1>5. \A p : p # w => Same(p)
  <2> HIDE DEF w
  <2> QED
    BY <1>1 DEF Same
<1> QED
  BY <1>4, <1>5 DEF WritesPart

\* The picture an avatar is made of.
LEMMA LastFile ==
  ASSUME Control, NEW r \in Requests, at[r] \in {"scale", "scaling", "ok"}
  PROVE  /\ [req |-> r, part |-> Max(Files(r)), path |-> attr[r]] \in saved
         /\ Wrote(r, Max(Files(r)), attr[r])
<1>1. WrittenWhole(r, Files(r)) /\ Files(r) # {} /\ Paths
  BY DEF Control, Progress
<1> DEFINE rec == [req |-> r, part |-> Max(Files(r)), path |-> attr[r]]
<1>2. rec \in saved
  BY <1>1 DEF WrittenWhole
<1>3. rec.req = r /\ rec.part = Max(Files(r)) /\ rec.path = attr[r]
  OBVIOUS
<1> HIDE DEF rec
<1>4. Wrote(rec.req, rec.part, rec.path)
  BY <1>1, <1>2 DEF Paths
<1> QED
  BY <1>2, <1>3, <1>4 DEF rec

LEMMA ScalesPicture ==
  ASSUME Control, NEW q \in Requests, OpenScaled(q) \/ scale(q)
  PROVE  LET k == Min(left[q]) IN k \in left[q] /\ k \in DOMAIN Sizes /\ WritesPicture(q, k)
<1> DEFINE k == Min(left[q])
           w == Scaled(attr[q], k)
<1>1. /\ at[q] \in {"scale", "scaling"} /\ left[q] # {}
      /\ \/ disk' = [p \in DOMAIN disk \cup {w} |-> IF p = w THEN <<>> ELSE disk[p]]
         \/ disk' = [disk EXCEPT ![w] = disk[attr[q]]]
  BY DEF OpenScaled, scale, Control, Progress
<1>2. Types /\ left[q] \subseteq DOMAIN Sizes
  BY <1>1 DEF Control, Progress
<1>3. k \in left[q] /\ k \in DOMAIN Sizes
  BY <1>1, <1>2, FirstLeft
<1>4. Wrote(q, Max(Files(q)), attr[q])
  BY <1>1, LastFile
<1>5. \A p : p # w => Same(p)
  <2> HIDE DEF w
  <2> QED
    BY <1>1 DEF Same
<1> QED
  BY <1>3, <1>4, <1>5 DEF WritesPicture

LEMMA WritesOf ==
  ASSUME Control, NEW q \in Requests, doPost(q)
  PROVE  \/ disk' = disk
         \/ at[q] = "files" /\ \E i \in left[q] : WritesPart(q, i)
         \/ at[q] = "write" /\ WritesPart(q, out[q].part)
         \/ at[q] \in {"scale", "scaling"} /\ \E k \in left[q] \cap DOMAIN Sizes : k = Min(left[q]) /\ WritesPicture(q, k)
<1>1. CASE doUpload(q)
  BY <1>1, OpensTarget DEF doUpload
<1>2. CASE writeToStream(q)
  BY <1>2, WritesStream DEF writeToStream
<1>3. CASE OpenScaled(q) \/ scale(q)
  BY <1>3, ScalesPicture DEF OpenScaled, scale
<1> QED
  BY <1>1, <1>2, <1>3
  DEF doPost, uploadManyFiles, ajaxUploadAvatar, Prepare, CheckFile, CheckMissing, Delete,
      MakeDirs, Parse, ParseFails, CloseStream, WriteFails, Forward, Resize, ScaleFails, printInfoBack

\* A file with a new name stays as it is, unless its part is being written.
LEMMA OwnIsKept ==
  ASSUME Control, NEW q \in Requests, doPost(q),
         NEW r \in Requests, NEW i, NEW p, Wrote(r, i, p), ~KeepsNames(form[r]),
         \/ r # q
         \/ (at[q] = "files" => i \notin left[q]) /\ (at[q] = "write" => i # out[q].part)
  PROVE  Same(p)
<1>0. form \in [Requests -> Forms]
  BY DEF Control, Types
<1>1. PICK d \in 0..MaxDay : i \in Files(r) /\ p = Target(r, i, d)
  BY DEF Wrote
<1>2. ASSUME NEW j, WritesPart(q, j), r # q \/ i # j PROVE Same(p)
  <2>1. PICK w : Wrote(q, j, w) /\ \A x : x # w => Same(x)
    BY <1>2 DEF WritesPart
  <2>2. PICK e \in 0..MaxDay : j \in Files(q) /\ w = Target(q, j, e)
    BY <2>1 DEF Wrote
  <2>3. p # w
    BY <1>0, <1>1, <1>2, <2>2, TargetIsOwn
  <2> QED
    BY <2>1, <2>3
<1>3. ASSUME NEW k \in DOMAIN Sizes, WritesPicture(q, k) PROVE Same(p)
  <2>1. PICK j, w : Wrote(q, j, w) /\ \A x : x # Scaled(w, k) => Same(x)
    BY <1>3 DEF WritesPicture
  <2>2. PICK e \in 0..MaxDay : j \in Files(q) /\ w = Target(q, j, e)
    BY <2>1 DEF Wrote
  <2>3. p # Scaled(w, k)
    BY <1>0, <1>1, <2>2, ScaledNotTarget
  <2> QED
    BY <2>1, <2>3
<1>4. disk' = disk => Same(p)
  BY DEF Same
<1> QED
  BY <1>2, <1>3, <1>4, WritesOf

\* So does a picture of a file with a new name.
LEMMA PictureIsKept ==
  ASSUME Control, NEW q \in Requests, doPost(q),
         NEW r \in Requests, NEW i, NEW p, Wrote(r, i, p), ~KeepsNames(form[r]),
         NEW k \in DOMAIN Sizes,
         r # q \/ (at[q] \in {"scale", "scaling"} => k # Min(left[q]))
  PROVE  Same(Scaled(p, k))
<1>0. form \in [Requests -> Forms]
  BY DEF Control, Types
<1>1. PICK d \in 0..MaxDay : i \in Files(r) /\ p = Target(r, i, d)
  BY DEF Wrote
<1>2. ASSUME NEW j, WritesPart(q, j) PROVE Same(Scaled(p, k))
  <2>1. PICK w : Wrote(q, j, w) /\ \A x : x # w => Same(x)
    BY <1>2 DEF WritesPart
  <2>2. PICK e \in 0..MaxDay : j \in Files(q) /\ w = Target(q, j, e)
    BY <2>1 DEF Wrote
  <2>3. Scaled(p, k) # w
    BY <1>0, <1>1, <2>2, ScaledNotTarget
  <2> QED
    BY <2>1, <2>3
<1>3. ASSUME NEW l \in DOMAIN Sizes, WritesPicture(q, l), r # q \/ k # l PROVE Same(Scaled(p, k))
  <2>1. PICK j, w : Wrote(q, j, w) /\ \A x : x # Scaled(w, l) => Same(x)
    BY <1>3 DEF WritesPicture
  <2>2. PICK e \in 0..MaxDay : j \in Files(q) /\ w = Target(q, j, e)
    BY <2>1 DEF Wrote
  <2>3. Scaled(p, k) # Scaled(w, l)
    BY <1>0, <1>1, <1>3, <2>2, ScaledIsOwn
  <2> QED
    BY <2>1, <2>3
<1>4. disk' = disk => Same(Scaled(p, k))
  BY DEF Same
<1> QED
  BY <1>2, <1>3, <1>4, WritesOf

\* No step takes a file off the disk.
LEMMA DomainGrows ==
  ASSUME Control, NEW q \in Requests, doPost(q)
  PROVE  DOMAIN disk \subseteq DOMAIN disk'
  BY DEF doPost, uploadManyFiles, ajaxUploadAvatar, Prepare, CheckFile, CheckMissing, Delete,
      MakeDirs, Parse, ParseFails, CloseStream, WriteFails, Forward, Resize, ScaleFails, printInfoBack,
      doUpload, writeToStream, OpenScaled, scale

-----------------------------------------------------------------------------
\* What a step does to the streams.

LEMMA FrameOf ==
  ASSUME Control, NEW q \in Requests, doPost(q)
  PROVE  Frame(q) /\ day' = day
<1>0. Types
  BY DEF Control
<1>1. form' = form /\ day' = day
  BY DEF doPost, uploadManyFiles, ajaxUploadAvatar, Prepare, CheckFile, CheckMissing, Delete,
      MakeDirs, Parse, ParseFails, CloseStream, WriteFails, Forward, Resize, ScaleFails, printInfoBack,
      doUpload, writeToStream, OpenScaled, scale
<1>2. saved \subseteq saved' /\ \A s \in saved' \ saved : s.req = q
  BY DEF doPost, uploadManyFiles, ajaxUploadAvatar, Prepare, CheckFile, CheckMissing, Delete,
      MakeDirs, Parse, ParseFails, CloseStream, WriteFails, Forward, Resize, ScaleFails, printInfoBack,
      doUpload, writeToStream, OpenScaled, scale
<1>3. at' = at \/ \E place : Moves(q, place)
  BY DEF doPost, uploadManyFiles, ajaxUploadAvatar, Prepare, CheckFile, CheckMissing, Delete,
      MakeDirs, Parse, ParseFails, CloseStream, WriteFails, Forward, Resize, ScaleFails, printInfoBack,
      doUpload, writeToStream, OpenScaled, scale, Failed
<1>4. \A r \in Requests \ {q} : at'[r] = at[r]
  BY <1>0, <1>3 DEF Types, Moves
<1>5. \A r \in Requests \ {q} : left'[r] = left[r]
  BY <1>0 DEF Types, doPost, uploadManyFiles, ajaxUploadAvatar, Prepare, CheckFile, CheckMissing, Delete,
      MakeDirs, Parse, ParseFails, CloseStream, WriteFails, Forward, Resize, ScaleFails, printInfoBack,
      doUpload, writeToStream, OpenScaled, scale
<1>6. \A r \in Requests \ {q} : attr'[r] = attr[r] /\ out'[r] = out[r]
  BY <1>0 DEF Types, doPost, uploadManyFiles, ajaxUploadAvatar, Prepare, CheckFile, CheckMissing, Delete,
      MakeDirs, Parse, ParseFails, CloseStream, WriteFails, Forward, Resize, ScaleFails, printInfoBack,
      doUpload, writeToStream, OpenScaled, scale
<1> QED
  BY <1>1, <1>2, <1>4, <1>5, <1>6 DEF Frame

LEMMA OthersStream ==
  ASSUME Control, NEW q \in Requests, doPost(q), NEW r \in Requests \ {q}, Stream(r)
  PROVE  Stream(r)'
<1> DEFINE o == out[r]
<1>1. /\ form' = form /\ at'[r] = at[r] /\ out'[r] = o /\ saved \subseteq saved'
      /\ DOMAIN disk \subseteq DOMAIN disk'
  BY FrameOf, DomainGrows DEF Frame
<1>2. ASSUME o.part # 0, ~KeepsNames(form[r]), Stored(o.path, Prefix(r, o.part, o.blocks))
      PROVE  Stored(o.path, Prefix(r, o.part, o.blocks))'
  <2>1. Wrote(r, o.part, o.path)
    BY <1>2 DEF Control, Paths
  <2>2. Same(o.path)
    BY <1>2, <2>1, OwnIsKept
  <2>3. o.path \in DOMAIN disk' /\ disk'[o.path] = disk[o.path]
    BY <1>2, <2>2 DEF Same, Stored
  <2> QED
    BY <1>1, <1>2, <2>3 DEF Stored, Prefix
<1>3. SavedBy(r, o.path) => SavedBy(r, o.path)'
  BY <1>1 DEF SavedBy
<1>4. Part(r, o.part)' = Part(r, o.part) /\ KeepsNames(form[r])' = KeepsNames(form[r])
  BY <1>1 DEF Part
<1> QED
  BY <1>1, <1>2, <1>3, <1>4 DEF Stream


\* A file that was written whole is not being written any more.
LEMMA SavedIsStoredKept ==
  ASSUME Control, SavedIsStored, NEW q \in Requests, doPost(q),
         NEW s \in saved, ~KeepsNames(form[s.req])
  PROVE  Stored(s.path, Content(s.req, s.part))'
<1>1. s.req \in Requests /\ Wrote(s.req, s.part, s.path)
  BY DEF Control, Paths
<1>2. \/ s.req # q
      \/ (at[q] = "files" => s.part \notin left[q]) /\ (at[q] = "write" => s.part # out[q].part)
  <2>1. Progress(q)
    BY DEF Control
  <2>2. CASE s.req = q
    <3>1. at[q] = "files" => s.part \notin left[q]
      BY <2>1, <2>2 DEF Progress
    <3>2. at[q] = "write" => s.part # out[q].part
      BY <2>1, <2>2 DEF Progress
    <3> QED
      BY <3>1, <3>2
  <2> QED
    BY <2>2
<1>3. Same(s.path)
  BY <1>1, <1>2, OwnIsKept
<1>4. form' = form
  BY FrameOf DEF Frame
<1> QED
  BY <1>3, <1>4 DEF Same, Stored, SavedIsStored, Content, Part

\* Before a request opens a stream, and once all it has opened are closed.
LEMMA StreamOver ==
  ASSUME NEW q \in Requests, Stream(q), UNCHANGED <<form, out>>, saved \subseteq saved',
         at'[q] # "write",
         \/ out[q].part = 0
         \/ at[q] \in {"files", "scale", "scaling"}
         \/ at'[q] = "error"
  PROVE  Stream(q)'
<1>1. SavedBy(q, out[q].path) => SavedBy(q, out[q].path)'
  BY DEF SavedBy
<1> QED
  BY <1>1 DEF Stream

LEMMA WriteFailsStream ==
  ASSUME Control, NEW q \in Requests, Stream(q), WriteFails(q)
  PROVE  Stream(q)'
<1>1. /\ at[q] = "write" /\ Failed(q)
      /\ UNCHANGED <<form, left, attr, out, disk, tmp, temps, day, saved>>
  BY DEF WriteFails
<1>2. at'[q] \in {"error", "nothing"}
  BY <1>1, FailedMoved DEF Control
<1> QED
  BY <1>1, <1>2 DEF Stream, Stored, Prefix, Part

LEMMA CloseStreamStream ==
  ASSUME Control, NEW q \in Requests, Stream(q), CloseStream(q)
  PROVE  Stream(q)' /\ \A s \in saved' \ saved : ~KeepsNames(form[s.req]) => Stored(s.path, Content(s.req, s.part))'
<1> DEFINE o == out[q]
           rec == [req |-> q, part |-> o.part, path |-> o.path]
<1>1. /\ at[q] = "write" /\ Moves(q, "files") /\ o.blocks = Part(q, o.part).size
      /\ saved' = saved \cup {rec}
      /\ UNCHANGED <<form, left, attr, out, disk, tmp, temps, day>>
  BY DEF CloseStream
<1>2. at'[q] = "files"
  BY <1>1, Moved DEF Control
<1>3. rec.req = q /\ rec.part = o.part /\ rec.path = o.path
  OBVIOUS
<1>4. o.part # 0
  BY <1>1, WritingPart
<1>5. SavedBy(q, o.path)'
  BY <1>1, <1>3 DEF SavedBy
<1>6. ~KeepsNames(form[q]) => Stored(o.path, Content(q, o.part))
  BY <1>1, <1>4, AllWritten DEF Stream
<1>7. Content(q, o.part)' = Content(q, o.part)
  BY <1>1 DEF Content, Part
<1> HIDE DEF rec
<1>8. \A s \in saved' \ saved : ~KeepsNames(form[s.req]) => Stored(s.path, Content(s.req, s.part))'
  BY <1>1, <1>3, <1>6, <1>7 DEF Stored
<1> QED
  BY <1>1, <1>2, <1>5, <1>8 DEF Stream

LEMMA writeToStreamStream ==
  ASSUME Control, NEW q \in Requests, Stream(q), writeToStream(q)
  PROVE  Stream(q)'
<1> DEFINE p == out[q].path
           i == out[q].part
           n == out[q].blocks
<1>1. /\ at[q] = "write" /\ n < Part(q, i).size
      /\ disk' = [disk EXCEPT ![p] = PutBlock(@, n + 1, <<q, i>>)]
      /\ out' = [out EXCEPT ![q].blocks = @ + 1]
      /\ UNCHANGED <<form, at, left, attr, tmp, temps, day, saved>>
  BY DEF writeToStream
<1>2. out[q] = [path |-> p, part |-> i, blocks |-> n] /\ n \in Nat
  BY DEF Control, Types
<1>3. out'[q] = [path |-> p, part |-> i, blocks |-> n + 1]
  <2>1. out = [r \in Requests |-> out[r]]
    BY DEF Control, Types
  <2>2. [out[q] EXCEPT !.blocks = @ + 1] = [path |-> p, part |-> i, blocks |-> n + 1]
    BY <1>2
  <2> QED
    BY <1>1, <2>1, <2>2
<1>4. out'[q].path = p /\ out'[q].part = i /\ out'[q].blocks = n + 1
  BY <1>3
<1>5. p \in DOMAIN disk /\ i # 0 /\ i \in Files(q)
  BY <1>1, WritingPart DEF Stream
<1>6. Part(q, i).size \in Nat
  BY <1>5, FilesOfRequests DEF Control, Types
<1>7. ASSUME ~KeepsNames(form[q]) PROVE p \in DOMAIN disk' /\ disk'[p] = Prefix(q, i, n + 1)
  <2>1. disk[p] = Prefix(q, i, n)
    BY <1>1, <1>5, <1>7 DEF Stream, Stored
  <2>2. PutBlock(disk[p], n + 1, <<q, i>>) = Prefix(q, i, n + 1)
    BY <1>2, <2>1, NextWritten
  <2> QED
    BY <1>1, <1>5, <2>2
<1>8. p \in DOMAIN disk' /\ n + 1 <= Part(q, i).size
  BY <1>1, <1>2, <1>5, <1>6
<1>9. form'[q] = form[q] /\ at'[q] = "write"
  BY <1>1
<1> HIDE DEF p, i, n
<1> QED
  BY <1>4, <1>7, <1>8, <1>9 DEF Stream, Stored, Prefix, Part

LEMMA doUploadStream ==
  ASSUME Control, NEW q \in Requests, Stream(q), doUpload(q)
  PROVE  Stream(q)'
<1> DEFINE i == Min(left[q])
           w == [dir |-> getRelativePath(form[q]), name |-> getUploadFileName(q, i)]
<1>1. /\ at[q] = "files" /\ left[q] # {} /\ UNCHANGED <<form, saved>>
      /\ \/ Failed(q) /\ UNCHANGED <<out, disk>>
         \/ /\ Moves(q, "write")
            /\ out' = [out EXCEPT ![q] = [path |-> w, part |-> i, blocks |-> 0]]
            /\ disk' = [p \in DOMAIN disk \cup {w} |-> IF p = w THEN <<>> ELSE disk[p]]
  BY DEF doUpload
<1>2. CASE Failed(q) /\ UNCHANGED <<out, disk>>
  <2>1. at'[q] # "write"
    BY <1>2, FailedMoved DEF Control
  <2> QED
    BY <1>1, <1>2, <2>1, StreamOver
<1>3. CASE /\ Moves(q, "write")
           /\ out' = [out EXCEPT ![q] = [path |-> w, part |-> i, blocks |-> 0]]
           /\ disk' = [p \in DOMAIN disk \cup {w} |-> IF p = w THEN <<>> ELSE disk[p]]
  <2>1. out'[q] = [path |-> w, part |-> i, blocks |-> 0]
    <3>1. out = [r \in Requests |-> out[r]]
      BY DEF Control, Types
    <3> QED
      BY <1>3, <3>1
  <2>2. out'[q].path = w /\ out'[q].part = i /\ out'[q].blocks = 0 /\ at'[q] = "write"
    BY <1>3, <2>1, Moved DEF Control
  <2>3. i \in Files(q)
    BY <1>1, FirstLeft DEF Control, Progress
  <2>4. Part(q, i).size \in Nat /\ form'[q] = form[q]
    BY <1>1, <2>3, FilesOfRequests DEF Control, Types
  <2>5. w \in DOMAIN disk' /\ disk'[w] = <<>>
    BY <1>3
  <2>6. <<>> = Prefix(q, i, 0)
    BY NothingWritten
  <2> HIDE DEF w, i
  <2>7. w \in DOMAIN disk' /\ disk'[w] = Prefix(q, i, 0) /\ 0 <= Part(q, i).size
    BY <2>4, <2>5, <2>6
  <2> QED
    BY <2>2, <2>4, <2>7 DEF Stream, Stored, Prefix, Part
<1> QED
  BY <1>1, <1>2, <1>3

LEMMA InitDiskInv == Init => DiskInv
<1> SUFFICES ASSUME Init PROVE DiskInv
  OBVIOUS
<1>1. \A r \in Requests : out[r].part = 0 /\ at[r] = "start"
  BY DEF Init
<1>2. saved = {}
  BY DEF Init
<1> QED
  BY <1>1, <1>2 DEF DiskInv, SavedIsStored, Stream

LEMMA NextDiskInv == Control /\ DiskInv /\ [Next]_vars => DiskInv'
<1> SUFFICES ASSUME Control, DiskInv, [Next]_vars PROVE DiskInv'
  OBVIOUS
<1>1. CASE UNCHANGED vars \/ Midnight \/ \E q \in Requests : Collect(q)
  <2>1. UNCHANGED <<form, at, out, disk, saved>>
    BY <1>1 DEF vars, Midnight, Collect
  <2> QED
    BY <2>1 DEF DiskInv, SavedIsStored, Stream, SavedBy, Stored, Content, Prefix, Part
<1>2. ASSUME NEW q \in Requests, doPost(q) PROVE DiskInv'
  <2>1. form' = form /\ saved \subseteq saved'
    BY <1>2, FrameOf DEF Frame
  <2>2. \A s \in saved : ~KeepsNames(form[s.req]) => Stored(s.path, Content(s.req, s.part))'
    BY <1>2, SavedIsStoredKept DEF DiskInv
  <2>3. \A s \in saved' \ saved : ~KeepsNames(form[s.req]) => Stored(s.path, Content(s.req, s.part))'
    <3>1. CASE CloseStream(q)
      BY <3>1, CloseStreamStream DEF DiskInv
    <3>2. saved' = saved \/ CloseStream(q)
      BY <1>2
      DEF doPost, uploadManyFiles, ajaxUploadAvatar, Prepare, CheckFile, CheckMissing, Delete,
          MakeDirs, Parse, ParseFails, WriteFails, Forward, Resize, ScaleFails, printInfoBack,
          doUpload, writeToStream, OpenScaled, scale
    <3> QED
      BY <3>1, <3>2
  <2>4. SavedIsStored'
    BY <2>1, <2>2, <2>3 DEF SavedIsStored
  <2>5. \A r \in Requests \ {q} : Stream(r)'
    BY <1>2, OthersStream DEF DiskInv
  <2>6. Stream(q)'
    <3>0. Stream(q) /\ Types
      BY DEF DiskInv, Control
    <3>1. CASE Prepare(q) \/ Parse(q) \/ ParseFails(q)
      <4>1. at[q] \in Preparing \cup {"start", "parse"} /\ out' = out
        BY <3>1 DEF Prepare, CheckFile, CheckMissing, Delete, MakeDirs, Parse, ParseFails, Preparing
      <4>2. out[q].part = 0
        BY <4>1 DEF Control, Progress
      <4>3. at'[q] # "write"
        BY <3>0, <3>1, Moved, FailedMoved
        DEF Prepare, CheckFile, CheckMissing, Delete, MakeDirs, Parse, ParseFails
      <4> QED
        BY <2>1, <3>0, <4>1, <4>2, <4>3, StreamOver
    <3>2. CASE Forward(q) \/ Resize(q) \/ OpenScaled(q) \/ scale(q) \/ ScaleFails(q) \/ printInfoBack(q)
      <4>1. at[q] \in {"files", "scale", "scaling"} /\ out' = out
        BY <3>2 DEF Forward, Resize, OpenScaled, scale, ScaleFails, printInfoBack
      <4>2. at'[q] # "write"
        BY <3>0, <3>2, Moved, FailedMoved DEF Forward, Resize, OpenScaled, scale, ScaleFails, printInfoBack
      <4> QED
        BY <2>1, <3>0, <4>1, <4>2, StreamOver
    <3> QED
      BY <1>2, <3>0, <3>1, <3>2, doUploadStream, writeToStreamStream, CloseStreamStream, WriteFailsStream
      DEF doPost, uploadManyFiles, ajaxUploadAvatar
  <2> QED
    BY <2>4, <2>5, <2>6 DEF DiskInv
<1> QED
  BY <1>1, <1>2 DEF Next

LEMMA DiskInvariant == Spec => [](Control /\ DiskInv)
<1>1. Init => Control /\ DiskInv
  BY InitControl, InitDiskInv
<1>2. (Control /\ DiskInv) /\ [Next]_vars => (Control /\ DiskInv)'
  BY NextControl, NextDiskInv
<1> QED
  BY <1>1, <1>2, PTL DEF Spec

\* The uploads of others never change a file that was given a new name, neither
\* while it is written nor later.
THEOREM RenamedIsAlwaysOwn == Spec => []RenamedIsOwn
<1>1. Control /\ DiskInv => RenamedIsOwn
  <2> SUFFICES ASSUME Control, DiskInv PROVE RenamedIsOwn
    OBVIOUS
  <2>1. \A s \in saved : ~KeepsNames(form[s.req]) => disk[s.path] = Content(s.req, s.part)
    BY DEF DiskInv, SavedIsStored, Stored
  <2>2. ASSUME NEW r \in Requests, out[r].part # 0, ~KeepsNames(form[r]), at[r] \in {"write", "nothing"},
               ~\E s \in saved : s.req = r /\ s.path = out[r].path
        PROVE  disk[out[r].path] = SubSeq(Content(r, out[r].part), 1, out[r].blocks)
    <3>1. ~SavedBy(r, out[r].path) /\ Stream(r)
      BY <2>2 DEF SavedBy, DiskInv
    <3>2. /\ out[r].blocks <= Part(r, out[r].part).size
          /\ disk[out[r].path] = Prefix(r, out[r].part, out[r].blocks)
      BY <2>2, <3>1 DEF Stream, Stored
    <3>3. out[r].part \in Files(r) /\ out[r].blocks \in Nat
      BY <2>2 DEF Control, Paths, Wrote, Types
    <3>4. Part(r, out[r].part).size \in Nat
      BY <3>3, FilesOfRequests DEF Control, Types
    <3> QED
      BY <3>2, <3>3, <3>4, BeginningWritten
  <2> QED
    BY <2>1, <2>2 DEF RenamedIsOwn
<1> QED
  BY <1>1, DiskInvariant, PTL
-----------------------------------------------------------------------------
\* The types of the upload.

LeftInv == \A r \in Requests : left[r] \subseteq DOMAIN form[r].parts \cup DOMAIN Sizes

LEMMA NextLeftInv == Control /\ LeftInv /\ [Next]_vars => LeftInv'
<1> SUFFICES ASSUME Control, LeftInv, [Next]_vars PROVE LeftInv'
  OBVIOUS
<1>0. Types
  BY DEF Control
<1>1. CASE UNCHANGED vars \/ Midnight \/ \E q \in Requests : Collect(q)
  BY <1>1 DEF vars, Midnight, Collect, LeftInv
<1>2. ASSUME NEW q \in Requests, doPost(q) PROVE LeftInv'
  <2>1. form' = form /\ \A r \in Requests \ {q} : left'[r] = left[r]
    BY <1>2, FrameOf DEF Frame
  <2>2. CASE Parse(q) \/ Resize(q)
    <3>1. left'[q] = Files(q) \/ left'[q] = DOMAIN Sizes \/ left' = left
      BY <1>0, <2>2 DEF Parse, Resize, Types, Files
    <3>2. Files(q) \subseteq DOMAIN form[q].parts
      BY DEF Files
    <3> QED
      BY <2>1, <3>1, <3>2 DEF LeftInv
  <2>3. CASE ~(Parse(q) \/ Resize(q))
    <3>1. doUpload(q) \/ scale(q) => left'[q] \subseteq left[q]
      BY <1>0 DEF Types, doUpload, scale
    <3>2. ~(doUpload(q) \/ scale(q)) => left' = left
      BY <1>2, <2>3
      DEF doPost, uploadManyFiles, ajaxUploadAvatar, Prepare, CheckFile, CheckMissing, Delete,
          MakeDirs, ParseFails, CloseStream, WriteFails, Forward, ScaleFails, printInfoBack,
          writeToStream, OpenScaled
    <3>3. left'[q] \subseteq left[q]
      BY <3>1, <3>2
    <3> QED
      BY <2>1, <3>3 DEF LeftInv
  <2> QED
    BY <2>2, <2>3
<1> QED
  BY <1>1, <1>2 DEF Next

LEMMA PathOfTarget ==
  ASSUME NEW r, NEW i, NEW p, NEW d \in 0..day, p = Target(r, i, d)
  PROVE  PathOf(r, i, p)
BY DEF PathOf, Target

\* The attributes were set for a file of the form.
AttrOf(r) ==
  /\ attr[r] = NoAttr \/ \E i \in Files(r) : PathOf(r, i, attr[r])
  /\ at[r] = "write" => PathOf(r, out[r].part, out[r].path)
AttrInv == \A r \in Requests : AttrOf(r)

\* Days pass, and a path is still that of its part.
LEMMA AttrStays ==
  ASSUME Types, day' \in Nat, day <= day', UNCHANGED form, NEW r \in Requests, AttrOf(r),
         attr'[r] = attr[r],
         at'[r] = "write" => at[r] = "write" /\ out'[r].path = out[r].path
                                            /\ out'[r].part = out[r].part
  PROVE  AttrOf(r)'
<1>1. Files(r)' = Files(r)
  BY DEF Files
<1>2. \A i \in Files(r) : PathOf(r, i, attr[r]) => PathOf(r, i, attr[r])'
  <2> SUFFICES ASSUME NEW i \in Files(r), PathOf(r, i, attr[r]) PROVE PathOf(r, i, attr[r])'
    OBVIOUS
  <2> DEFINE p == attr[r]
  <2>1. PICK d \in 0..day : p = [dir |-> <<FuncName(form[r]), d>>, name |-> getUploadFileName(r, i)]
    BY DEF PathOf
  <2>2. d \in 0..day'
    BY DEF Types, MaxDay
  <2>3. form'[r] = form[r] /\ getUploadFileName(r, i)' = getUploadFileName(r, i)
    BY DEF getUploadFileName, Part
  <2> QED
    BY <2>1, <2>2, <2>3 DEF PathOf
<1>3. at'[r] = "write" => PathOf(r, out[r].part, out[r].path)'
  <2> SUFFICES ASSUME at'[r] = "write" PROVE PathOf(r, out[r].part, out[r].path)'
    OBVIOUS
  <2>1. PICK d \in 0..day : out[r].path =
          [dir |-> <<FuncName(form[r]), d>>, name |-> getUploadFileName(r, out[r].part)]
    BY DEF PathOf, AttrOf
  <2>2. d \in 0..day'
    BY DEF Types, MaxDay
  <2>3. form'[r] = form[r] /\ getUploadFileName(r, out[r].part)' = getUploadFileName(r, out[r].part)
    BY DEF getUploadFileName, Part
  <2> QED
    BY <2>1, <2>2, <2>3 DEF PathOf
<1>4. attr[r] = NoAttr \/ \E i \in Files(r) : PathOf(r, i, attr[r])
  BY DEF AttrOf
<1> QED
  BY <1>1, <1>2, <1>3, <1>4 DEF AttrOf

LEMMA NextAttrInv == Control /\ AttrInv /\ [Next]_vars => AttrInv'
<1> SUFFICES ASSUME Control, AttrInv, [Next]_vars PROVE AttrInv'
  OBVIOUS
<1>0. Types /\ day \in Nat
  BY DEF Control, Types, MaxDay
<1>1. CASE UNCHANGED vars \/ Midnight \/ \E q \in Requests : Collect(q)
  <2>1. UNCHANGED <<form, at, attr, out>> /\ day' \in Nat /\ day <= day'
    BY <1>0, <1>1 DEF vars, Midnight, Collect
  <2> QED
    BY <1>0, <2>1, AttrStays DEF AttrInv
<1>2. ASSUME NEW q \in Requests, doPost(q) PROVE AttrInv'
  <2>0. form' = form /\ day' = day
    BY <1>2, FrameOf DEF Frame
  <2>1. ASSUME NEW r \in Requests \ {q} PROVE AttrOf(r)'
    <3>1. at'[r] = at[r] /\ attr'[r] = attr[r] /\ out'[r] = out[r]
      BY <1>2, FrameOf DEF Frame
    <3> QED
      BY <1>0, <2>0, <3>1, AttrStays DEF AttrInv
  <2>2. CASE doUpload(q)
    <3>1. at[q] = "files" /\ left[q] # {}
      BY <2>2 DEF doUpload
    <3>2. PICK i \in Files(q) : i = Min(left[q])
      BY <1>0, <3>1, FirstLeft DEF Control, Progress
    <3>3. PICK w : w = Target(q, i, day) /\ PathOf(q, i, w)
      BY <1>0, PathOfTarget
    <3>4. /\ attr' = [attr EXCEPT ![q] = w]
          /\ \/ Failed(q)
             \/ Moves(q, "write") /\ out' = [out EXCEPT ![q] = [path |-> w, part |-> i, blocks |-> 0]]
      BY <2>2, <3>2, <3>3 DEF doUpload, Target, getRelativePath
    <3>5. attr'[q] = w /\ (at'[q] = "write" => out'[q].path = w /\ out'[q].part = i)
      BY <1>0, <3>4, Moved, FailedMoved DEF Types
    <3>6. Files(q)' = Files(q) /\ getUploadFileName(q, i)' = getUploadFileName(q, i)
          /\ form'[q] = form[q] /\ day' = day
      BY <2>0 DEF Files, getUploadFileName, Part
    <3>7. AttrOf(q)'
      <4>1. PICK d \in 0..day : w = [dir |-> <<FuncName(form[q]), d>>, name |-> getUploadFileName(q, i)]
        BY <3>3 DEF PathOf
      <4>2. \E e \in 0..day' : attr'[q] = [dir |-> <<FuncName(form'[q]), e>>, name |-> getUploadFileName(q, i)']
        BY <3>5, <3>6, <4>1
      <4>3. at'[q] = "write" => out'[q].path = attr'[q] /\ out'[q].part = i
        BY <3>5
      <4>4. i \in Files(q)'
        BY <3>2, <3>6
      <4> QED
        BY <4>2, <4>3, <4>4 DEF AttrOf, PathOf
    <3> QED
      BY <2>1, <3>7 DEF AttrInv
  <2>3. CASE ~doUpload(q)
    <3>1. /\ attr' = attr
          /\ at'[q] = "write" => at[q] = "write" /\ out'[q].path = out[q].path
                                                /\ out'[q].part = out[q].part
      <4>1. CASE writeToStream(q)
        BY <1>0, <4>1 DEF writeToStream, Types
      <4>2. CASE ParseFails(q) \/ WriteFails(q) \/ ScaleFails(q) \/ Resize(q)
        BY <1>0, <4>2, Moved, FailedMoved DEF ParseFails, WriteFails, ScaleFails, Resize
      <4>3. CASE Prepare(q) \/ Parse(q) \/ CloseStream(q) \/ Forward(q) \/ OpenScaled(q)
                 \/ scale(q) \/ printInfoBack(q)
        BY <1>0, <4>3, Moved
        DEF Prepare, CheckFile, CheckMissing, Delete, MakeDirs, Parse, CloseStream, Forward,
            OpenScaled, scale, printInfoBack
      <4> QED
        BY <1>2, <2>3, <4>1, <4>2, <4>3 DEF doPost, uploadManyFiles, ajaxUploadAvatar
    <3>2. AttrOf(q)'
      BY <1>0, <2>0, <3>1, AttrStays DEF AttrInv
    <3> QED
      BY <2>1, <3>2 DEF AttrInv
  <2> QED
    BY <2>2, <2>3
<1> QED
  BY <1>1, <1>2 DEF Next

\* The types of the upload.  The attributes of a request are those of a file of
\* its form, and while it writes, of the part it writes; the file of that part is
\* on the disk, and the stream stands at one of the blocks of the part.
THEOREM UploadTypeCorrect == Spec => []UploadTypeOK
<1>1. Init => LeftInv /\ AttrInv
  BY DEF Init, LeftInv, AttrInv, AttrOf
<1>2. Control /\ DiskInv /\ LeftInv /\ AttrInv => UploadTypeOK
  <2> SUFFICES ASSUME Control, DiskInv, LeftInv, AttrInv PROVE UploadTypeOK
    OBVIOUS
  <2>1. Types
    BY DEF Control
  <2>2. ASSUME NEW r \in Requests PROVE Files(r) \subseteq FileParts(r)
    BY DEF Files, Matches, FileParts, Part
  <2>3. ASSUME NEW r \in Requests, Open(r)
        PROVE  LET o == out[r] IN
               /\ o.part \in FileParts(r) /\ PathOf(r, o.part, o.path)
               /\ o.path \in DOMAIN disk /\ o.path = attr[r]
               /\ o.blocks \in 0..Part(r, o.part).size
    <3>1. out[r].part \in Files(r) /\ out[r].path = attr[r]
      BY <2>3 DEF Control, Progress, Opened, Open
    <3>2. out[r].path \in DOMAIN disk /\ out[r].blocks <= Part(r, out[r].part).size
      BY <2>3 DEF DiskInv, Stream, Open
    <3>3. out[r].blocks \in Nat /\ Part(r, out[r].part).size \in Nat
      BY <2>1, <3>1, FilesOfRequests DEF Types
    <3> QED
      BY <2>2, <2>3, <3>1, <3>2, <3>3 DEF AttrInv, AttrOf, Open
  <2>4. ASSUME NEW r \in Requests PROVE left[r] \subseteq 1..(Len(form[r].parts) + Len(Sizes))
    <3>1. left[r] \subseteq DOMAIN form[r].parts \cup DOMAIN Sizes
      BY DEF LeftInv
    <3>2. Len(form[r].parts) \in Nat /\ DOMAIN form[r].parts = 1..Len(form[r].parts)
      BY <2>1, FormsOfRequests DEF Types
    <3>3. DOMAIN Sizes = 1..4 /\ Len(Sizes) = 4
      BY DEF Sizes
    <3> QED
      BY <3>1, <3>2, <3>3
  <2>5. \A r \in Requests : attr[r] = NoAttr \/ \E i \in FileParts(r) : PathOf(r, i, attr[r])
    BY <2>2 DEF AttrInv, AttrOf
  <2> QED
    BY <2>1, <2>3, <2>4, <2>5 DEF UploadTypeOK, Types, Stages
<1> QED
  BY <1>1, <1>2, NextLeftInv, NextAttrInv, DiskInvariant, ControlInvariant, PTL DEF Spec
-----------------------------------------------------------------------------
\* The pictures of an avatar.

\* A picture stays as it is, unless it is the next one of its request.
LEMMA PictureStays ==
  ASSUME Control, NEW q \in Requests, doPost(q),
         NEW r \in Requests, at[r] \in {"scale", "scaling", "ok"}, ~KeepsNames(form[r]),
         NEW k \in DOMAIN Sizes, r # q \/ (at[q] \in {"scale", "scaling"} => k # Min(left[q])),
         Stored(Scaled(attr[r], k), Content(r, Max(Files(r))))
  PROVE  Stored(Scaled(attr[r], k), Content(r, Max(Files(r))))'
<1> DEFINE p == Scaled(attr[r], k)
           i == Max(Files(r))
<1>1. Wrote(r, i, attr[r])
  BY LastFile
<1>2. Same(p)
  BY <1>1, PictureIsKept
<1>3. form' = form /\ attr'[r] = attr[r]
  <2>1. CASE r # q
    BY <2>1, FrameOf DEF Frame
  <2>2. CASE r = q
    BY <2>2, FrameOf
    DEF Frame, doPost, uploadManyFiles, ajaxUploadAvatar, Prepare, CheckFile, CheckMissing, Delete,
        MakeDirs, Parse, ParseFails, CloseStream, WriteFails, Forward, Resize, ScaleFails, printInfoBack,
        doUpload, writeToStream, OpenScaled, scale
  <2> QED
    BY <2>1, <2>2
<1>4. p \in DOMAIN disk' /\ disk'[p] = Content(r, i)
  BY <1>2 DEF Same, Stored
<1>5. Files(r)' = Files(r) /\ Content(r, i)' = Content(r, i)
  BY <1>3 DEF Files, Content, Part
<1> QED
  BY <1>3, <1>4, <1>5 DEF Stored, Scaled, Content, Part

LEMMA OthersPictures ==
  ASSUME Control, NEW q \in Requests, doPost(q), NEW r \in Requests \ {q}, Pictures(r)
  PROVE  Pictures(r)'
<1>1. /\ form' = form /\ at'[r] = at[r] /\ left'[r] = left[r] /\ attr'[r] = attr[r]
      /\ DOMAIN disk \subseteq DOMAIN disk'
  BY FrameOf, DomainGrows DEF Frame
<1>2. at[r] \in {"scale", "scaling", "ok"} /\ ~KeepsNames(form[r]) =>
        \A k \in DOMAIN Sizes : at[r] = "ok" \/ k \notin left[r] =>
          Stored(Scaled(attr[r], k), Content(r, Max(Files(r))))'
  BY PictureStays DEF Pictures
<1> QED
  BY <1>1, <1>2 DEF Pictures, Scaled

LEMMA OwnPictures ==
  ASSUME Control, DiskInv, NEW q \in Requests, doPost(q), Pictures(q)
  PROVE  Pictures(q)'
<1>0. Types /\ form' = form
  BY FrameOf DEF Control, Frame
<1>1. CASE Resize(q)
  <2>1. \/ at'[q] \in {"error", "nothing"}
        \/ at'[q] = "scale" /\ left'[q] = DOMAIN Sizes
    BY <1>0, <1>1, Moved, FailedMoved DEF Resize, Types
  <2> QED
    BY <2>1 DEF Pictures
<1>2. CASE OpenScaled(q)
  <2>1. /\ at[q] = "scale" /\ left[q] # {} /\ at'[q] = "scaling" /\ left' = left /\ attr' = attr
        /\ Scaled(attr[q], Min(left[q])) \in DOMAIN disk'
    BY <1>0, <1>2, Moved DEF OpenScaled
  <2>2. Min(left[q]) \in left[q]
    BY <1>0, <2>1, FirstLeft
  <2>3. ASSUME ~KeepsNames(form[q]), NEW k \in DOMAIN Sizes, k \notin left[q]
        PROVE  Stored(Scaled(attr[q], k), Content(q, Max(Files(q))))'
    BY <2>1, <2>2, <2>3, PictureStays DEF Pictures
  <2> QED
    BY <1>0, <2>1, <2>3 DEF Pictures, Scaled
<1>3. CASE scale(q)
  <2> DEFINE m == Min(left[q])
             w == Scaled(attr[q], m)
             i == Max(Files(q))
  <2>1. /\ at[q] = "scaling" /\ at'[q] = "scale" /\ attr' = attr /\ saved' = saved
        /\ disk' = [disk EXCEPT ![w] = disk[attr[q]]]
        /\ left'[q] = left[q] \ {m}
    BY <1>0, <1>3, Moved DEF scale, Types
  <2>2. w \in DOMAIN disk
    BY <2>1 DEF Pictures
  <2>3. ASSUME ~KeepsNames(form[q]) PROVE w \in DOMAIN disk' /\ disk'[w] = Content(q, i)
    <3> DEFINE rec == [req |-> q, part |-> i, path |-> attr[q]]
    <3>1. rec \in saved
      BY <2>1, LastFile
    <3>2. rec.req = q /\ rec.part = i /\ rec.path = attr[q]
      OBVIOUS
    <3> HIDE DEF rec, i
    <3>3. disk[attr[q]] = Content(q, i)
      BY <2>3, <3>1, <3>2 DEF DiskInv, SavedIsStored, Stored
    <3> QED
      BY <2>1, <2>2, <3>3
  <2>4. ASSUME ~KeepsNames(form[q]), NEW k \in DOMAIN Sizes, k \notin left[q] \ {m}
        PROVE  Stored(Scaled(attr[q], k), Content(q, Max(Files(q))))'
    <3>1. CASE k = m
      <4>1. w \in DOMAIN disk' /\ disk'[w] = Content(q, i)
        BY <2>3, <2>4
      <4>2. Files(q)' = Files(q) /\ attr'[q] = attr[q] /\ form'[q] = form[q]
        BY <1>0, <2>1 DEF Files
      <4>3. Content(q, i) = Content(q, Max(Files(q)))'
        BY <4>2 DEF Content, Part
      <4>4. w = Scaled(attr[q], k)'
        BY <3>1, <4>2 DEF Scaled
      <4> QED
        BY <4>1, <4>3, <4>4 DEF Stored
    <3>2. CASE k # m
      BY <2>1, <2>4, <3>2, PictureStays DEF Pictures
    <3> QED
      BY <3>1, <3>2
  <2> QED
    BY <1>0, <2>1, <2>4 DEF Pictures, Scaled
<1>4. CASE printInfoBack(q)
  <2>1. at[q] = "scale" /\ left[q] = {} /\ at'[q] = "ok" /\ attr' = attr /\ disk' = disk
    BY <1>0, <1>4, Moved DEF printInfoBack
  <2>2. Files(q)' = Files(q)
    BY <1>0 DEF Files
  <2> QED
    BY <1>0, <2>1, <2>2 DEF Pictures, Scaled, Stored, Content, Part
<1>5. CASE ~(Resize(q) \/ OpenScaled(q) \/ scale(q) \/ printInfoBack(q))
  <2>1. at'[q] \notin {"scale", "scaling", "ok"}
    <3>1. CASE ParseFails(q) \/ WriteFails(q) \/ ScaleFails(q) \/ doUpload(q)
      BY <1>0, <3>1, FailedMoved, Moved DEF ParseFails, WriteFails, ScaleFails, doUpload
    <3>2. CASE Prepare(q) \/ Parse(q) \/ writeToStream(q) \/ CloseStream(q) \/ Forward(q)
      BY <1>0, <3>2, Moved
      DEF Prepare, CheckFile, CheckMissing, Delete, MakeDirs, Parse, writeToStream, CloseStream, Forward
    <3> QED
      BY <1>5, <3>1, <3>2 DEF doPost, uploadManyFiles, ajaxUploadAvatar
  <2> QED
    BY <2>1 DEF Pictures
<1> QED
  BY <1>1, <1>2, <1>3, <1>4, <1>5

PicturesInv == \A r \in Requests : Pictures(r)

LEMMA NextPictures == Control /\ DiskInv /\ PicturesInv /\ [Next]_vars => PicturesInv'
<1> SUFFICES ASSUME Control, DiskInv, PicturesInv, [Next]_vars PROVE PicturesInv'
  OBVIOUS
<1>1. CASE UNCHANGED vars \/ Midnight \/ \E q \in Requests : Collect(q)
  <2>1. UNCHANGED <<form, at, left, attr, disk>>
    BY <1>1 DEF vars, Midnight, Collect
  <2>2. \A r \in Requests : Files(r)' = Files(r)
    BY <2>1 DEF Files
  <2> QED
    BY <2>1, <2>2 DEF PicturesInv, Pictures, Scaled, Stored, Content, Part
<1>2. ASSUME NEW q \in Requests, doPost(q) PROVE PicturesInv'
  BY <1>2, OthersPictures, OwnPictures DEF PicturesInv
<1> QED
  BY <1>1, <1>2 DEF Next

LEMMA PicturesInvariant == Spec => [](Control /\ PicturesInv)
<1>1. Init => PicturesInv
  BY DEF Init, PicturesInv, Pictures
<1> QED
  BY <1>1, NextPictures, DiskInvariant, PTL DEF Spec

\* When an avatar is answered as a success its pictures are those of its file.
LEMMA PicturesOfAvatar ==
  ASSUME Control, PicturesInv, NEW r \in Requests, at[r] = "ok", ~KeepsNames(form[r])
  PROVE  PicturesAreOwn(r)
<1> DEFINE i == Max(Files(r))
<1>1. i \in Files(r)
  BY LastFile DEF Wrote
<1>2. \A k \in DOMAIN Sizes : disk[Scaled(attr[r], k)] = Content(r, i)
  BY DEF PicturesInv, Pictures, Stored
<1> HIDE DEF i
<1> QED
  BY <1>1, <1>2 DEF PicturesAreOwn, Files
-----------------------------------------------------------------------------
\* The page in front of the servlet.

LEMMA PageSteps == [PageNext]_pageVars => [Next]_vars
<1> SUFFICES ASSUME [PageNext]_pageVars PROVE [Next]_vars
  OBVIOUS
<1>1. CASE UNCHANGED pageVars
  BY <1>1 DEF pageVars
<1>2. CASE \E r \in Requests : Browser(r)
  BY <1>2 DEF Browser, ajaxFileUpload, uploadCallback, NotJson, NotReadable, TimesOut
<1>3. CASE \E r \in Requests : Servlet(r)
  BY <1>3 DEF Servlet, Next
<1>4. CASE Midnight
  BY <1>4 DEF Next
<1> QED
  BY <1>1, <1>2, <1>3, <1>4 DEF PageNext

\* Behind the page runs the servlet.
LEMMA PageUsesServlet == PageSpec => Spec
<1>1. PageInit => Init
  BY DEF PageInit
<1> QED
  BY <1>1, PageSteps, PTL DEF PageSpec, Spec

\* The page asks for new names.
LEMMA AvatarsAreRenamed ==
  ASSUME NEW f \in Forms, f.kind = "avatar"
  PROVE  ~KeepsNames(f)
<1> DEFINE input == f.parts[Len(f.parts)]
           data == <<[name |-> "iptId", value |-> "upFileIpt"], [name |-> "funcName", value |-> "userAvatar"],
                     [name |-> "isRename", value |-> "true"]>>
           fields == [i \in DOMAIN data |->
                        [isFormField |-> TRUE, field |-> data[i].name, value |-> data[i].value, size |-> 0]]
<1>1. ~input.isFormField /\ f.parts = fields \o <<input>>
  BY AvatarsAssumption DEF uploadAvatar, createUploadForm
<1>2. DOMAIN data = 1..3
  OBVIOUS
<1>3. \A i \in 1..3 : data[i].name = "isRename" => data[i].value = "true"
  OBVIOUS
<1> HIDE DEF data, input
<1>4. \A i \in 1..3 : fields[i].field = data[i].name /\ fields[i].value = data[i].value
  BY <1>2
<1>5. /\ fields = [i \in 1..3 |-> fields[i]]
      /\ Len(fields) = 3
  BY <1>2
<1> HIDE DEF fields
<1>6. /\ DOMAIN f.parts = 1..4
      /\ \A i \in 1..3 : f.parts[i] = fields[i]
      /\ f.parts[4] = input
  BY <1>1, <1>5
<1>7. ASSUME NEW i \in DOMAIN f.parts, f.parts[i].isFormField, f.parts[i].field = "isRename",
             f.parts[i].value = "false"
      PROVE  FALSE
  BY <1>1, <1>3, <1>4, <1>6, <1>7
<1> QED
  BY <1>7 DEF KeepsNames

\* What the user was told is what the servlet has answered.
ToldInv ==
  \A r \in Requests :
    /\ ajax[r] = "plain" <=> r \notin Clicks
    /\ told[r] \in {<<>>, <<"success">>, <<"error">>}
    /\ told[r] # <<>> => ajax[r] = "done"
    /\ told[r] = <<"success">> => at[r] = "ok"

ToldTypes == ajax \in [Requests -> Places] /\ told = [r \in Requests |-> told[r]]

LEMMA OkStays == Control /\ [Next]_vars => form' = form /\ \A r \in Requests : at[r] = "ok" => at'[r] = "ok"
<1> SUFFICES ASSUME Control, [Next]_vars
             PROVE  form' = form /\ \A r \in Requests : at[r] = "ok" => at'[r] = "ok"
  OBVIOUS
<1>1. CASE UNCHANGED vars \/ Midnight \/ \E q \in Requests : Collect(q)
  BY <1>1 DEF vars, Midnight, Collect
<1>2. ASSUME NEW q \in Requests, doPost(q) PROVE form' = form /\ \A r \in Requests : at[r] = "ok" => at'[r] = "ok"
  <2>1. at[q] # "ok"
    BY <1>2
    DEF doPost, uploadManyFiles, ajaxUploadAvatar, Prepare, CheckFile, CheckMissing, Delete,
        MakeDirs, Parse, ParseFails, CloseStream, WriteFails, Forward, Resize, ScaleFails, printInfoBack,
        doUpload, writeToStream, OpenScaled, scale
  <2> QED
    BY <1>2, <2>1, FrameOf DEF Frame
<1> QED
  BY <1>1, <1>2 DEF Next

LEMMA ToldStarts == PageInit => ToldTypes /\ ToldInv
  BY DEF PageInit, ToldTypes, ToldInv, Places

LEMMA ToldStep ==
  Control /\ ToldTypes /\ ToldInv /\ [PageNext]_pageVars => ToldTypes' /\ ToldInv'
<1> SUFFICES ASSUME Control, ToldTypes, ToldInv, [PageNext]_pageVars PROVE ToldTypes' /\ ToldInv'
  OBVIOUS
<1>1. form' = form /\ \A r \in Requests : at[r] = "ok" => at'[r] = "ok"
  BY PageSteps, OkStays
<1>2. Clicks' = Clicks
  BY <1>1 DEF Clicks
<1>3. CASE UNCHANGED <<ajax, told>>
  BY <1>1, <1>2, <1>3 DEF ToldTypes, ToldInv
<1>4. ASSUME NEW q \in Requests, NEW place \in Places \ {"plain"}, ajax[q] \in {"idle", "sent"},
             ajax' = [ajax EXCEPT ![q] = place], told' = told
      PROVE  ToldTypes' /\ ToldInv'
  <2>1. told[q] = <<>> /\ ajax[q] # "plain" /\ ajax[q] # "done"
    BY <1>4 DEF ToldInv
  <2>2. ToldTypes' /\ ajax'[q] = place /\ \A r \in Requests \ {q} : ajax'[r] = ajax[r]
    BY <1>4 DEF ToldTypes
  <2> QED
    BY <1>1, <1>2, <1>4, <2>1, <2>2 DEF ToldInv
<1>5. ASSUME NEW q \in Requests, uploadCallback(q) PROVE ToldTypes' /\ ToldInv'
  <2>1. /\ ajax[q] = "sent" /\ at[q] \in {"ok", "error"} /\ at' = at
        /\ told' = [told EXCEPT ![q] = Append(told[q], Report(at[q]))]
        /\ ajax' = [ajax EXCEPT ![q] = "done"]
    BY <1>5 DEF uploadCallback, AwaitsLoad, Complete, vars
  <2>2. told[q] = <<>>
    BY <2>1 DEF ToldInv
  <2>3. /\ told'[q] = <<Report(at[q])>> /\ \A r \in Requests \ {q} : told'[r] = told[r]
        /\ told' = [r \in Requests |-> told'[r]]
    BY <2>1, <2>2 DEF ToldTypes
  <2>4. told'[q] \in {<<"success">>, <<"error">>} /\ (told'[q] = <<"success">> => at'[q] = "ok")
    <3> DEFINE x == Report(at[q])
    <3>1. x \in {"success", "error"} /\ (x = "success" => at[q] = "ok")
      BY DEF Report
    <3> HIDE DEF x
    <3>2. <<x>> = <<"success">> => x = "success"
      OBVIOUS
    <3>3. told'[q] = <<x>>
      BY <2>3 DEF x
    <3> QED
      BY <2>1, <3>1, <3>2, <3>3
  <2>5. /\ ajax'[q] = "done" /\ \A r \in Requests \ {q} : ajax'[r] = ajax[r]
        /\ ajax' \in [Requests -> Places]
    BY <2>1 DEF ToldTypes, Places
  <2> QED
    BY <1>1, <1>2, <2>1, <2>3, <2>4, <2>5 DEF ToldTypes, ToldInv
<1>6. ASSUME NEW q \in Requests, Browser(q) PROVE ToldTypes' /\ ToldInv'
  <2>1. CASE ajaxFileUpload(q)
    BY <1>4, <2>1 DEF ajaxFileUpload, Places
  <2>2. CASE NotJson(q) \/ NotReadable(q)
    BY <1>4, <2>2 DEF NotJson, NotReadable, AwaitsLoad, handleError, Places
  <2>3. CASE TimesOut(q)
    BY <1>3, <2>3 DEF TimesOut, handleError
  <2> QED
    BY <1>5, <1>6, <2>1, <2>2, <2>3 DEF Browser
<1> QED
  BY <1>3, <1>6 DEF PageNext, Servlet, ajaxVars, pageVars

\* A user is told once at most how an upload went, timer or not, and is shown
\* new pictures only if the four of this very upload stand on the disk.
THEOREM ToldAlwaysTruly == PageSpec => []ToldTruly
<1>1. PageSpec => [](Control /\ PicturesInv)
  BY PageUsesServlet, PicturesInvariant, PTL
<1>2. PageSpec => [](ToldTypes /\ ToldInv)
  BY <1>1, ToldStarts, ToldStep, PTL DEF PageSpec
<1>3. Control /\ PicturesInv /\ ToldTypes /\ ToldInv => ToldTruly
  <2> SUFFICES ASSUME Control, PicturesInv, ToldTypes, ToldInv, NEW r \in Requests
               PROVE  /\ Len(told[r]) <= 1
                      /\ told[r] = <<"success">> => at[r] = "ok" /\ PicturesAreOwn(r)
    BY DEF ToldTruly
  <2>1. told[r] \in {<<>>, <<"success">>, <<"error">>}
    BY DEF ToldInv
  <2>2. Len(told[r]) <= 1
    <3>1. \A x : Len(<<x>>) = 1
      OBVIOUS
    <3>2. CASE told[r] = <<>>
      BY <3>2
    <3>3. CASE told[r] = <<"success">>
      <4>1. Len(told[r]) = 1
        BY <3>1, <3>3
      <4> QED
        BY <4>1
    <3>4. CASE told[r] = <<"error">>
      <4>1. Len(told[r]) = 1
        BY <3>1, <3>4
      <4> QED
        BY <4>1
    <3> QED
      BY <2>1, <3>2, <3>3, <3>4, Zenon
  <2>3. ASSUME told[r] = <<"success">> PROVE at[r] = "ok" /\ PicturesAreOwn(r)
    <3>1. told[r] # <<>> /\ at[r] = "ok"
      BY <2>3 DEF ToldInv
    <3>2. form[r] \in Forms /\ form[r].kind = "avatar"
      BY <3>1 DEF ToldInv, Clicks, Control, Types
    <3> QED
      BY <3>1, <3>2, AvatarsAreRenamed, PicturesOfAvatar
  <2> QED
    BY <2>2, <2>3
<1> QED
  BY <1>1, <1>2, <1>3, PTL
-----------------------------------------------------------------------------
\* The directory of temporary files.

\* Beyond its tests: it has seen the path exist, or has made it.
Past(r) == at[r] \notin Preparing \cup {"start"}

\* Once a request has passed the tests there is no file in the way, and none
\* appears again; and if a late delete has removed the directory, the request
\* that did is about to make it.
TmpInv ==
  /\ at \in [Requests -> Stages]
  /\ tmp \in {"none", "file", "dir"}
  /\ \A r \in Requests : at[r] = "check" \/ at[r] = "mkdirs" \/ Past(r) => tmp # "file"
  /\ (\E r \in Requests : Past(r)) /\ tmp = "none" => \E q \in Requests : at[q] = "mkdirs"

LEMMA TmpInit == Init => TmpInv
BY DEF Init, TmpInv, Stages, Past, Preparing

\* A step of one request that starts and ends beyond the tests, or goes there
\* from "parse", and leaves the directory alone.
LEMMA PastStep ==
  ASSUME TmpInv, NEW r \in Requests, NEW place \in Stages \ (Preparing \cup {"start"}),
         Past(r), Moves(r, place), tmp' = tmp
  PROVE  TmpInv'
BY DEF TmpInv, Past, Moves, Preparing, Stages

LEMMA TmpPrepare ==
  ASSUME TmpInv, NEW r \in Requests, Prepare(r)
  PROVE  TmpInv'
<1>1. CASE CheckFile(r)
  BY <1>1 DEF CheckFile, TmpInv, Past, Moves, Preparing, Stages, Ended
<1>2. CASE CheckMissing(r)
  BY <1>2 DEF CheckMissing, TmpInv, Past, Moves, Preparing, Stages, Ended
<1>3. CASE Delete(r)
  BY <1>3 DEF Delete, TmpInv, Past, Moves, Preparing, Stages, Ended
<1>4. CASE MakeDirs(r)
  BY <1>4 DEF MakeDirs, TmpInv, Past, Moves, Preparing, Stages, Ended
<1> QED BY <1>1, <1>2, <1>3, <1>4 DEF Prepare

LEMMA TmpPost ==
  ASSUME TmpInv, NEW r \in Requests, doPost(r)
  PROVE  TmpInv'
<1>1. CASE Prepare(r)
  BY <1>1, TmpPrepare
<1>2. ASSUME Past(r), tmp' = tmp, NEW place \in Stages \ (Preparing \cup {"start"}), Moves(r, place)
      PROVE  TmpInv'
  BY <1>2, PastStep
<1>3. ASSUME Past(r), tmp' = tmp, Failed(r)
      PROVE  TmpInv'
  BY <1>3, <1>2 DEF Failed, Stages, Ended, Preparing
<1>4. ASSUME tmp' = tmp, at' = at
      PROVE  TmpInv'
  BY <1>4 DEF TmpInv, Past
<1>5. CASE Parse(r)
  BY <1>5, <1>2 DEF Parse, Past, Stages, Preparing
<1>6. CASE ParseFails(r)
  BY <1>6, <1>3 DEF ParseFails, Past, Preparing
<1>7. CASE doUpload(r)
  <2>1. Past(r) /\ tmp' = tmp /\ (Failed(r) \/ Moves(r, "write"))
    BY <1>7 DEF doUpload, Past, Preparing
  <2> QED BY <2>1, <1>2, <1>3 DEF Stages, Preparing
<1>8. CASE writeToStream(r)
  BY <1>8, <1>4 DEF writeToStream
<1>9. CASE CloseStream(r)
  BY <1>9, <1>2 DEF CloseStream, Past, Stages, Preparing
<1>10. CASE WriteFails(r)
  BY <1>10, <1>3 DEF WriteFails, Past, Preparing
<1>11. CASE Forward(r)
  BY <1>11, <1>2 DEF Forward, Past, Stages, Preparing, Ended
<1>12. CASE Resize(r)
  <2>1. Past(r) /\ tmp' = tmp /\ (Failed(r) \/ Moves(r, "scale"))
    BY <1>12 DEF Resize, Past, Preparing
  <2> QED BY <2>1, <1>2, <1>3 DEF Stages, Preparing
<1>13. CASE OpenScaled(r)
  BY <1>13, <1>2 DEF OpenScaled, Past, Stages, Preparing
<1>14. CASE scale(r)
  BY <1>14, <1>2 DEF scale, Past, Stages, Preparing
<1>15. CASE ScaleFails(r)
  BY <1>15, <1>3 DEF ScaleFails, Past, Preparing
<1>16. CASE printInfoBack(r)
  BY <1>16, <1>2 DEF printInfoBack, Past, Stages, Preparing, Ended
<1> QED BY <1>1, <1>5, <1>6, <1>7, <1>8, <1>9, <1>10, <1>11, <1>12, <1>13, <1>14, <1>15, <1>16
       DEF doPost, uploadManyFiles, ajaxUploadAvatar

\* However many requests test, delete and make the directory of temporary
\* files at once, it is a directory whenever none of them is in between.
THEOREM TmpIsReadyAtRest == Spec => []TmpReadyAtRest
<1>1. TmpInv /\ [Next]_vars => TmpInv'
  <2> SUFFICES ASSUME TmpInv, [Next]_vars PROVE TmpInv'
    OBVIOUS
  <2>1. CASE Midnight \/ UNCHANGED vars \/ \E r \in Requests : Collect(r)
    <3>1. at' = at /\ tmp' = tmp
      BY <2>1 DEF Midnight, vars, Collect
    <3> QED BY <3>1 DEF TmpInv, Past
  <2>2. CASE \E r \in Requests : doPost(r)
    BY <2>2, TmpPost
  <2> QED BY <2>1, <2>2 DEF Next
<1>2. TmpInv => TmpReadyAtRest
  BY DEF TmpInv, TmpReadyAtRest, Past, Preparing
<1> QED BY TmpInit, <1>1, <1>2, PTL DEF Spec
-----------------------------------------------------------------------------
\* The loading picture of upload-avatar.jsp.

PageTypeOK ==
  /\ ajax \in [Requests -> Places]
  /\ loading \in BOOLEAN

PageInv == PageTypeOK /\ PictureAgrees

\* The uploads counted are finitely many.
LEMMA CountedIsFinite == IsFiniteSet(Counted)
  BY RequestsAssumption, FS_Subset DEF Counted

\* When the page is opened nothing is counted and the picture is hidden.
LEMMA PageStarts == PageInit => PageInv
<1> SUFFICES ASSUME PageInit PROVE PageInv
  OBVIOUS
<1>1. Counted = {}
  <2>1. \A r \in Requests : ajax[r] \notin {"sent", "thrown"}
    BY DEF PageInit
  <2> QED
    BY <2>1 DEF Counted
<1>2. active = Cardinality(Counted) /\ ~(active > 0)
  BY <1>1, FS_EmptySet DEF PageInit
<1>3. PageTypeOK /\ ~loading
  BY DEF PageInit, PageTypeOK, Places
<1> QED
  BY <1>2, <1>3 DEF PageInv, PictureAgrees

\* A click adds one to the counter, and shows the picture unless one that was
\* counted before is there, in which case an upload was completed.
LEMMA ClickKeeps == ASSUME NEW r \in Requests, PageInv, ajaxFileUpload(r) PROVE PageInv'
<1> USE DEF PageInv, PageTypeOK, Places
<1>1. PageTypeOK'
  BY DEF ajaxFileUpload
<1>2. Counted' = Counted \cup {r} /\ r \notin Counted
  BY DEF ajaxFileUpload, Counted
<1>3. active' = Cardinality(Counted)'
  BY <1>2, CountedIsFinite, FS_AddElement DEF ajaxFileUpload, PictureAgrees
<1>4. active \in Nat /\ active' > 0
  BY CountedIsFinite, FS_CardinalityType DEF PictureAgrees, ajaxFileUpload
<1>5. ASSUME ~loading' PROVE \E q \in Requests : ajax'[q] = "done"
  <2>0. active # 0 /\ ~loading
    BY <1>5, Zenon DEF ajaxFileUpload
  <2>1. PICK q \in Requests : ajax[q] = "done"
    BY <1>4, <2>0 DEF PictureAgrees
  <2> QED
    BY <2>1 DEF ajaxFileUpload
<1> QED
  BY <1>1, <1>3, <1>4, <1>5 DEF PictureAgrees

\* An answer takes one off the counter, hides the picture and is completed.
LEMMA AnswerKeeps == ASSUME NEW r \in Requests, PageInv, uploadCallback(r) PROVE PageInv'
<1> USE DEF PageInv, PageTypeOK, Places
<1> USE DEF uploadCallback, Complete, AwaitsLoad
<1>1. PageTypeOK'
  OBVIOUS
<1>2. Counted' = Counted \ {r} /\ r \in Counted
  BY DEF Counted
<1>3. active' = Cardinality(Counted)'
  BY <1>2, CountedIsFinite, FS_RemoveElement DEF PictureAgrees, CountDown
<1>4. ~loading' /\ ajax'[r] = "done"
  OBVIOUS
<1> QED
  BY <1>1, <1>3, <1>4 DEF PictureAgrees

\* An exception leaves the request among the ones that are counted.
LEMMA ExceptionKeeps ==
  ASSUME NEW r \in Requests, PageInv, NotJson(r) \/ NotReadable(r)
  PROVE  PageInv'
<1> USE DEF PageInv, PageTypeOK, Places
<1> USE DEF NotJson, NotReadable, handleError, AwaitsLoad
<1>1. PageTypeOK'
  OBVIOUS
<1>2. Counted' = Counted
  BY DEF Counted
<1>3. \A q \in Requests : ajax[q] = "done" => ajax'[q] = "done"
  OBVIOUS
<1> QED
  BY <1>1, <1>2, <1>3 DEF PictureAgrees

\* Timers, the servlet and the clock do not touch what the picture depends on.
LEMMA OthersKeep ==
  ASSUME PageInv, UNCHANGED <<ajax, active, loading>>
  PROVE  PageInv'
  BY DEF PageInv, PageTypeOK, PictureAgrees, Counted

LEMMA PageStep == PageInv /\ [PageNext]_pageVars => PageInv'
<1> SUFFICES ASSUME PageInv, [PageNext]_pageVars PROVE PageInv'
  OBVIOUS
<1>1. ASSUME NEW r \in Requests, Browser(r) PROVE PageInv'
  <2>1. CASE TimesOut(r)
    BY <2>1, OthersKeep DEF TimesOut, handleError
  <2> QED
    BY <1>1, <2>1, ClickKeeps, AnswerKeeps, ExceptionKeeps DEF Browser
<1>2. CASE \E r \in Requests : Servlet(r)
  BY <1>2, OthersKeep DEF Servlet, ajaxVars
<1>3. CASE Midnight /\ UNCHANGED ajaxVars
  BY <1>3, OthersKeep DEF ajaxVars
<1>4. CASE UNCHANGED pageVars
  BY <1>4, OthersKeep DEF pageVars, ajaxVars
<1> QED
  BY <1>1, <1>2, <1>3, <1>4 DEF PageNext

\* The picture and the counter agree, for any finite number of uploads on the
\* page, in any order of clicks, answers, exceptions and timeouts.
THEOREM PictureAlwaysAgrees == PageSpec => []PictureAgrees
<1>1. PageInv => PictureAgrees
  BY DEF PageInv
<1> QED
  BY PageStarts, PageStep, <1>1, PTL DEF PageSpec
=============================================================================
