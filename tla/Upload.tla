------------------------------- MODULE Upload -------------------------------
(***************************************************************************)
(* FileUploadServlet, UploadTools and the writing half of FileOperater:    *)
(* requests of several users post forms at the same time; each prepares    *)
(* the directory of temporary files, parses its form, writes its files one *)
(* block at a time to a disk all of them share, and an avatar is then      *)
(* scaled four times.  Any write may fail, and midnight may pass, which    *)
(* changes the directory files go to.                                      *)
(*                                                                         *)
(* A block of a file is <<r, i>>, the part of the form it came from; a     *)
(* size is a number of blocks.  Directories under the upload path always   *)
(* can be made and are left out.                                           *)
(***************************************************************************)
EXTENDS Naturals, FiniteSets, FiniteSetsExt, Sequences

CONSTANTS
  Requests,
  Forms,       \* the forms the pages post: [kind, parts]
  SingleMax,   \* singleFileSize
  AllMax,      \* allFileSize of upload()
  DefaultSize, \* the 500 KB kept in memory where a limit is 0
  Blank        \* what an input that was left empty sends: a name or a value

MaxDay == 1    \* bound: one midnight
Sizes == <<"H", "L", "M", "S">>

ASSUME LimitsAssumption == SingleMax \in Nat /\ AllMax \in Nat /\ DefaultSize \in Nat

\* A form is a sequence of parts; a file has a size and a name, which is a stem
\* and what comes behind it.  The files users choose do not have names with a
\* UUID of the server, <<r, i>> for part i of request r, and what comes behind
\* a stem is ".ext", not the "-H.jpg", "-L.jpg"... of the pictures.
ASSUME FormsAssumption ==
  \A f \in Forms :
    /\ Len(f.parts) \in Nat /\ DOMAIN f.parts = 1..Len(f.parts)
    /\ \A i \in DOMAIN f.parts : ~f.parts[i].isFormField =>
         LET file == f.parts[i] IN
         /\ file.size \in Nat
         /\ file.name = [stem |-> file.name.stem, ext |-> file.name.ext]
         /\ file.name.stem \notin Requests \X Nat
         /\ \A k \in DOMAIN Sizes : file.name.ext # Sizes[k]

VARIABLES
  form,    \* the posted form of each request
  at,      \* where each request is
  left,    \* the parts uploadManyFiles has still to write
  attr,    \* the request attributes RELATIVE_PATH and FILE_NAME
  out,     \* the open output stream: a path and the blocks written
  disk,    \* the files under the upload path, as sequences of blocks
  tmp,     \* what the path of temporary files is: "none", "file" or "dir"
  temps,   \* the requests that have temporary files
  day,
  saved    \* history: the parts that were written whole, and where

vars == <<form, at, left, attr, out, disk, tmp, temps, day, saved>>

NoAttr == [dir |-> <<>>, name |-> <<>>]
Hole == <<>>                   \* a block of zeros behind the end of a cut file
Ended == {"shown", "nothing", "ok", "error"}
Success == {"shown", "ok"}
Preparing == {"check", "delete", "mkdirs"}

Part(r, i) == form[r].parts[i]
Content(r, i) == [k \in 1..Part(r, i).size |-> <<r, i>>]
Moves(r, place) == at' = [at EXCEPT ![r] = place]

-----------------------------------------------------------------------------
(* What a form asks for.                                                    *)

\* The cfg of uploadSingleFile takes the field filedata, that of upload() all.
Matches(f, i) ==
  /\ ~f.parts[i].isFormField
  /\ f.kind = "avatar" => f.parts[i].field = "filedata"

\* Variant: one pass, so a field rules the files behind it only.
RenamesBehind(f, i) ==
  ~\E k \in 1..i : f.parts[k].isFormField /\ f.parts[k].field = "isRename"
                   /\ f.parts[k].value = "false"

\* isRename and funcName come from a pass over all fields before any file.
Renames(f, i) ==
  ~\E k \in DOMAIN f.parts : f.parts[k].isFormField /\ f.parts[k].field = "isRename"
                             /\ f.parts[k].value = "false"

FuncName(f) ==
  LET named == {k \in DOMAIN f.parts : f.parts[k].isFormField /\ f.parts[k].field = "funcName"
                                       /\ f.parts[k].value # Blank}
  IN  IF named = {} THEN "others" ELSE f.parts[Max(named)].value

getRelativePath(f) == <<FuncName(f), day>>

\* Variant: one UUID for the whole request.
OneUUID(r, i) ==
  IF Renames(form[r], i) THEN [Part(r, i).name EXCEPT !.stem = <<r>>] ELSE Part(r, i).name

\* A new name keeps the extension; UUIDs never repeat, this one is <<r, i>>.
getUploadFileName(r, i) ==
  IF Renames(form[r], i) THEN [Part(r, i).name EXCEPT !.stem = <<r, i>>] ELSE Part(r, i).name

Total(f) == MapThenSumSet(LAMBDA i : f.parts[i].size, DOMAIN f.parts)

\* The second call of setSizeMax replaces the limit the first one set.
SizeMax == SingleMax
SetSizeThreshold(f) ==
  LET allFileSize == IF f.kind = "avatar" THEN SingleMax ELSE AllMax
  IN  IF allFileSize > 0 THEN allFileSize ELSE DefaultSize
Spills(f) == \E i \in DOMAIN f.parts : f.parts[i].size > SetSizeThreshold(f)

-----------------------------------------------------------------------------
(* The directory of temporary files.                                        *)

CheckFile(r) ==
  /\ at[r] = "start"
  /\ Moves(r, IF tmp = "file" THEN "delete" ELSE "check")
  /\ UNCHANGED <<form, left, attr, out, disk, tmp, temps, day, saved>>

CheckMissing(r) ==
  /\ at[r] = "check"
  /\ Moves(r, IF tmp = "none" THEN "mkdirs" ELSE "parse")
  /\ UNCHANGED <<form, left, attr, out, disk, tmp, temps, day, saved>>

\* Variant: the files in the directory are deleted too.
DeleteAll(r) ==
  /\ at[r] = "delete"
  /\ tmp' = "none"
  /\ Moves(r, "mkdirs")
  /\ UNCHANGED <<form, left, attr, out, disk, temps, day, saved>>

\* Variant: no mkdirs after delete.
DeleteOnly(r) ==
  /\ at[r] = "delete"
  /\ tmp' = IF tmp = "dir" /\ temps # {} THEN tmp ELSE "none"
  /\ Moves(r, "parse")
  /\ UNCHANGED <<form, left, attr, out, disk, temps, day, saved>>

\* delete removes a file, and also an empty directory another request made.
Delete(r) ==
  /\ at[r] = "delete"
  /\ tmp' = IF tmp = "dir" /\ temps # {} THEN tmp ELSE "none"
  /\ Moves(r, "mkdirs")
  /\ UNCHANGED <<form, left, attr, out, disk, temps, day, saved>>

MakeDirs(r) ==
  /\ at[r] = "mkdirs"
  /\ tmp' = "dir"
  /\ Moves(r, "parse")
  /\ UNCHANGED <<form, left, attr, out, disk, temps, day, saved>>

Prepare(r) == CheckFile(r) \/ CheckMissing(r) \/ Delete(r) \/ MakeDirs(r)

-----------------------------------------------------------------------------
(* Parsing and writing.                                                     *)

\* Variant: the exception of one file is swallowed and the loop goes on.
Swallowed(r) == Moves(r, "files")

\* An exception: upload() prints it and answers nothing, an avatar says so.
Failed(r) == Moves(r, IF form[r].kind = "avatar" THEN "error" ELSE "nothing")

Parse(r) ==
  /\ at[r] = "parse"
  /\ Total(form[r]) <= SizeMax
  /\ Spills(form[r]) => tmp = "dir"
  /\ temps' = IF Spills(form[r]) THEN temps \cup {r} ELSE temps
  /\ left' = [left EXCEPT ![r] = {i \in DOMAIN form[r].parts : Matches(form[r], i)}]
  /\ Moves(r, "files")
  /\ UNCHANGED <<form, attr, out, disk, tmp, day, saved>>

\* Too large, no directory for a temporary file, or the client is gone.
ParseFails(r) ==
  /\ at[r] = "parse"
  /\ Failed(r)
  /\ UNCHANGED <<form, left, attr, out, disk, tmp, temps, day, saved>>

\* doUpload until writeToStream has opened the file, which empties it.  A blank
\* name that is kept leaves the path of the directory, which cannot be opened.
doUpload(r) ==
  LET i == Min(left[r])
      target == [dir |-> getRelativePath(form[r]), name |-> getUploadFileName(r, i)]
  IN  /\ at[r] = "files" /\ left[r] # {}
      /\ attr' = [attr EXCEPT ![r] = target]
      /\ left' = [left EXCEPT ![r] = @ \ {i}]
      /\ IF target.name.stem = Blank
         THEN Failed(r) /\ UNCHANGED <<out, disk>>
         ELSE /\ Moves(r, "write")
              /\ out' = [out EXCEPT ![r] = [path |-> target, part |-> i, blocks |-> 0]]
              /\ disk' = [p \in DOMAIN disk \cup {target} |-> IF p = target THEN <<>> ELSE disk[p]]
      /\ UNCHANGED <<form, tmp, temps, day, saved>>

\* A stream writes where it stands, whatever another did to the file.
PutBlock(file, k, block) ==
  [j \in 1..Max({k, Len(file)}) |->
     IF j = k THEN block ELSE IF j <= Len(file) THEN file[j] ELSE Hole]

writeToStream(r) ==
  LET o == out[r] IN
  /\ at[r] = "write" /\ o.blocks < Part(r, o.part).size
  /\ disk' = [disk EXCEPT ![o.path] = PutBlock(@, o.blocks + 1, <<r, o.part>>)]
  /\ out' = [out EXCEPT ![r].blocks = @ + 1]
  /\ UNCHANGED <<form, at, left, attr, tmp, temps, day, saved>>

CloseStream(r) ==
  LET o == out[r] IN
  /\ at[r] = "write" /\ o.blocks = Part(r, o.part).size
  /\ saved' = saved \cup {[req |-> r, part |-> o.part, path |-> o.path]}
  /\ Moves(r, "files")
  /\ UNCHANGED <<form, left, attr, out, disk, tmp, temps, day>>

\* What was written stays, and the streams are not closed.
WriteFails(r) ==
  /\ at[r] = "write"
  /\ Failed(r)
  /\ UNCHANGED <<form, left, attr, out, disk, tmp, temps, day, saved>>

-----------------------------------------------------------------------------
(* After the files.                                                         *)

Forward(r) ==
  /\ at[r] = "files" /\ left[r] = {} /\ form[r].kind = "many"
  /\ Moves(r, "shown")
  /\ UNCHANGED <<form, left, attr, out, disk, tmp, temps, day, saved>>

\* Without a file there is no FILE_NAME: a NullPointerException.
Resize(r) ==
  /\ at[r] = "files" /\ left[r] = {} /\ form[r].kind = "avatar"
  /\ IF attr[r] = NoAttr THEN Failed(r) /\ UNCHANGED left
     ELSE Moves(r, "scale") /\ left' = [left EXCEPT ![r] = DOMAIN Sizes]
  /\ UNCHANGED <<form, attr, out, disk, tmp, temps, day, saved>>

Scaled(path, k) == [path EXCEPT !.name.ext = Sizes[k]]

\* A readable picture is one part of one form, whole.
IsImage(file) ==
  \E r \in Requests : \E i \in DOMAIN form[r].parts :
    ~Part(r, i).isFormField /\ Part(r, i).image /\ file = Content(r, i)

\* scale opens both files, which empties the second one.
OpenScaled(r) ==
  LET dest == Scaled(attr[r], Min(left[r])) IN
  /\ at[r] = "scale" /\ left[r] # {}
  /\ disk' = [p \in DOMAIN disk \cup {dest} |-> IF p = dest THEN <<>> ELSE disk[p]]
  /\ Moves(r, "scaling")
  /\ UNCHANGED <<form, left, attr, out, tmp, temps, day, saved>>

scale(r) ==
  /\ at[r] = "scaling" /\ IsImage(disk[attr[r]])
  /\ disk' = [disk EXCEPT ![Scaled(attr[r], Min(left[r]))] = disk[attr[r]]]
  /\ left' = [left EXCEPT ![r] = @ \ {Min(@)}]
  /\ Moves(r, "scale")
  /\ UNCHANGED <<form, attr, out, tmp, temps, day, saved>>

\* ImageIO reads no picture, or an IOException: an empty file stays.
ScaleFails(r) ==
  /\ at[r] = "scaling"
  /\ Failed(r)
  /\ UNCHANGED <<form, left, attr, out, disk, tmp, temps, day, saved>>

printInfoBack(r) ==
  /\ at[r] = "scale" /\ left[r] = {}
  /\ Moves(r, "ok")
  /\ UNCHANGED <<form, left, attr, out, disk, tmp, temps, day, saved>>

-----------------------------------------------------------------------------

Midnight ==
  /\ day < MaxDay
  /\ day' = day + 1
  /\ UNCHANGED <<form, at, left, attr, out, disk, tmp, temps, saved>>

\* The items of an ended request are garbage, and their temporary files go.
Collect(r) ==
  /\ r \in temps /\ at[r] \in Ended
  /\ temps' = temps \ {r}
  /\ UNCHANGED <<form, at, left, attr, out, disk, tmp, day, saved>>

Init ==
  /\ form \in [Requests -> Forms]
  /\ at = [r \in Requests |-> "start"]
  /\ left = [r \in Requests |-> {}]
  /\ attr = [r \in Requests |-> NoAttr]
  /\ out = [r \in Requests |-> [path |-> NoAttr, part |-> 0, blocks |-> 0]]
  /\ disk = <<>>
  /\ tmp \in {"none", "file", "dir"}
  /\ temps = {} /\ day = 0 /\ saved = {}

uploadManyFiles(r) ==
  \/ Prepare(r) \/ Parse(r) \/ ParseFails(r)
  \/ doUpload(r) \/ writeToStream(r) \/ CloseStream(r) \/ WriteFails(r)

ajaxUploadAvatar(r) ==
  Resize(r) \/ OpenScaled(r) \/ scale(r) \/ ScaleFails(r) \/ printInfoBack(r)

doPost(r) == uploadManyFiles(r) \/ Forward(r) \/ ajaxUploadAvatar(r)

Next == Midnight \/ \E r \in Requests : doPost(r) \/ Collect(r)

Spec == Init /\ [][Next]_vars

-----------------------------------------------------------------------------
(* Properties.                                                              *)

FileParts(r) == {i \in DOMAIN form[r].parts : ~Part(r, i).isFormField}
Names == [r \in Requests |-> {Part(r, i).name : i \in FileParts(r)}]
KeepsNames(f) ==
  \E i \in DOMAIN f.parts : f.parts[i].isFormField /\ f.parts[i].field = "isRename"
                            /\ f.parts[i].value = "false"
Open(r) == at[r] = "write"

\* The path doUpload sets for part i, on one of the days so far.
PathOf(r, i, p) ==
  \E d \in 0..day : p = [dir |-> <<FuncName(form[r]), d>>, name |-> getUploadFileName(r, i)]

\* The variables have their types.  The attributes of a request are those of one
\* of its files, if there are any; while it writes, they are those of the part
\* it writes, whose file exists and whose stream stands at one of its blocks.
\* Temporary files lie in a directory.
UploadTypeOK ==
  /\ form \in [Requests -> Forms]
  /\ at \in [Requests -> {"start", "parse", "files", "write", "scale", "scaling"}
                         \cup Preparing \cup Ended]
  /\ \A r \in Requests : left[r] \subseteq 1..(Len(form[r].parts) + Len(Sizes))
  /\ \A r \in Requests : attr[r] = NoAttr \/ \E i \in FileParts(r) : PathOf(r, i, attr[r])
  /\ \A r \in Requests : Open(r) =>
       LET o == out[r] IN
       /\ o.part \in FileParts(r) /\ PathOf(r, o.part, o.path)
       /\ o.path \in DOMAIN disk /\ o.path = attr[r]
       /\ o.blocks \in 0..Part(r, o.part).size
  /\ temps \subseteq Requests
  /\ temps # {} => tmp = "dir"
  /\ tmp \in {"none", "file", "dir"} /\ day \in 0..MaxDay

\* The uploads of others never change a file that was given a new name: what
\* was written whole holds the content of its part for good, and what a failed
\* write has left is the beginning of it.
RenamedIsOwn ==
  /\ \A s \in saved : ~KeepsNames(form[s.req]) => disk[s.path] = Content(s.req, s.part)
  /\ \A r \in Requests :
       LET o == out[r] IN
       o.part # 0 /\ ~KeepsNames(form[r]) /\ at[r] \in {"write", "nothing"}
         => \/ \E s \in saved : s.req = r /\ s.path = o.path
            \/ disk[o.path] = SubSeq(Content(r, o.part), 1, o.blocks)

\* isRename and funcName rule every file of the form, those that stand before
\* the field too.
FieldsRuleAllFiles ==
  \A s \in saved :
    /\ (s.path.name \in Names[s.req]) = KeepsNames(form[s.req])
    /\ \A t \in saved : t.req = s.req => t.path.dir[1] = s.path.dir[1]

\* A request is answered as a success only if each of its files was written
\* whole, and RELATIVE_PATH and FILE_NAME are those of the last one, although
\* midnight may have passed between two files and before the answer.
SuccessIsComplete ==
  \A r \in Requests : at[r] \in Success =>
    LET files == {i \in DOMAIN form[r].parts : Matches(form[r], i)} IN
    /\ \A i \in files : \E s \in saved : s.req = r /\ s.part = i
    /\ files # {} => [req |-> r, part |-> Max(files), path |-> attr[r]] \in saved

\* The four pictures of an avatar stand beside the uploaded file and are made of
\* it, and not of an avatar sent at the same time.
PicturesAreOwn(r) ==
  \E i \in DOMAIN form[r].parts :
    /\ Matches(form[r], i)
    /\ \A k \in DOMAIN Sizes : disk[Scaled(attr[r], k)] = Content(r, i)

\* Requests that test, delete and make the directory of temporary files at the
\* same time may delete it again, but once none of them is between its tests
\* and mkdirs, and one has been there, it is a directory.
TmpReadyAtRest ==
  (\E r \in Requests : at[r] \notin Preparing \cup {"start"}) /\ (\A r \in Requests : at[r] \notin Preparing)
    => tmp = "dir"

\* UploadTools.java:73: allFileSize is the size of all files together.
TotalWithinLimit ==
  \A r \in Requests :
    form[r].kind = "many" /\ at[r] \in {"files", "write", "shown"} => Total(form[r]) <= AllMax
=============================================================================
