---------------------------- MODULE MCUploadPage ----------------------------
(* UploadPage with two requests: the forms of upload.jsp, with the fields     *)
(* UploadTools knows, and those that createUploadForm builds from            *)
(* upload-avatar.jsp, hidden fields first.                                  *)
EXTENDS UploadPage

CONSTANTS r1, r2, a, b, png

MCRequests == {r1, r2}

Field(field, value) == [isFormField |-> TRUE, field |-> field, value |-> value, size |-> 0]
File(field, stem, ext, size) ==
  [isFormField |-> FALSE, field |-> field, name |-> [stem |-> stem, ext |-> ext],
   size |-> size, image |-> ext = png]

Many(parts) == [kind |-> "many", parts |-> parts]
Avatar(stem, ext, size) ==
  [kind |-> "avatar", parts |-> uploadAvatar(File("filedata", stem, ext, size))]

\* Two files with new names, the second one spilled to the temporary directory;
\* a name that is kept, with the fields behind the file, one of them blank; an
\* input left empty;
\* avatars that are a picture, one that is too large, or an input left empty.
MCForms ==
  { Many(<<File("file1", a, png, 1), File("file2", b, png, 2)>>),
    Many(<<File("file1", a, png, 1), Field("isRename", "false"),
           Field("funcName", "doc"), Field("funcName", Blank)>>),
    Many(<<Field("isRename", "false"), File("file1", a, png, 2), File("file2", Blank, Blank, 0)>>),
    Avatar(a, png, 2), Avatar(a, png, 4), Avatar(Blank, Blank, 0) }
=============================================================================
