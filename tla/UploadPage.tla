----------------------------- MODULE UploadPage -----------------------------
(***************************************************************************)
(* The page upload-avatar.jsp with ajaxupload.js and ajaxfileupload.js, in  *)
(* front of the servlet of Upload: a click posts a form into a hidden      *)
(* iframe, the load event of the iframe brings the answer, a timer may run *)
(* beside it.  A handler of the browser runs to its end or to an exception *)
(* before another starts.  The requests of kind "avatar" are the clicks on *)
(* one page; the others come from plain forms.                             *)
(*                                                                         *)
(* jQuery.handleError, which every failure here calls, is not in the       *)
(* jQuery the page loads (1.7.2): the call itself throws.                  *)
(***************************************************************************)
EXTENDS Upload

ASSUME RequestsAssumption == IsFiniteSet(Requests)

VARIABLES
  ajax,         \* per request: "idle", "sent", "done", "thrown", "plain"
  requestDone,
  timeout,      \* whether jQuery.ajaxSettings has a timeout
  timer,        \* the requests whose timeout checker has still to run
  active,       \* jQuery.active
  loading,      \* whether the picture #loading is shown
  told          \* history: what the user was told of each request

ajaxVars == <<ajax, requestDone, timeout, timer, active, loading, told>>
pageVars == <<vars, ajaxVars>>

Places == {"idle", "sent", "done", "thrown", "plain"}
Clicks == {r \in Requests : form[r].kind = "avatar"}

\* Hidden fields for the data of the page, then the file input, which is moved
\* out of the page.
createUploadForm(data, input) ==
  [i \in DOMAIN data |->
     [isFormField |-> TRUE, field |-> data[i].name, value |-> data[i].value, size |-> 0]] \o <<input>>

uploadAvatar(input) ==
  createUploadForm(
    <<[name |-> "iptId", value |-> "upFileIpt"], [name |-> "funcName", value |-> "userAvatar"],
      [name |-> "isRename", value |-> "true"]>>, input)

\* The forms of kind "avatar" are those the page builds around its file input.
ASSUME AvatarsAssumption ==
  \A f \in Forms : f.kind = "avatar" =>
    LET input == f.parts[Len(f.parts)] IN ~input.isFormField /\ f.parts = uploadAvatar(input)

\* uploadFile and ajaxFileUpload: the picture is bound to ajaxStart, which
\* comes when no other upload is counted.
ajaxFileUpload(r) ==
  /\ ajax[r] = "idle"
  /\ ajax' = [ajax EXCEPT ![r] = "sent"]
  /\ loading' = (active = 0 \/ loading)
  /\ active' = active + 1
  /\ timer' = IF timeout THEN timer \cup {r} ELSE timer
  /\ UNCHANGED <<vars, requestDone, timeout, told>>

\* Variants: an answer that comes after the timeout is dropped; the counter
\* is left as it is; what data.err says is not looked at.
NotDone(r) == ajax[r] = "sent" /\ ~requestDone[r]
KeepsCount == active
Pleased(answer) == "success"

\* The load event of the iframe comes once, with the answer or an error page.
\* (A handler that ends in an exception stays bound, but no other load comes.)
AwaitsLoad(r) == ajax[r] = "sent"

\* success of uploadFile: one of the two functions, as data.err says.
Report(answer) == IF answer = "ok" THEN "success" ELSE "error"

CountDown == active - 1

\* ajaxComplete hides the picture, also when other uploads still run.
Complete(r) ==
  /\ ajax' = [ajax EXCEPT ![r] = "done"]
  /\ loading' = FALSE
  /\ active' = CountDown

\* The exception leaves the handler before anything is completed.
handleError == UNCHANGED <<active, loading, told>>

uploadCallback(r) ==
  /\ AwaitsLoad(r) /\ at[r] \in {"ok", "error"}
  /\ requestDone' = [requestDone EXCEPT ![r] = TRUE]
  /\ told' = [told EXCEPT ![r] = Append(@, Report(at[r]))]
  /\ Complete(r)
  /\ UNCHANGED <<vars, timeout, timer>>

\* An error page of the server: eval throws.
NotJson(r) ==
  /\ AwaitsLoad(r)
  /\ ajax' = [ajax EXCEPT ![r] = "thrown"]
  /\ requestDone' = [requestDone EXCEPT ![r] = TRUE]
  /\ handleError
  /\ UNCHANGED <<vars, timeout, timer>>

\* No connection: the error page of the browser may not be read.
NotReadable(r) ==
  /\ AwaitsLoad(r)
  /\ ajax' = [ajax EXCEPT ![r] = "thrown"]
  /\ handleError
  /\ UNCHANGED <<vars, requestDone, timeout, timer>>

\* The timeout checker: the status is "error", and handleError throws before
\* xml is given up, so that a late answer finds its handler as it was.
TimesOut(r) ==
  /\ r \in timer
  /\ timer' = timer \ {r}
  /\ requestDone' = [requestDone EXCEPT ![r] = @ \/ ajax[r] = "sent"]
  /\ handleError
  /\ UNCHANGED <<vars, ajax, timeout>>

PageInit ==
  /\ Init
  /\ ajax = [r \in Requests |-> IF r \in Clicks THEN "idle" ELSE "plain"]
  /\ requestDone = [r \in Requests |-> FALSE]
  /\ timeout \in BOOLEAN /\ timer = {}
  /\ active = 0 /\ loading = FALSE
  /\ told = [r \in Requests |-> <<>>]

Browser(r) ==
  ajaxFileUpload(r) \/ uploadCallback(r) \/ NotJson(r) \/ NotReadable(r) \/ TimesOut(r)

Servlet(r) == ajax[r] # "idle" /\ (doPost(r) \/ Collect(r)) /\ UNCHANGED ajaxVars

PageNext ==
  \/ \E r \in Requests : Browser(r) \/ Servlet(r)
  \/ Midnight /\ UNCHANGED ajaxVars

\* The browser runs the handler of an answer that has come.
PageSpec ==
  PageInit /\ [][PageNext]_pageVars /\ \A r \in Requests : WF_pageVars(uploadCallback(r))

-----------------------------------------------------------------------------
(* Properties.                                                              *)

\* A user is told once at most how an upload went, timer or not, and sees new
\* pictures only if the four of this very upload stand on the disk.
ToldTruly ==
  \A r \in Requests :
    /\ Len(told[r]) <= 1
    /\ told[r] = <<"success">> => at[r] = "ok" /\ PicturesAreOwn(r)

\* What the picture and the counter behind it do: jQuery.active counts the uploads
\* that are not completed, those that ended in an exception among them, and these
\* for ever.  (That they stay counted is a fault of the page this property tells
\* and does not find.)  The picture is shown only while one is counted, and while
\* one is counted it is hidden only after another was completed.
Counted == {r \in Requests : ajax[r] \in {"sent", "thrown"}}
PictureAgrees ==
  /\ active = Cardinality(Counted)
  /\ loading => active > 0
  /\ active > 0 /\ ~loading => \E r \in Requests : ajax[r] = "done"

\* What the servlet answers is told to the user, although the timeout may have
\* passed before, unless the connection or the server failed.
AnswersAreTold ==
  \A r \in Requests :
    (at[r] \in {"ok", "error"} /\ ajax[r] = "sent") ~> (told[r] # <<>> \/ ajax[r] = "thrown")
=============================================================================
