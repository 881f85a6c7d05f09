------------------------------ MODULE MailUtil ------------------------------
(***************************************************************************)
(* MailUtil.parseMessage walks the parts of a message for attachments, and  *)
(* the body handler for text (parseMailTextContent).  A part is a record:   *)
(* type, "text" being plain or HTML; disposed, whether its disposition is   *)
(* attachment or inline; name, how "name" is spelled in its content type    *)
(* ("" if it is not there); and parts, what a multipart has, or the content *)
(* of a message/rfc822.  Walks return paths: the positions that lead to a   *)
(* part.                                                                    *)
(***************************************************************************)
EXTENDS Naturals, Sequences, FiniteSets, SequencesExt

CONSTANT Mails      \* what may come: parts, the message itself being one

MaxMessages == 2    \* bound: the messages parseMessage is called with

VARIABLES
  messages,   \* how many messages are still to come
  mail,       \* the message that is parsed, if any
  text,       \* the parts of it appended to the text
  flagged,    \* what hasAttachment returned
  handled,    \* the parts athmHandler was called with
  stage       \* of parseMessage: "loop", "body", "parsed", or "thrown"

mailVars == <<messages, mail, text, flagged, handled, stage>>

mailInit ==
  /\ messages = MaxMessages /\ mail = {} /\ stage = "loop"
  /\ text = <<>> /\ flagged = FALSE /\ handled = <<>>

\* What f returns for the parts of a part, one behind the other.
Each(part, f(_, _), path) ==
  LET found[i \in 0..Len(part.parts)] ==
        IF i = 0 THEN <<>> ELSE found[i - 1] \o f(part.parts[i], Append(path, i))
  IN  found[Len(part.parts)]

Named(part) == part.name # "" \/ part.type = "application"

\* Variant: the loop goes on, and the last part decides.
RECURSIVE LastDecides(_)
LastDecides(part) ==
  /\ part.parts # <<>>
  /\ CASE part.type = "multipart" ->
            LET p == Last(part.parts) IN p.disposed \/ IF p.type = "multipart" THEN LastDecides(p) ELSE Named(p)
       [] part.type = "message" -> LastDecides(Last(part.parts))
       [] OTHER -> FALSE

RECURSIVE hasAttachment(_)
hasAttachment(part) ==
  CASE part.type = "multipart" ->
         \E i \in DOMAIN part.parts :
           LET p == part.parts[i]
           IN  p.disposed \/ IF p.type = "multipart" THEN hasAttachment(p) ELSE Named(p)
    [] part.type = "message" -> hasAttachment(part.parts[1])
    [] OTHER -> FALSE

\* In a multipart another multipart is walked, a message is not.
RECURSIVE parseAttachment(_, _)
parseAttachment(part, path) ==
  LET BodyPart(p, q) ==
        CASE p.disposed -> <<q>>
          [] ~p.disposed /\ p.type = "multipart" -> parseAttachment(p, q)
          [] OTHER -> IF Named(p) THEN <<q>> ELSE <<>>
  IN  CASE part.type = "multipart" -> Each(part, BodyPart, path)
        [] part.type = "message" -> parseAttachment(part.parts[1], Append(path, 1))
        [] OTHER -> <<>>

\* Here "name" is looked for as it is spelled, and dispositions are not.
RECURSIVE parseMailTextContent(_, _)
parseMailTextContent(part, path) ==
  CASE part.type = "text" -> IF part.name = "name" THEN <<>> ELSE <<path>>
    [] part.type \in {"message", "multipart"} -> Each(part, parseMailTextContent, path)
    [] OTHER -> <<>>

handleMailBody ==
  /\ stage = "loop" /\ messages > 0
  /\ \E m \in Mails : mail' = {m}
  /\ \A m \in mail' : text' = parseMailTextContent(m, <<>>)
  /\ messages' = messages - 1 /\ stage' = "body"
  /\ UNCHANGED <<flagged, handled>>

handleAttachments ==
  /\ stage = "body"
  /\ \A m \in mail :
       /\ flagged' = hasAttachment(m)
       /\ handled' = IF flagged' THEN parseAttachment(m, <<>>) ELSE <<>>
  /\ stage' = "parsed"
  /\ UNCHANGED <<messages, mail, text>>

\* The loop goes on with the next message.
nextMessage ==
  /\ stage = "parsed" /\ messages > 0
  /\ mail' = {} /\ text' = <<>> /\ flagged' = FALSE /\ handled' = <<>>
  /\ stage' = "loop"
  /\ UNCHANGED messages

\* JavaMail or a handler may throw in either walk: what came before is done, the
\* rest of this message and the messages behind it are not looked at.
bodyThrows ==
  /\ stage = "loop" /\ messages > 0
  /\ \E m \in Mails : mail' = {m}
  /\ \A m \in mail' :
       LET whole == parseMailTextContent(m, <<>>)
       IN  \E k \in 0..Len(whole) : text' = SubSeq(whole, 1, k)
  /\ messages' = messages - 1 /\ stage' = "thrown"
  /\ UNCHANGED <<flagged, handled>>

attachmentThrows ==
  /\ stage = "body"
  /\ \/ UNCHANGED <<flagged, handled>>
     \/ /\ flagged' = TRUE
        /\ \A m \in mail :
             LET whole == parseAttachment(m, <<>>)
             IN  hasAttachment(m) /\ \E k \in 0..Len(whole) : handled' = SubSeq(whole, 1, k)
  /\ stage' = "thrown"
  /\ UNCHANGED <<messages, mail, text>>

parseMessage ==
  handleMailBody \/ handleAttachments \/ nextMessage \/ bodyThrows \/ attachmentThrows

mailNext == parseMessage

-----------------------------------------------------------------------------
(* Properties.                                                              *)

RECURSIVE At(_, _)
At(part, path) == IF path = <<>> THEN part ELSE At(part.parts[Head(path)], Tail(path))

RECURSIVE Leaves(_, _)
Leaves(part, path) == IF part.parts = <<>> THEN <<path>> ELSE Each(part, Leaves, path)

\* A message inside a multipart is not looked into for attachments, unless it is
\* the only content of the whole.
Hidden(m, path) ==
  \E i \in 1..(Len(path) - 1) :
    /\ At(m, SubSeq(path, 1, i)).type = "message"
    /\ \E j \in 0..(i - 1) : At(m, SubSeq(path, 1, j)).type = "multipart"

\* Of a mail with several parts that was parsed to its end: the handler was
\* called if and only if hasAttachment says that it has one; each part is text
\* once at most and handled once at most; a part that is not hidden in a nested
\* message, and neither an unnamed picture, is the one or the other, by itself
\* or as part of what was handled.  A part that was handled itself is text too
\* exactly if it is of a type for text and only its disposition or a name
\* spelled in another way made it an attachment.
PartsInOnePlace ==
  \A m \in mail : stage = "parsed" /\ m.parts # <<>> =>
    LET Under(path) == \E h \in ToSet(handled) : IsPrefix(h, path)
        IsText(path) == path \in ToSet(text)
    IN  /\ flagged = (handled # <<>>)
        /\ IsInjective(text) /\ IsInjective(handled)
        /\ \A path \in ToSet(Leaves(m, <<>>)) :
             LET part == At(m, path)
             IN  /\ ~Hidden(m, path) /\ (part.type # "image" \/ part.name # "") => Under(path) \/ IsText(path)
                 /\ path \in ToSet(handled) =>
                      (IsText(path) <=> part.type = "text" /\ part.name # "name" /\ (part.disposed \/ part.name = "NAME"))

\* MailUtil.java:652: the text of an attachment "is not the result we need, so it
\* has to be tested for here": no part the handler gets is text of the mail.
AttachmentsAreNoText == ToSet(text) \cap ToSet(handled) = {}
=============================================================================
