--------------------------- MODULE CookieOperator ---------------------------
(***************************************************************************)
(* jadeUtils.cookieOperator of base.js, called by pages of one site, and    *)
(* the cookies of the browser.  A name is one atom without "="; a value is  *)
(* a sequence of characters, of which ";" would end the cookie.  A date for *)
(* options.expires, domain and secure are left out.                         *)
(***************************************************************************)
EXTENDS Integers, Sequences, FiniteSets, SequencesExt

CONSTANTS
  Characters, Values,   \* what values are made of, and some of them
  Names,
  Folders, Pages,       \* what directories are made of, and those of the site
  Objects               \* option objects the caller keeps

NoValue == <<"null">>

\* No path and the number 0 stand for undefined.
Options == [path : {{}} \cup {{p} : p \in Pages}, expires : Int]

\* What encodeURIComponent makes of a ";" is no character.
ASSUME CookiesAssumption ==
  /\ Values \subseteq Seq(Characters) /\ "%3B" \notin Characters /\ NoValue \notin Values
  /\ Pages \subseteq Seq(Folders)
  /\ Objects \in [DOMAIN Objects -> Options]

VARIABLES
  cookies,      \* what the browser keeps for each directory, the oldest first
  options,      \* the option objects as they are by now
  meant,        \* history: per directory and name, the value last written, or
                \* NoValue
  spoiled       \* history: a value was written with an object that had been
                \* used for a deletion

cookieVars == <<cookies, options, meant, spoiled>>

Undefined == [path |-> {}, expires |-> 0]

cookieInit ==
  /\ cookies = [p \in Pages |-> <<>>] /\ options = Objects
  /\ meant = [p \in Pages |-> [n \in Names |-> NoValue]]
  /\ spoiled = FALSE

\* The browser.

\* An expired cookie removes the one with its name and path; a new value takes
\* the place of the old one; and a ";" ends the value.
SetCookie(name, path, value, expired) ==
  LET sent == SubSeq(value, 1, SelectInSeq(value \o <<";">>, LAMBDA x : x = ";") - 1)
      cookie == [name |-> name, value |-> sent]
      jar == cookies[path]
      same == SelectInSeq(jar, LAMBDA c : c.name = name)
      set == CASE expired /\ same = 0 -> jar
               [] expired /\ same # 0 -> RemoveAt(jar, same)
               [] ~expired /\ same = 0 -> Append(jar, cookie)
               [] ~expired /\ same # 0 -> ReplaceAt(jar, same, cookie)
  IN  cookies' = [cookies EXCEPT ![path] = set]

\* document.cookie of a page: those of its directory, then of the one above, and
\* so on; of one directory the older ones first.
DocumentCookie(page) ==
  LET Above(k) == SubSeq(page, 1, Len(page) - k)
  IN  FlattenSeq([k \in 1..(Len(page) + 1) |->
                    IF Above(k - 1) \in Pages THEN cookies[Above(k - 1)] ELSE <<>>])

\* A cookie expires, or the browser drops it.
Forget ==
  /\ \E page \in Pages : \E i \in DOMAIN cookies[page] :
       /\ cookies' = [cookies EXCEPT ![page] = RemoveAt(@, i)]
       /\ meant' = [meant EXCEPT ![page][cookies[page][i].name] = NoValue]
  /\ UNCHANGED <<options, spoiled>>

\* cookieOperator.

encodeURIComponent(value) == [i \in DOMAIN value |-> IF value[i] = ";" THEN "%3B" ELSE value[i]]
decodeURIComponent(value) == [i \in DOMAIN value |-> IF value[i] = "%3B" THEN ";" ELSE value[i]]

PathOf(option, page) == IF option.path = {} THEN page ELSE CHOOSE p \in option.path : TRUE

\* With a value: options.expires tells when; an object given is the caller's.
write(page, name, value, object) ==
  LET option == IF object = "none" THEN Undefined ELSE options[object]
  IN  /\ SetCookie(name, PathOf(option, page), encodeURIComponent(value), option.expires < 0)
      /\ meant' = [meant EXCEPT ![PathOf(option, page)][name] = value]
      /\ spoiled' = (spoiled \/ option.expires < 0)
      /\ UNCHANGED options

\* With null: options.expires is set, in the object of the caller.
remove(page, name, object) ==
  LET option == IF object = "none" THEN Undefined ELSE options[object]
  IN  /\ options' = IF object = "none" THEN options ELSE [options EXCEPT ![object].expires = -1]
      /\ SetCookie(name, PathOf(option, page), <<>>, TRUE)
      /\ meant' = [meant EXCEPT ![PathOf(option, page)][name] = NoValue]
      /\ UNCHANGED spoiled

\* Variant: the loop goes on after a match.
LastMatch(shown, name) == SelectLastInSeq(shown, LAMBDA c : c.name = name)

Match(shown, name) == SelectInSeq(shown, LAMBDA c : c.name = name)

\* Without a value: the first cookie with the name.
read(page, name) ==
  LET shown == DocumentCookie(page)
      i == Match(shown, name)
  IN  IF i = 0 THEN NoValue ELSE decodeURIComponent(shown[i].value)

cookieNext ==
  \/ \E page \in Pages, name \in Names, object \in DOMAIN options \cup {"none"} :
       remove(page, name, object) \/ \E value \in Values : write(page, name, value, object)
  \/ Forget

-----------------------------------------------------------------------------
(* Properties.                                                              *)

\* A page reads what was last written for its own directory, or else for the
\* one above it, a deleted or forgotten value giving way to the one above; as
\* long as no value was written with an object used for a deletion, which the
\* deletion has made one that expires at once.
ReadsWhatWasMeant ==
  ~spoiled =>
    \A page \in Pages, name \in Names :
      LET found == {p \in Pages : IsPrefix(p, page) /\ meant[p][name] # NoValue}
          nearest == CHOOSE p \in found : \A q \in found : Len(q) <= Len(p)
      IN  read(page, name) = IF found = {} THEN NoValue ELSE meant[nearest][name]
=============================================================================
