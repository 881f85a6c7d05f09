------------------------------ MODULE MD5Coder ------------------------------
(***************************************************************************)
(* MD5Coder: encodeBytes and encodeString digest with one MessageDigest     *)
(* that all threads share; getMD5Code_16 and getMD5Code_64 make their own.  *)
(* A digest stands for the sequence of texts it was computed from.  Inputs  *)
(* that are null touch nothing and are left out.                            *)
(***************************************************************************)
EXTENDS Sequences

CONSTANTS Callers, Texts

VARIABLES
  MD,        \* what the shared digest was fed since its last reset
  coding,    \* per thread: the calls on MD still to come, and the text
  digest,    \* per thread: what its last call returned
  raced      \* history: two threads have been on MD at once

md5Vars == <<MD, coding, digest, raced>>

Reset == [fed |-> <<>>, torn |-> FALSE]
Torn == [fed |-> <<>>, torn |-> TRUE]     \* what no order of the calls explains

NoCall == [steps |-> <<>>]
NoDigest == [of |-> "nobody"]

md5Init ==
  /\ MD = Reset /\ raced = FALSE
  /\ coding = [c \in Callers |-> NoCall]
  /\ digest = [c \in Callers |-> NoDigest]

Fed(md, text) == IF md.torn THEN Torn ELSE [md EXCEPT !.fed = Append(@, text)]

\* MessageDigest has no lock: after a race anything may be in it.
Outcomes(md) == IF raced \/ MD.torn THEN {md, Torn} ELSE {md}

\* encodeBytes and encodeString: MD.digest(bytes) updates, then digests.
encode(c, text) ==
  /\ coding[c] = NoCall
  /\ coding' = [coding EXCEPT ![c] = [steps |-> <<"update", "digest">>, text |-> text]]
  /\ raced' = (raced \/ \E d \in Callers : coding[d] # NoCall)
  /\ UNCHANGED <<MD, digest>>

Update(c) ==
  /\ coding[c].steps = <<"update", "digest">>
  /\ MD' \in Outcomes(Fed(MD, coding[c].text))
  /\ coding' = [coding EXCEPT ![c].steps = Tail(@)]
  /\ UNCHANGED <<digest, raced>>

Digest(c) ==
  /\ coding[c].steps = <<"digest">>
  /\ \E value \in Outcomes(MD) :
       digest' = [digest EXCEPT ![c] = [of |-> "MD", text |-> coding[c].text, value |-> value]]
  /\ MD' \in Outcomes(Reset)
  /\ coding' = [coding EXCEPT ![c] = NoCall]
  /\ UNCHANGED raced

\* The exception of a digest torn by a race is caught, and null returned.
DigestFails(c) ==
  /\ coding[c] # NoCall /\ raced
  /\ digest' = [digest EXCEPT ![c] = [of |-> "MD", text |-> coding[c].text, value |-> Torn]]
  /\ MD' = Torn
  /\ coding' = [coding EXCEPT ![c] = NoCall]
  /\ UNCHANGED raced

\* Variant: the commented-out line of encodeBytes the other way round, with
\* the instance that is there already.
SharedInstance(text) == Fed(MD, text)

OwnInstance(text) == Fed(Reset, text)

\* getMD5Code_16 and getMD5Code_64.
getMD5ByteArray(c, text) ==
  /\ coding[c] = NoCall
  /\ digest' = [digest EXCEPT ![c] = [of |-> "own", text |-> text, value |-> OwnInstance(text)]]
  /\ UNCHANGED <<MD, coding, raced>>

md5Next ==
  \E c \in Callers :
    \/ \E text \in Texts : encode(c, text) \/ getMD5ByteArray(c, text)
    \/ Update(c) \/ Digest(c) \/ DigestFails(c)

-----------------------------------------------------------------------------
(* Properties. *)

\* A digest is that of the caller's own text: always with an instance of its
\* own, and with the shared one as long as no two threads have met on it (even
\* if calls of several threads have come one after the other).
DigestIsOwn ==
  \A c \in Callers :
    digest[c] # NoDigest /\ (digest[c].of = "own" \/ ~raced)
      => digest[c].value = [fed |-> <<digest[c].text>>, torn |-> FALSE]
=============================================================================
