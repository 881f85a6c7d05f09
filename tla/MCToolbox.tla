----------------------------- MODULE MCToolbox -----------------------------
(* Toolbox: two threads; three conditions; four nodes, which may be under   *)
(* each other; two names, two directories and two option objects; mails of  *)
(* up to two levels; a table and its page sizes are in the configuration.   *)
EXTENDS Toolbox

CONSTANTS t1, t2, c1, c2, c3, n1, n2

MCCallers == {t1, t2}
MCTexts == {"a", "b"}
MCConditions == {c1, c2, c3}
MCOffers ==
  [key : {"k"}, value : {"usable", "empty"}]
    \cup {[key |-> "l", value |-> "usable"], [key |-> "k", value |-> "null"],
           [key |-> "null", value |-> "usable"]}
MCNodes == 1..4
MCParents == {f \in [MCNodes -> MCNodes \cup {NoParent}] : f[1] \in {NoParent, 3}}
MCMaxTrees == 2
MCOrders == {<<3, 1, 4, 2>>, <<4, 3, 2>>}
MCNames == {n1, n2}
MCCharacters == {"x", ";"}
MCValues == {<<"x">>, <<"x", ";">>}
MCFolders == {"a"}
MCPages == {<<>>, <<"a">>}
MCObjects ==
  [o |-> [path |-> {}, expires |-> 0], root |-> [path |-> {<<>>}, expires |-> 7]]

Leaf(type, disposed, name) == [type |-> type, disposed |-> disposed, name |-> name, parts |-> <<>>]
Leafs ==
  {Leaf("text", d, n) : d \in BOOLEAN, n \in {"", "name", "NAME"}}
    \cup {Leaf("image", d, n) : d \in BOOLEAN, n \in {"", "name"}}
    \cup {Leaf("application", FALSE, "")}
Node(type, disposed, parts) == [type |-> type, disposed |-> disposed, name |-> "", parts |-> parts]
Multi(parts) == {Node("multipart", d, <<p, q>>) : d \in BOOLEAN, p \in parts, q \in parts}
Nested ==
  {Node("message", d, <<p>>) :
     d \in BOOLEAN,
     p \in {Leaf("text", FALSE, ""),
            Node("multipart", FALSE, <<Leaf("text", FALSE, ""), Leaf("image", TRUE, "name")>>)}}
    \cup Multi({Leaf("text", FALSE, ""), Leaf("text", TRUE, ""), Leaf("image", FALSE, "")})
MCMails ==
  Leafs \cup Nested
    \cup {Node("multipart", FALSE, parts) : parts \in SeqOf(Leafs \cup Nested, 2)}
    \cup {Node("message", FALSE, <<p>>) : p \in Multi(Leafs)}
=============================================================================
