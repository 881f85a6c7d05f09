------------------------------ MODULE Toolbox ------------------------------
(***************************************************************************)
(* A program that uses one of the small tools of the library, which share   *)
(* no state.                                                                *)
(***************************************************************************)
EXTENDS MD5Coder, Condition, TreeNodeHelper, CookieOperator, MailUtil, Paging

VARIABLE tool

toolboxVars == <<tool, md5Vars, conditionVars, treeVars, cookieVars, mailVars, pagingVars>>

Tools == {"MD5Coder", "Condition", "TreeNodeHelper", "cookieOperator", "MailUtil", "PageSpliter"}

ToolboxInit ==
  /\ tool \in Tools
  /\ md5Init /\ conditionInit /\ treeInit /\ cookieInit /\ mailInit
  /\ pagingInit /\ (tool # "PageSpliter" => records = 0)

ToolboxNext ==
  \/ /\ tool = "MD5Coder" /\ md5Next
     /\ UNCHANGED <<tool, conditionVars, treeVars, cookieVars, mailVars, pagingVars>>
  \/ /\ tool = "Condition" /\ conditionNext
     /\ UNCHANGED <<tool, md5Vars, treeVars, cookieVars, mailVars, pagingVars>>
  \/ /\ tool = "TreeNodeHelper" /\ treeNext
     /\ UNCHANGED <<tool, md5Vars, conditionVars, cookieVars, mailVars, pagingVars>>
  \/ /\ tool = "cookieOperator" /\ cookieNext
     /\ UNCHANGED <<tool, md5Vars, conditionVars, treeVars, mailVars, pagingVars>>
  \/ /\ tool = "MailUtil" /\ mailNext
     /\ UNCHANGED <<tool, md5Vars, conditionVars, treeVars, cookieVars, pagingVars>>
  \/ /\ tool = "PageSpliter" /\ pagingNext
     /\ UNCHANGED <<tool, md5Vars, conditionVars, treeVars, cookieVars, mailVars>>

ToolboxSpec == ToolboxInit /\ [][ToolboxNext]_toolboxVars
=============================================================================
