------------------------------- MODULE MCSessions ------------------------------
(* Sessions for TLC: two tabs, two logins, two ticks to the second. *)
EXTENDS Sessions

CONSTANTS t1, t2

TwoTabs == {t1, t2}

CalmAndHasty ==
  {{"dayPasses"}, {"dayPasses", "doubleSubmit", "restore"}, {"replyLost", "doubleSubmit"},
   {"secondTab"}}
================================================================================
