---------------------------- MODULE MCDashboard -----------------------------
(* Users of every role around the requisition r1: its applicant and        *)
(* another, the manager of its department and another, the buyer of each   *)
(* order, a warehouse keeper and the administrator.                        *)
EXTENDS MCProcurement, Dashboard

Staff == {"admin", "zhangsan", "zhouba", "lisi", "sunqi", "wangwu", "wushi", "zhaoliu"}

StaffRoles == [v \in Staff |->
    CASE v = "admin"                -> "ADMIN"
      [] v \in {"zhangsan", "zhouba"} -> "APPLICANT"
      [] v \in {"lisi", "sunqi"}    -> "DEPT_MANAGER"
      [] v \in {"wangwu", "wushi"}  -> "BUYER"
      [] v = "zhaoliu"              -> "WAREHOUSE"]

Managers == [v \in Staff |-> CASE v = "lisi" -> {"RD"} [] v = "sunqi" -> {"QA"} [] OTHER -> {}]

RaisedBy  == [r \in Requisitions |-> "zhangsan"]
RaisedFor == [r \in Requisitions |-> "RD"]

Buyers == o1 :> "wangwu" @@ o2 :> "wushi"

SafetyLevels == <<w1, m1>> :> 2
=============================================================================
