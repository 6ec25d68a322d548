----------------------------- MODULE ServiceCtrl -----------------------------
(***************************************************************************)
(* The registry of services of the framework, under each of its three      *)
(* policies (ServiceCtrlPolicies.hpp):                                     *)
(*   "TypeID" MapServKeyByTypeID, a map by type, which keeps the first;    *)
(*   "Index"  VecServByIndex, a vector, with the index of a service in a   *)
(*            static of its interface (the policy of the Linux build);     *)
(*   "GUID"   UnMapServKeyByGUID, a map by GUID, which keeps the last (the *)
(*            policy of the Windows build).                                *)
(* A service is identified by the component that provides it.              *)
(***************************************************************************)
EXTENDS Integers, Sequences

CONSTANTS Policies,      \* the policies to look at
          Interfaces,    \* the classes services are registered and asked for by
          NoService      \* nullptr

ASSUME ServiceCtrlAssumption == Policies \subseteq {"TypeID", "Index", "GUID"}

VARIABLES policy,
          m_mapServices, \* m_mapServices or m_unMapServices: interface -> service
          m_vecServices, \* m_vecServices
          index          \* GetClassIndexStatic of each interface

servVars == <<policy, m_mapServices, m_vecServices, index>>

ServInit ==
  /\ policy \in Policies
  /\ m_mapServices = <<>>
  /\ m_vecServices = <<>>
  /\ index = [t \in Interfaces |-> -1]

InsertIfNew(t, s) ==
  m_mapServices' = [u \in DOMAIN m_mapServices \union {t} |->
                      IF u \in DOMAIN m_mapServices THEN m_mapServices[u] ELSE s]

Assign(t, s) ==
  m_mapServices' = [u \in DOMAIN m_mapServices \union {t} |->
                      IF u = t THEN s ELSE m_mapServices[u]]

\* A slip: the size after a registration is taken for its index.
IndexOfNext(services) == Len(services)

LastIndex(services) == Len(services) - 1

EmplaceBack(t, s) ==
  /\ m_vecServices' = Append(m_vecServices, s)
  /\ index' = [index EXCEPT ![t] = LastIndex(m_vecServices')]

registService(t, s) ==
  /\ UNCHANGED policy
  /\ \/ policy = "TypeID" /\ InsertIfNew(t, s) /\ UNCHANGED <<m_vecServices, index>>
     \/ policy = "GUID" /\ Assign(t, s) /\ UNCHANGED <<m_vecServices, index>>
     \/ policy = "Index" /\ EmplaceBack(t, s) /\ UNCHANGED m_mapServices

getService(t) ==
  IF policy = "Index"
  THEN IF index[t] >= 0 /\ index[t] < Len(m_vecServices)
       THEN m_vecServices[index[t] + 1] ELSE NoService
  ELSE IF t \in DOMAIN m_mapServices THEN m_mapServices[t] ELSE NoService

\* clear() of each policy; the statics of VecServByIndex keep their values.
clearServices ==
  /\ m_mapServices' = <<>>
  /\ m_vecServices' = <<>>
  /\ UNCHANGED <<policy, index>>

=============================================================================
