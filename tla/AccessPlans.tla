---------------------------- MODULE AccessPlans -----------------------------
(***************************************************************************)
(* The plans of the requests of Access, one by one: each asks for what its *)
(* effect needs before it has it.  AccessProofs builds on PlansOK.         *)
(***************************************************************************)
EXTENDS Access, TLAPS

(* The steps of a request's service, and what its answer tells.            *)
Plan(k) == Handler(k).does
Tells(k) == Handler(k).tells

Effects == {"add", "insertGrant", "deleteGrant", "insertLink", "disableLink", "delete",
            "dropObject", "mint", "openSocket"}

(* The kinds of request a step with an effect may belong to.               *)
Doers(step) ==
  CASE step = "add" -> Writers \cup {"saveShared", "wopiSave"}
    [] step = "insertGrant" -> {"grant"}
    [] step = "deleteGrant" -> {"revoke"}
    [] step = "insertLink" -> {"createLink"}
    [] step = "disableLink" -> {"disableLink"}
    [] step = "delete" -> {"delete", "adminDelete"}
    [] step = "dropObject" -> {"storageDelete"}
    [] step = "mint" -> {"session"}
    [] OTHER -> {"markdownSocket", "casualSocket"}

(* The rights somebody who passes a step had a moment ago.                 *)
Right(step) ==
  CASE step \in {"view", "listed"} -> {"live", "viewer"}
    [] step = "edit" -> {"live", "editor"}
    [] step = "own" -> {"live", "owner"}
    [] step \in {"live", "add", "delete"} -> {"live"}
    [] step \in {"link", "linkEditor", "token"} -> {step}
    [] OTHER -> {}

(* The first p steps of k, or an administrator's cookie, prove what k      *)
(* needs.  No kind proves anything new after its fourth step.              *)
Covered(k, p) ==
  \A r \in Needed(k) :
    \/ r = "admin" /\ Handler(k).who = "admin"
    \/ 1 <= p /\ r \in Right(Plan(k)[1])
    \/ 2 <= p /\ r \in Right(Plan(k)[2])
    \/ 3 <= p /\ r \in Right(Plan(k)[3])
    \/ 4 <= p /\ r \in Right(Plan(k)[4])

(* Whoever gets to an effect, or past the last of n steps, has been asked  *)
(* for everything the request needs.                                       *)
ChecksFirst(k, n) == \A p \in 1..n : Plan(k)[p] \in Effects \/ p = n => Covered(k, p)

(* At most one step has an effect, and it is the kind's own.               *)
OneEffect(k, n) ==
  /\ \A p \in 1..n : Plan(k)[p] \in Effects => k \in Doers(Plan(k)[p])
  /\ \A p, q \in 1..n : Plan(k)[p] \in Effects /\ Plan(k)[q] \in Effects => p = q
  /\ \A p \in 1..n : Plan(k)[p] = "openSocket" => p = n

(* A request that is to change something does, and leaves an audit row.    *)
ChangesOnce(k, n) ==
  k \in Changing => Handler(k).row # "none" /\ \E p \in 1..n : Plan(k)[p] \in Effects

(* Roles are asked for where an account is known, links where one is.      *)
AsksAccounts(k, n) ==
  /\ k \in LinkHolders => Tells(k) = <<>> /\ \A p \in 1..n : Plan(k)[p] \notin Checks \cup Tellings
  /\ k \notin LinkHolders => \A p \in 1..n : Plan(k)[p] # "linkEditor"

(* The body is read before it is stored.                                   *)
BodyFirst(k, n) ==
  k \in {"officeSave", "wopiSave"} =>
    \E b \in 1..n : /\ Plan(k)[b] = "body"
                    /\ \A p \in 1..n : Plan(k)[p] \in Effects => b < p

TellsRoles(k) ==
  /\ Len(Tells(k)) \in Nat /\ (Tells(k) # <<>> => Len(Tells(k)) # 0)
  /\ \A p \in 1..Len(Tells(k)) : Tells(k)[p] \in Tellings

PlanOK(k) ==
  /\ Len(Plan(k)) \in Nat \ {0} /\ TellsRoles(k)
  /\ ChecksFirst(k, Len(Plan(k))) /\ OneEffect(k, Len(Plan(k)))
  /\ ChangesOnce(k, Len(Plan(k))) /\ AsksAccounts(k, Len(Plan(k))) /\ BodyFirst(k, Len(Plan(k)))

(* The routes, one by one.                                                 *)
LEMMA Routes ==
  /\ Handler("list") = List /\ Handler("get") = Get /\ Handler("download") = Download
  /\ Handler("downloadVersion") = GetVersion /\ Handler("getMarkdown") = ViewMarkdown
  /\ Handler("updateMarkdown") = UpdateMarkdown /\ Handler("delete") = Delete
  /\ Handler("versions") = ListVersions /\ Handler("restoreVersion") = Restore
  /\ Handler("adminList") = AdminList /\ Handler("adminDelete") = AdminDelete
  /\ Handler("listPermissions") = ListPermissions /\ Handler("grant") = GrantPermission
  /\ Handler("revoke") = DeletePermission /\ Handler("createLink") = CreateLink
  /\ Handler("listLinks") = ListLinks /\ Handler("disableLink") = Disable
  /\ Handler("access") = AccessLink /\ Handler("downloadShared") = DownloadShared
  /\ Handler("saveShared") = SaveShared /\ Handler("session") = OfficeSession
  /\ Handler("collabSession") = OfficeCollab /\ Handler("officeSave") = SaveOffice
  /\ Handler("wopiInfo") = GetInfo /\ Handler("wopiContent") = GetContent
  /\ Handler("wopiSave") = SaveContent /\ Handler("roomInfo") = RoomInfo
  /\ Handler("sheetsSeed") = SheetsSeed /\ Handler("docsSeed") = DocsSeed
  /\ Handler("casualSocket") = CasualSocket /\ Handler("snapshot") = MarkdownSnapshot
  /\ Handler("markdownSocket") = MarkdownSocket /\ Handler("storageList") = ViewStorage
  /\ Handler("storageDelete") = DeleteObject /\ Handler("storageDownload") = DownloadObject
  /\ Handler("auditLogs") = AuditLogs
BY DEF Handler, Handlers

(* The rights, one by one.                                                 *)
LEMMA Needs ==
  /\ Needed("list") = {"live", "viewer"} /\ Needed("get") = {"live", "viewer"}
  /\ Needed("download") = {"live", "viewer"}
  /\ Needed("downloadVersion") = {"live", "viewer"}
  /\ Needed("getMarkdown") = {"live", "viewer"}
  /\ Needed("updateMarkdown") = {"live", "editor"} /\ Needed("delete") = {"live", "owner"}
  /\ Needed("versions") = {"live", "viewer"}
  /\ Needed("restoreVersion") = {"live", "editor"} /\ Needed("adminList") = {"admin"}
  /\ Needed("adminDelete") = {"admin", "live"}
  /\ Needed("listPermissions") = {"live", "owner"} /\ Needed("grant") = {"live", "owner"}
  /\ Needed("revoke") = {"live", "owner"} /\ Needed("createLink") = {"live", "owner"}
  /\ Needed("listLinks") = {"live", "owner"} /\ Needed("disableLink") = {"live", "owner"}
  /\ Needed("access") = {"link", "live"} /\ Needed("downloadShared") = {"link", "live"}
  /\ Needed("saveShared") = {"link", "live", "linkEditor"}
  /\ Needed("session") = {"live", "viewer"} /\ Needed("collabSession") = {"live", "viewer"}
  /\ Needed("officeSave") = {"live", "editor"}
  /\ Needed("wopiInfo") = {"token", "live", "viewer"}
  /\ Needed("wopiContent") = {"token", "live", "viewer"}
  /\ Needed("wopiSave") = {"token", "live", "editor"}
  /\ Needed("roomInfo") = {"live", "viewer"} /\ Needed("sheetsSeed") = {"live", "viewer"}
  /\ Needed("docsSeed") = {"live", "viewer"}
  /\ Needed("casualSocket") = {"token", "live", "viewer"}
  /\ Needed("snapshot") = {"live", "viewer"}
  /\ Needed("markdownSocket") = {"live", "viewer"} /\ Needed("storageList") = {"admin"}
  /\ Needed("storageDelete") = {"admin"} /\ Needed("storageDownload") = {"admin"}
  /\ Needed("auditLogs") = {"admin"}
BY DEF Needed, Readers, Writers, Managers, LinkHolders, TokenHolders

(* A plan of n steps is right if each of these is.                         *)
LEMMA PlanRule ==
  ASSUME NEW k, NEW n \in Nat \ {0}, Len(Plan(k)) = n, TellsRoles(k), ChecksFirst(k, n),
         OneEffect(k, n), ChangesOnce(k, n), AsksAccounts(k, n), BodyFirst(k, n)
  PROVE  PlanOK(k)
<1>1. /\ ChecksFirst(k, Len(Plan(k))) /\ OneEffect(k, Len(Plan(k)))
      /\ ChangesOnce(k, Len(Plan(k))) /\ AsksAccounts(k, Len(Plan(k)))
      /\ BodyFirst(k, Len(Plan(k))) /\ Len(Plan(k)) \in Nat \ {0}
  OBVIOUS
<1> QED BY <1>1, Zenon DEF PlanOK

(* A plan without an effect.                                               *)
LEMMA ReadRule ==
  ASSUME NEW k, NEW n \in Nat \ {0}, Len(Plan(k)) = n, k \notin Changing,
         TellsRoles(k), AsksAccounts(k, n), ChecksFirst(k, n),
         \A p \in 1..n : Plan(k)[p] \notin Effects
  PROVE  PlanOK(k)
<1>1. OneEffect(k, n)
  BY DEF OneEffect, Effects
<1>2. ChangesOnce(k, n) /\ BodyFirst(k, n)
  BY DEF ChangesOnce, BodyFirst, Changing, Writers
<1> QED BY <1>1, <1>2, PlanRule, Zenon

(* A plan whose step e is its only effect.                                 *)
LEMMA ActRule ==
  ASSUME NEW k, NEW n \in Nat \ {0}, Len(Plan(k)) = n, k \in Changing => Handler(k).row # "none",
         TellsRoles(k), AsksAccounts(k, n), ChecksFirst(k, n),
         NEW e \in 1..n, Plan(k)[e] \in Effects, k \in Doers(Plan(k)[e]),
         Plan(k)[e] = "openSocket" => e = n, \A p \in 1..n : p # e => Plan(k)[p] \notin Effects,
         k \in {"officeSave", "wopiSave"} => \E b \in 1..n : Plan(k)[b] = "body" /\ b < e
  PROVE  PlanOK(k)
<1>1. \A p \in 1..n : Plan(k)[p] \in Effects => p = e
  OBVIOUS
<1>2. OneEffect(k, n)
  <2>1. "openSocket" \in Effects
    BY DEF Effects
  <2> QED BY <1>1, <2>1 DEF OneEffect
<1>3. ChangesOnce(k, n)
  BY Zenon DEF ChangesOnce
<1>4. BodyFirst(k, n)
  BY <1>1 DEF BodyFirst
<1> QED BY <1>2, <1>3, <1>4, PlanRule, Zenon

(* Only the routes of the console ask for an administrator.                *)
LEMMA Guests ==
  \A k \in Named \cup LinkHolders \cup TokenHolders : Handler(k).who # "admin"
BY Routes DEF Named, LinkHolders, TokenHolders, Made, Cookie, GrantPermission, DeletePermission,
   CreateLink, Disable, SaveOffice, SaveContent, AccessLink, DownloadShared, SaveShared,
   GetInfo, GetContent, CasualSocket

(* Every plan checks what its effect needs, and before the effect.         *)
LEMMA PlansOK == \A k \in AllKinds : PlanOK(k)
<1>1. PlanOK("list")
  <2>1. Handler("list") = List /\ Needed("list") = {"live", "viewer"}
    BY Routes, Needs
  <2>2. /\ Plan("list") = <<"listed">>
        /\ Tells("list") = <<"tellOwner", "tellEditor">>
    BY <2>1 DEF Plan, Tells, Made, Cookie, List, DocumentList
  <2>3. /\ "list" \notin Changing /\ "list" \notin LinkHolders
    BY DEF Changing, LinkHolders, Writers, Managers
  <2>4. ChecksFirst("list", 1)
    BY <2>1, <2>2, SMTT(30) DEF ChecksFirst, Covered, Right, Effects
  <2>5. AsksAccounts("list", 1) /\ TellsRoles("list")
    BY <2>2, <2>3, SMTT(30) DEF AsksAccounts, TellsRoles, Checks, Tellings
  <2>6. /\ Len(Plan("list")) = 1 /\ 1 \in Nat \ {0}
        /\ \A p \in 1..1 : Plan("list")[p] \notin Effects
    BY <2>2, SMTT(30) DEF Effects
  <2> QED BY <2>3, <2>4, <2>5, <2>6, ReadRule, Zenon
<1>2. PlanOK("get")
  <2>1. Handler("get") = Get /\ Needed("get") = {"live", "viewer"}
    BY Routes, Needs
  <2>2. /\ Plan("get") = <<"view", "live">>
        /\ Tells("get") = <<"tellOwner", "tellEditor">>
    BY <2>1 DEF Plan, Tells, Made, Cookie, Get, DocumentGet
  <2>3. /\ "get" \notin Changing /\ "get" \notin LinkHolders
    BY DEF Changing, LinkHolders, Writers, Managers
  <2>4. ChecksFirst("get", 2)
    BY <2>1, <2>2, SMTT(30) DEF ChecksFirst, Covered, Right, Effects
  <2>5. AsksAccounts("get", 2) /\ TellsRoles("get")
    BY <2>2, <2>3, SMTT(30) DEF AsksAccounts, TellsRoles, Checks, Tellings
  <2>6. /\ Len(Plan("get")) = 2 /\ 2 \in Nat \ {0}
        /\ \A p \in 1..2 : Plan("get")[p] \notin Effects
    BY <2>2, SMTT(30) DEF Effects
  <2> QED BY <2>3, <2>4, <2>5, <2>6, ReadRule, Zenon
<1>3. PlanOK("download")
  <2>1. Handler("download") = Download /\ Needed("download") = {"live", "viewer"}
    BY Routes, Needs
  <2>2. /\ Plan("download") = <<"view", "live", "object">>
        /\ Tells("download") = <<>>
    BY <2>1 DEF Plan, Tells, Made, Cookie, Download, DocumentDownload
  <2>3. /\ "download" \notin Changing /\ "download" \notin LinkHolders
    BY DEF Changing, LinkHolders, Writers, Managers
  <2>4. ChecksFirst("download", 3)
    BY <2>1, <2>2, SMTT(30) DEF ChecksFirst, Covered, Right, Effects
  <2>5. AsksAccounts("download", 3) /\ TellsRoles("download")
    BY <2>2, <2>3, SMTT(30) DEF AsksAccounts, TellsRoles, Checks, Tellings
  <2>6. /\ Len(Plan("download")) = 3 /\ 3 \in Nat \ {0}
        /\ \A p \in 1..3 : Plan("download")[p] \notin Effects
    BY <2>2, SMTT(30) DEF Effects
  <2> QED BY <2>3, <2>4, <2>5, <2>6, ReadRule, Zenon
<1>4. PlanOK("downloadVersion")
  <2>1. Handler("downloadVersion") = GetVersion /\ Needed("downloadVersion") = {"live", "viewer"}
    BY Routes, Needs
  <2>2. /\ Plan("downloadVersion") = <<"view", "live", "live", "object">>
        /\ Tells("downloadVersion") = <<>>
    BY <2>1 DEF Plan, Tells, Made, Cookie, GetVersion, DownloadVersion
  <2>3. /\ "downloadVersion" \notin Changing /\ "downloadVersion" \notin LinkHolders
    BY DEF Changing, LinkHolders, Writers, Managers
  <2>4. ChecksFirst("downloadVersion", 4)
    BY <2>1, <2>2, SMTT(30) DEF ChecksFirst, Covered, Right, Effects
  <2>5. AsksAccounts("downloadVersion", 4) /\ TellsRoles("downloadVersion")
    BY <2>2, <2>3, SMTT(30) DEF AsksAccounts, TellsRoles, Checks, Tellings
  <2>6. /\ Len(Plan("downloadVersion")) = 4 /\ 4 \in Nat \ {0}
        /\ \A p \in 1..4 : Plan("downloadVersion")[p] \notin Effects
    BY <2>2, SMTT(30) DEF Effects
  <2> QED BY <2>3, <2>4, <2>5, <2>6, ReadRule, Zenon
<1>5. PlanOK("getMarkdown")
  <2>1. Handler("getMarkdown") = ViewMarkdown /\ Needed("getMarkdown") = {"live", "viewer"}
    BY Routes, Needs
  <2>2. /\ Plan("getMarkdown") = <<"view", "live", "object", "tellEditor">>
        /\ Tells("getMarkdown") = <<"tellOwner">>
    BY <2>1 DEF Plan, Tells, Made, Cookie, ViewMarkdown, GetMarkdown
  <2>3. /\ "getMarkdown" \notin Changing /\ "getMarkdown" \notin LinkHolders
    BY DEF Changing, LinkHolders, Writers, Managers
  <2>4. ChecksFirst("getMarkdown", 4)
    BY <2>1, <2>2, SMTT(30) DEF ChecksFirst, Covered, Right, Effects
  <2>5. AsksAccounts("getMarkdown", 4) /\ TellsRoles("getMarkdown")
    BY <2>2, <2>3, SMTT(30) DEF AsksAccounts, TellsRoles, Checks, Tellings
  <2>6. /\ Len(Plan("getMarkdown")) = 4 /\ 4 \in Nat \ {0}
        /\ \A p \in 1..4 : Plan("getMarkdown")[p] \notin Effects
    BY <2>2, SMTT(30) DEF Effects
  <2> QED BY <2>3, <2>4, <2>5, <2>6, ReadRule, Zenon
<1>6. PlanOK("updateMarkdown")
  <2>1. Handler("updateMarkdown") = UpdateMarkdown /\ Needed("updateMarkdown") = {"live", "editor"}
    BY Routes, Needs
  <2>2. /\ Plan("updateMarkdown") = <<"edit", "live", "put", "add", "live">>
        /\ Tells("updateMarkdown") = <<"tellOwner">> /\ Handler("updateMarkdown").row = "id"
    BY <2>1 DEF Plan, Tells, Made, Cookie, UpdateMarkdown, SaveMarkdown
  <2>3. /\ "updateMarkdown" \in Changing /\ "updateMarkdown" \notin LinkHolders
        /\ "updateMarkdown" \in Doers("add")
    BY DEF Doers, Changing, LinkHolders, Writers, Managers
  <2>4. ChecksFirst("updateMarkdown", 5)
    BY <2>1, <2>2, SMTT(30) DEF ChecksFirst, Covered, Right, Effects
  <2>5. AsksAccounts("updateMarkdown", 5) /\ TellsRoles("updateMarkdown")
    BY <2>2, <2>3, SMTT(30) DEF AsksAccounts, TellsRoles, Checks, Tellings
  <2>6. /\ Len(Plan("updateMarkdown")) = 5 /\ 5 \in Nat \ {0} /\ 4 \in 1..5
        /\ Plan("updateMarkdown")[4] = "add" /\ Plan("updateMarkdown")[4] \in Effects
        /\ \A p \in 1..5 : p # 4 => Plan("updateMarkdown")[p] \notin Effects
    BY <2>2, SMTT(30) DEF Effects
  <2>7. Handler("updateMarkdown").row # "none"
    BY <2>2
  <2> QED BY <2>3, <2>4, <2>5, <2>6, <2>7, ActRule
<1>7. PlanOK("delete")
  <2>1. Handler("delete") = Delete /\ Needed("delete") = {"live", "owner"}
    BY Routes, Needs
  <2>2. /\ Plan("delete") = <<"own", "live", "delete">>
        /\ Tells("delete") = <<>> /\ Handler("delete").row = "id"
    BY <2>1 DEF Plan, Tells, Made, Cookie, Delete, DocumentDelete
  <2>3. /\ "delete" \in Changing /\ "delete" \notin LinkHolders
        /\ "delete" \in Doers("delete")
    BY DEF Doers, Changing, LinkHolders, Writers, Managers
  <2>4. ChecksFirst("delete", 3)
    BY <2>1, <2>2, SMTT(30) DEF ChecksFirst, Covered, Right, Effects
  <2>5. AsksAccounts("delete", 3) /\ TellsRoles("delete")
    BY <2>2, <2>3, SMTT(30) DEF AsksAccounts, TellsRoles, Checks, Tellings
  <2>6. /\ Len(Plan("delete")) = 3 /\ 3 \in Nat \ {0} /\ 3 \in 1..3
        /\ Plan("delete")[3] = "delete" /\ Plan("delete")[3] \in Effects
        /\ \A p \in 1..3 : p # 3 => Plan("delete")[p] \notin Effects
    BY <2>2, SMTT(30) DEF Effects
  <2>7. Handler("delete").row # "none"
    BY <2>2
  <2> QED BY <2>3, <2>4, <2>5, <2>6, <2>7, ActRule
<1>8. PlanOK("versions")
  <2>1. Handler("versions") = ListVersions /\ Needed("versions") = {"live", "viewer"}
    BY Routes, Needs
  <2>2. /\ Plan("versions") = <<"view", "rows">>
        /\ Tells("versions") = <<>>
    BY <2>1 DEF Plan, Tells, Made, Cookie, ListVersions, Versions
  <2>3. /\ "versions" \notin Changing /\ "versions" \notin LinkHolders
    BY DEF Changing, LinkHolders, Writers, Managers
  <2>4. ChecksFirst("versions", 2)
    BY <2>1, <2>2, SMTT(30) DEF ChecksFirst, Covered, Right, Effects
  <2>5. AsksAccounts("versions", 2) /\ TellsRoles("versions")
    BY <2>2, <2>3, SMTT(30) DEF AsksAccounts, TellsRoles, Checks, Tellings
  <2>6. /\ Len(Plan("versions")) = 2 /\ 2 \in Nat \ {0}
        /\ \A p \in 1..2 : Plan("versions")[p] \notin Effects
    BY <2>2, SMTT(30) DEF Effects
  <2> QED BY <2>3, <2>4, <2>5, <2>6, ReadRule, Zenon
<1>9. PlanOK("restoreVersion")
  <2>1. Handler("restoreVersion") = Restore /\ Needed("restoreVersion") = {"live", "editor"}
    BY Routes, Needs
  <2>2. /\ Plan("restoreVersion") = <<"edit", "live", "live", "object", "put", "add", "live">>
        /\ Tells("restoreVersion") = <<>> /\ Handler("restoreVersion").row = "id"
    BY <2>1 DEF Plan, Tells, Made, Cookie, Restore, RestoreVersion
  <2>3. /\ "restoreVersion" \in Changing /\ "restoreVersion" \notin LinkHolders
        /\ "restoreVersion" \in Doers("add")
    BY DEF Doers, Changing, LinkHolders, Writers, Managers
  <2>4. ChecksFirst("restoreVersion", 7)
    BY <2>1, <2>2, SMTT(30) DEF ChecksFirst, Covered, Right, Effects
  <2>5. AsksAccounts("restoreVersion", 7) /\ TellsRoles("restoreVersion")
    BY <2>2, <2>3, SMTT(30) DEF AsksAccounts, TellsRoles, Checks, Tellings
  <2>6. /\ Len(Plan("restoreVersion")) = 7 /\ 7 \in Nat \ {0} /\ 6 \in 1..7
        /\ Plan("restoreVersion")[6] = "add" /\ Plan("restoreVersion")[6] \in Effects
        /\ \A p \in 1..7 : p # 6 => Plan("restoreVersion")[p] \notin Effects
    BY <2>2, SMTT(30) DEF Effects
  <2>7. Handler("restoreVersion").row # "none"
    BY <2>2
  <2> QED BY <2>3, <2>4, <2>5, <2>6, <2>7, ActRule
<1>10. PlanOK("adminList")
  <2>1. Handler("adminList") = AdminList /\ Needed("adminList") = {"admin"}
    BY Routes, Needs
  <2>2. /\ Plan("adminList") = <<"rows">>
        /\ Tells("adminList") = <<>>
        /\ Handler("adminList").who = "admin"
    BY <2>1 DEF Plan, Tells, Made, Cookie, AdminList, ListAdmin
  <2>3. /\ "adminList" \notin Changing /\ "adminList" \notin LinkHolders
    BY DEF Changing, LinkHolders, Writers, Managers
  <2>4. ChecksFirst("adminList", 1)
    BY <2>1, <2>2, SMTT(30) DEF ChecksFirst, Covered, Right, Effects
  <2>5. AsksAccounts("adminList", 1) /\ TellsRoles("adminList")
    BY <2>2, <2>3, SMTT(30) DEF AsksAccounts, TellsRoles, Checks, Tellings
  <2>6. /\ Len(Plan("adminList")) = 1 /\ 1 \in Nat \ {0}
        /\ \A p \in 1..1 : Plan("adminList")[p] \notin Effects
    BY <2>2, SMTT(30) DEF Effects
  <2> QED BY <2>3, <2>4, <2>5, <2>6, ReadRule, Zenon
<1>11. PlanOK("adminDelete")
  <2>1. Handler("adminDelete") = AdminDelete /\ Needed("adminDelete") = {"admin", "live"}
    BY Routes, Needs
  <2>2. /\ Plan("adminDelete") = <<"delete">>
        /\ Tells("adminDelete") = <<>>
        /\ Handler("adminDelete").who = "admin" /\ Handler("adminDelete").row = "id"
    BY <2>1 DEF Plan, Tells, Made, Cookie, AdminDelete, DeleteAdmin
  <2>3. /\ "adminDelete" \in Changing /\ "adminDelete" \notin LinkHolders
        /\ "adminDelete" \in Doers("delete")
    BY DEF Doers, Changing, LinkHolders, Writers, Managers
  <2>4. ChecksFirst("adminDelete", 1)
    BY <2>1, <2>2, SMTT(30) DEF ChecksFirst, Covered, Right, Effects
  <2>5. AsksAccounts("adminDelete", 1) /\ TellsRoles("adminDelete")
    BY <2>2, <2>3, SMTT(30) DEF AsksAccounts, TellsRoles, Checks, Tellings
  <2>6. /\ Len(Plan("adminDelete")) = 1 /\ 1 \in Nat \ {0} /\ 1 \in 1..1
        /\ Plan("adminDelete")[1] = "delete" /\ Plan("adminDelete")[1] \in Effects
        /\ \A p \in 1..1 : p # 1 => Plan("adminDelete")[p] \notin Effects
    BY <2>2, SMTT(30) DEF Effects
  <2>7. Handler("adminDelete").row # "none"
    BY <2>2
  <2> QED BY <2>3, <2>4, <2>5, <2>6, <2>7, ActRule
<1>12. PlanOK("listPermissions")
  <2>1. Handler("listPermissions") = ListPermissions /\ Needed("listPermissions") = {"live", "owner"}
    BY Routes, Needs
  <2>2. /\ Plan("listPermissions") = <<"own", "rows">>
        /\ Tells("listPermissions") = <<>>
    BY <2>1 DEF Plan, Tells, Made, Cookie, ListPermissions, PermissionList
  <2>3. /\ "listPermissions" \notin Changing /\ "listPermissions" \notin LinkHolders
    BY DEF Changing, LinkHolders, Writers, Managers
  <2>4. ChecksFirst("listPermissions", 2)
    BY <2>1, <2>2, SMTT(30) DEF ChecksFirst, Covered, Right, Effects
  <2>5. AsksAccounts("listPermissions", 2) /\ TellsRoles("listPermissions")
    BY <2>2, <2>3, SMTT(30) DEF AsksAccounts, TellsRoles, Checks, Tellings
  <2>6. /\ Len(Plan("listPermissions")) = 2 /\ 2 \in Nat \ {0}
        /\ \A p \in 1..2 : Plan("listPermissions")[p] \notin Effects
    BY <2>2, SMTT(30) DEF Effects
  <2> QED BY <2>3, <2>4, <2>5, <2>6, ReadRule, Zenon
<1>13. PlanOK("grant")
  <2>1. Handler("grant") = GrantPermission /\ Needed("grant") = {"live", "owner"}
    BY Routes, Needs
  <2>2. /\ Plan("grant") = <<"own", "insertGrant">>
        /\ Tells("grant") = <<>> /\ Handler("grant").row = "id"
    BY <2>1 DEF Plan, Tells, Made, Cookie, GrantPermission, Grant
  <2>3. /\ "grant" \in Changing /\ "grant" \notin LinkHolders
        /\ "grant" \in Doers("insertGrant")
    BY DEF Doers, Changing, LinkHolders, Writers, Managers
  <2>4. ChecksFirst("grant", 2)
    BY <2>1, <2>2, SMTT(30) DEF ChecksFirst, Covered, Right, Effects
  <2>5. AsksAccounts("grant", 2) /\ TellsRoles("grant")
    BY <2>2, <2>3, SMTT(30) DEF AsksAccounts, TellsRoles, Checks, Tellings
  <2>6. /\ Len(Plan("grant")) = 2 /\ 2 \in Nat \ {0} /\ 2 \in 1..2
        /\ Plan("grant")[2] = "insertGrant" /\ Plan("grant")[2] \in Effects
        /\ \A p \in 1..2 : p # 2 => Plan("grant")[p] \notin Effects
    BY <2>2, SMTT(30) DEF Effects
  <2>7. Handler("grant").row # "none"
    BY <2>2
  <2> QED BY <2>3, <2>4, <2>5, <2>6, <2>7, ActRule
<1>14. PlanOK("revoke")
  <2>1. Handler("revoke") = DeletePermission /\ Needed("revoke") = {"live", "owner"}
    BY Routes, Needs
  <2>2. /\ Plan("revoke") = <<"own", "deleteGrant">>
        /\ Tells("revoke") = <<>> /\ Handler("revoke").row = "id"
    BY <2>1 DEF Plan, Tells, Made, Cookie, DeletePermission, PermissionDelete
  <2>3. /\ "revoke" \in Changing /\ "revoke" \notin LinkHolders
        /\ "revoke" \in Doers("deleteGrant")
    BY DEF Doers, Changing, LinkHolders, Writers, Managers
  <2>4. ChecksFirst("revoke", 2)
    BY <2>1, <2>2, SMTT(30) DEF ChecksFirst, Covered, Right, Effects
  <2>5. AsksAccounts("revoke", 2) /\ TellsRoles("revoke")
    BY <2>2, <2>3, SMTT(30) DEF AsksAccounts, TellsRoles, Checks, Tellings
  <2>6. /\ Len(Plan("revoke")) = 2 /\ 2 \in Nat \ {0} /\ 2 \in 1..2
        /\ Plan("revoke")[2] = "deleteGrant" /\ Plan("revoke")[2] \in Effects
        /\ \A p \in 1..2 : p # 2 => Plan("revoke")[p] \notin Effects
    BY <2>2, SMTT(30) DEF Effects
  <2>7. Handler("revoke").row # "none"
    BY <2>2
  <2> QED BY <2>3, <2>4, <2>5, <2>6, <2>7, ActRule
<1>15. PlanOK("createLink")
  <2>1. Handler("createLink") = CreateLink /\ Needed("createLink") = {"live", "owner"}
    BY Routes, Needs
  <2>2. /\ Plan("createLink") = <<"own", "live", "insertLink">>
        /\ Tells("createLink") = <<>> /\ Handler("createLink").row = "id"
    BY <2>1 DEF Plan, Tells, Made, Cookie, CreateLink, LinkCreate
  <2>3. /\ "createLink" \in Changing /\ "createLink" \notin LinkHolders
        /\ "createLink" \in Doers("insertLink")
    BY DEF Doers, Changing, LinkHolders, Writers, Managers
  <2>4. ChecksFirst("createLink", 3)
    BY <2>1, <2>2, SMTT(30) DEF ChecksFirst, Covered, Right, Effects
  <2>5. AsksAccounts("createLink", 3) /\ TellsRoles("createLink")
    BY <2>2, <2>3, SMTT(30) DEF AsksAccounts, TellsRoles, Checks, Tellings
  <2>6. /\ Len(Plan("createLink")) = 3 /\ 3 \in Nat \ {0} /\ 3 \in 1..3
        /\ Plan("createLink")[3] = "insertLink" /\ Plan("createLink")[3] \in Effects
        /\ \A p \in 1..3 : p # 3 => Plan("createLink")[p] \notin Effects
    BY <2>2, SMTT(30) DEF Effects
  <2>7. Handler("createLink").row # "none"
    BY <2>2
  <2> QED BY <2>3, <2>4, <2>5, <2>6, <2>7, ActRule
<1>16. PlanOK("listLinks")
  <2>1. Handler("listLinks") = ListLinks /\ Needed("listLinks") = {"live", "owner"}
    BY Routes, Needs
  <2>2. /\ Plan("listLinks") = <<"own", "rows">>
        /\ Tells("listLinks") = <<>>
    BY <2>1 DEF Plan, Tells, Made, Cookie, ListLinks, LinkList
  <2>3. /\ "listLinks" \notin Changing /\ "listLinks" \notin LinkHolders
    BY DEF Changing, LinkHolders, Writers, Managers
  <2>4. ChecksFirst("listLinks", 2)
    BY <2>1, <2>2, SMTT(30) DEF ChecksFirst, Covered, Right, Effects
  <2>5. AsksAccounts("listLinks", 2) /\ TellsRoles("listLinks")
    BY <2>2, <2>3, SMTT(30) DEF AsksAccounts, TellsRoles, Checks, Tellings
  <2>6. /\ Len(Plan("listLinks")) = 2 /\ 2 \in Nat \ {0}
        /\ \A p \in 1..2 : Plan("listLinks")[p] \notin Effects
    BY <2>2, SMTT(30) DEF Effects
  <2> QED BY <2>3, <2>4, <2>5, <2>6, ReadRule, Zenon
<1>17. PlanOK("disableLink")
  <2>1. Handler("disableLink") = Disable /\ Needed("disableLink") = {"live", "owner"}
    BY Routes, Needs
  <2>2. /\ Plan("disableLink") = <<"findLink", "own", "disableLink">>
        /\ Tells("disableLink") = <<>> /\ Handler("disableLink").row = "id"
    BY <2>1 DEF Plan, Tells, Made, Cookie, Disable, LinkDisable
  <2>3. /\ "disableLink" \in Changing /\ "disableLink" \notin LinkHolders
        /\ "disableLink" \in Doers("disableLink")
    BY DEF Doers, Changing, LinkHolders, Writers, Managers
  <2>4. ChecksFirst("disableLink", 3)
    BY <2>1, <2>2, SMTT(30) DEF ChecksFirst, Covered, Right, Effects
  <2>5. AsksAccounts("disableLink", 3) /\ TellsRoles("disableLink")
    BY <2>2, <2>3, SMTT(30) DEF AsksAccounts, TellsRoles, Checks, Tellings
  <2>6. /\ Len(Plan("disableLink")) = 3 /\ 3 \in Nat \ {0} /\ 3 \in 1..3
        /\ Plan("disableLink")[3] = "disableLink" /\ Plan("disableLink")[3] \in Effects
        /\ \A p \in 1..3 : p # 3 => Plan("disableLink")[p] \notin Effects
    BY <2>2, SMTT(30) DEF Effects
  <2>7. Handler("disableLink").row # "none"
    BY <2>2
  <2> QED BY <2>3, <2>4, <2>5, <2>6, <2>7, ActRule
<1>18. PlanOK("access")
  <2>1. Handler("access") = AccessLink /\ Needed("access") = {"link", "live"}
    BY Routes, Needs
  <2>2. /\ Plan("access") = <<"link", "live", "object">>
        /\ Tells("access") = <<>>
    BY <2>1 DEF Plan, Tells, Made, Cookie, AccessLink, LinkAccess
  <2>3. /\ "access" \notin Changing /\ "access" \in LinkHolders
    BY DEF Changing, LinkHolders, Writers, Managers
  <2>4. ChecksFirst("access", 3)
    BY <2>1, <2>2, SMTT(30) DEF ChecksFirst, Covered, Right, Effects
  <2>5. AsksAccounts("access", 3) /\ TellsRoles("access")
    BY <2>2, <2>3, SMTT(30) DEF AsksAccounts, TellsRoles, Checks, Tellings
  <2>6. /\ Len(Plan("access")) = 3 /\ 3 \in Nat \ {0}
        /\ \A p \in 1..3 : Plan("access")[p] \notin Effects
    BY <2>2, SMTT(30) DEF Effects
  <2> QED BY <2>3, <2>4, <2>5, <2>6, ReadRule, Zenon
<1>19. PlanOK("downloadShared")
  <2>1. Handler("downloadShared") = DownloadShared /\ Needed("downloadShared") = {"link", "live"}
    BY Routes, Needs
  <2>2. /\ Plan("downloadShared") = <<"link", "live", "object">>
        /\ Tells("downloadShared") = <<>>
    BY <2>1 DEF Plan, Tells, Made, Cookie, DownloadShared, LinkDownload
  <2>3. /\ "downloadShared" \notin Changing /\ "downloadShared" \in LinkHolders
    BY DEF Changing, LinkHolders, Writers, Managers
  <2>4. ChecksFirst("downloadShared", 3)
    BY <2>1, <2>2, SMTT(30) DEF ChecksFirst, Covered, Right, Effects
  <2>5. AsksAccounts("downloadShared", 3) /\ TellsRoles("downloadShared")
    BY <2>2, <2>3, SMTT(30) DEF AsksAccounts, TellsRoles, Checks, Tellings
  <2>6. /\ Len(Plan("downloadShared")) = 3 /\ 3 \in Nat \ {0}
        /\ \A p \in 1..3 : Plan("downloadShared")[p] \notin Effects
    BY <2>2, SMTT(30) DEF Effects
  <2> QED BY <2>3, <2>4, <2>5, <2>6, ReadRule, Zenon
<1>20. PlanOK("saveShared")
  <2>1. Handler("saveShared") = SaveShared /\ Needed("saveShared") = {"link", "live", "linkEditor"}
    BY Routes, Needs
  <2>2. /\ Plan("saveShared") = <<"link", "live", "linkEditor", "put", "add", "live">>
        /\ Tells("saveShared") = <<>> /\ Handler("saveShared").row = "id"
    BY <2>1 DEF Plan, Tells, Made, Cookie, SaveShared, LinkSave
  <2>3. /\ "saveShared" \in Changing /\ "saveShared" \in LinkHolders
        /\ "saveShared" \in Doers("add")
    BY DEF Doers, Changing, LinkHolders, Writers, Managers
  <2>4. ChecksFirst("saveShared", 6)
    BY <2>1, <2>2, SMTT(30) DEF ChecksFirst, Covered, Right, Effects
  <2>5. AsksAccounts("saveShared", 6) /\ TellsRoles("saveShared")
    BY <2>2, <2>3, SMTT(30) DEF AsksAccounts, TellsRoles, Checks, Tellings
  <2>6. /\ Len(Plan("saveShared")) = 6 /\ 6 \in Nat \ {0} /\ 5 \in 1..6
        /\ Plan("saveShared")[5] = "add" /\ Plan("saveShared")[5] \in Effects
        /\ \A p \in 1..6 : p # 5 => Plan("saveShared")[p] \notin Effects
    BY <2>2, SMTT(30) DEF Effects
  <2>7. Handler("saveShared").row # "none"
    BY <2>2
  <2> QED BY <2>3, <2>4, <2>5, <2>6, <2>7, ActRule
<1>21. PlanOK("session")
  <2>1. Handler("session") = OfficeSession /\ Needed("session") = {"live", "viewer"}
    BY Routes, Needs
  <2>2. /\ Plan("session") = <<"live", "view", "tellEditor", "mint">>
        /\ Tells("session") = <<>>
    BY <2>1 DEF Plan, Tells, Made, Cookie, OfficeSession, Session
  <2>3. /\ "session" \notin Changing /\ "session" \notin LinkHolders
        /\ "session" \in Doers("mint")
    BY DEF Doers, Changing, LinkHolders, Writers, Managers
  <2>4. ChecksFirst("session", 4)
    BY <2>1, <2>2, SMTT(30) DEF ChecksFirst, Covered, Right, Effects
  <2>5. AsksAccounts("session", 4) /\ TellsRoles("session")
    BY <2>2, <2>3, SMTT(30) DEF AsksAccounts, TellsRoles, Checks, Tellings
  <2>6. /\ Len(Plan("session")) = 4 /\ 4 \in Nat \ {0} /\ 4 \in 1..4
        /\ Plan("session")[4] = "mint" /\ Plan("session")[4] \in Effects
        /\ \A p \in 1..4 : p # 4 => Plan("session")[p] \notin Effects
    BY <2>2, SMTT(30) DEF Effects
  <2> QED BY <2>3, <2>4, <2>5, <2>6, ActRule
<1>22. PlanOK("collabSession")
  <2>1. Handler("collabSession") = OfficeCollab /\ Needed("collabSession") = {"live", "viewer"}
    BY Routes, Needs
  <2>2. /\ Plan("collabSession") = <<"live", "view", "tellEditor">>
        /\ Tells("collabSession") = <<>>
    BY <2>1 DEF Plan, Tells, Made, Cookie, OfficeCollab, CollabSession
  <2>3. /\ "collabSession" \notin Changing /\ "collabSession" \notin LinkHolders
    BY DEF Changing, LinkHolders, Writers, Managers
  <2>4. ChecksFirst("collabSession", 3)
    BY <2>1, <2>2, SMTT(30) DEF ChecksFirst, Covered, Right, Effects
  <2>5. AsksAccounts("collabSession", 3) /\ TellsRoles("collabSession")
    BY <2>2, <2>3, SMTT(30) DEF AsksAccounts, TellsRoles, Checks, Tellings
  <2>6. /\ Len(Plan("collabSession")) = 3 /\ 3 \in Nat \ {0}
        /\ \A p \in 1..3 : Plan("collabSession")[p] \notin Effects
    BY <2>2, SMTT(30) DEF Effects
  <2> QED BY <2>3, <2>4, <2>5, <2>6, ReadRule, Zenon
<1>23. PlanOK("officeSave")
  <2>1. Handler("officeSave") = SaveOffice /\ Needed("officeSave") = {"live", "editor"}
    BY Routes, Needs
  <2>2. /\ Plan("officeSave") = <<"live", "edit", "body", "put", "add">>
        /\ Tells("officeSave") = <<>> /\ Handler("officeSave").row = "id"
    BY <2>1 DEF Plan, Tells, Made, Cookie, SaveOffice, OfficeSave
  <2>3. /\ "officeSave" \in Changing /\ "officeSave" \notin LinkHolders
        /\ "officeSave" \in Doers("add")
    BY DEF Doers, Changing, LinkHolders, Writers, Managers
  <2>4. ChecksFirst("officeSave", 5)
    BY <2>1, <2>2, SMTT(30) DEF ChecksFirst, Covered, Right, Effects
  <2>5. AsksAccounts("officeSave", 5) /\ TellsRoles("officeSave")
    BY <2>2, <2>3, SMTT(30) DEF AsksAccounts, TellsRoles, Checks, Tellings
  <2>6. /\ Len(Plan("officeSave")) = 5 /\ 5 \in Nat \ {0} /\ 5 \in 1..5
        /\ Plan("officeSave")[5] = "add" /\ Plan("officeSave")[5] \in Effects
        /\ \A p \in 1..5 : p # 5 => Plan("officeSave")[p] \notin Effects
        /\ 3 \in 1..5 /\ Plan("officeSave")[3] = "body" /\ 3 < 5
    BY <2>2, SMTT(30) DEF Effects
  <2>7. Handler("officeSave").row # "none"
    BY <2>2
  <2> QED BY <2>3, <2>4, <2>5, <2>6, <2>7, ActRule
<1>24. PlanOK("wopiInfo")
  <2>1. Handler("wopiInfo") = GetInfo /\ Needed("wopiInfo") = {"token", "live", "viewer"}
    BY Routes, Needs
  <2>2. /\ Plan("wopiInfo") = <<"token", "live", "view", "tellEditor">>
        /\ Tells("wopiInfo") = <<>>
    BY <2>1 DEF Plan, Tells, Made, Cookie, GetInfo, WOPIInfo
  <2>3. /\ "wopiInfo" \notin Changing /\ "wopiInfo" \notin LinkHolders
    BY DEF Changing, LinkHolders, Writers, Managers
  <2>4. ChecksFirst("wopiInfo", 4)
    BY <2>1, <2>2, SMTT(30) DEF ChecksFirst, Covered, Right, Effects
  <2>5. AsksAccounts("wopiInfo", 4) /\ TellsRoles("wopiInfo")
    BY <2>2, <2>3, SMTT(30) DEF AsksAccounts, TellsRoles, Checks, Tellings
  <2>6. /\ Len(Plan("wopiInfo")) = 4 /\ 4 \in Nat \ {0}
        /\ \A p \in 1..4 : Plan("wopiInfo")[p] \notin Effects
    BY <2>2, SMTT(30) DEF Effects
  <2> QED BY <2>3, <2>4, <2>5, <2>6, ReadRule, Zenon
<1>25. PlanOK("wopiContent")
  <2>1. Handler("wopiContent") = GetContent /\ Needed("wopiContent") = {"token", "live", "viewer"}
    BY Routes, Needs
  <2>2. /\ Plan("wopiContent") = <<"token", "live", "view", "tellEditor", "object">>
        /\ Tells("wopiContent") = <<>>
    BY <2>1 DEF Plan, Tells, Made, Cookie, GetContent, WOPIContent
  <2>3. /\ "wopiContent" \notin Changing /\ "wopiContent" \notin LinkHolders
    BY DEF Changing, LinkHolders, Writers, Managers
  <2>4. ChecksFirst("wopiContent", 5)
    BY <2>1, <2>2, SMTT(30) DEF ChecksFirst, Covered, Right, Effects
  <2>5. AsksAccounts("wopiContent", 5) /\ TellsRoles("wopiContent")
    BY <2>2, <2>3, SMTT(30) DEF AsksAccounts, TellsRoles, Checks, Tellings
  <2>6. /\ Len(Plan("wopiContent")) = 5 /\ 5 \in Nat \ {0}
        /\ \A p \in 1..5 : Plan("wopiContent")[p] \notin Effects
    BY <2>2, SMTT(30) DEF Effects
  <2> QED BY <2>3, <2>4, <2>5, <2>6, ReadRule, Zenon
<1>26. PlanOK("wopiSave")
  <2>1. Handler("wopiSave") = SaveContent /\ Needed("wopiSave") = {"token", "live", "editor"}
    BY Routes, Needs
  <2>2. /\ Plan("wopiSave") = <<"token", "edit", "live", "edit", "body", "put", "add">>
        /\ Tells("wopiSave") = <<>> /\ Handler("wopiSave").row = "id"
    BY <2>1 DEF Plan, Tells, Made, Cookie, SaveContent, WOPISave
  <2>3. /\ "wopiSave" \in Changing /\ "wopiSave" \notin LinkHolders
        /\ "wopiSave" \in Doers("add")
    BY DEF Doers, Changing, LinkHolders, Writers, Managers
  <2>4. ChecksFirst("wopiSave", 7)
    BY <2>1, <2>2, SMTT(30) DEF ChecksFirst, Covered, Right, Effects
  <2>5. AsksAccounts("wopiSave", 7) /\ TellsRoles("wopiSave")
    BY <2>2, <2>3, SMTT(30) DEF AsksAccounts, TellsRoles, Checks, Tellings
  <2>6. /\ Len(Plan("wopiSave")) = 7 /\ 7 \in Nat \ {0} /\ 7 \in 1..7
        /\ Plan("wopiSave")[7] = "add" /\ Plan("wopiSave")[7] \in Effects
        /\ \A p \in 1..7 : p # 7 => Plan("wopiSave")[p] \notin Effects
        /\ 5 \in 1..7 /\ Plan("wopiSave")[5] = "body" /\ 5 < 7
    BY <2>2, SMTT(30) DEF Effects
  <2>7. Handler("wopiSave").row # "none"
    BY <2>2
  <2> QED BY <2>3, <2>4, <2>5, <2>6, <2>7, ActRule
<1>27. PlanOK("roomInfo")
  <2>1. Handler("roomInfo") = RoomInfo /\ Needed("roomInfo") = {"live", "viewer"}
    BY Routes, Needs
  <2>2. /\ Plan("roomInfo") = <<"live", "view">>
        /\ Tells("roomInfo") = <<>>
    BY <2>1 DEF Plan, Tells, Made, Cookie, RoomInfo, SheetsRoomInfo
  <2>3. /\ "roomInfo" \notin Changing /\ "roomInfo" \notin LinkHolders
    BY DEF Changing, LinkHolders, Writers, Managers
  <2>4. ChecksFirst("roomInfo", 2)
    BY <2>1, <2>2, SMTT(30) DEF ChecksFirst, Covered, Right, Effects
  <2>5. AsksAccounts("roomInfo", 2) /\ TellsRoles("roomInfo")
    BY <2>2, <2>3, SMTT(30) DEF AsksAccounts, TellsRoles, Checks, Tellings
  <2>6. /\ Len(Plan("roomInfo")) = 2 /\ 2 \in Nat \ {0}
        /\ \A p \in 1..2 : Plan("roomInfo")[p] \notin Effects
    BY <2>2, SMTT(30) DEF Effects
  <2> QED BY <2>3, <2>4, <2>5, <2>6, ReadRule, Zenon
<1>28. PlanOK("sheetsSeed")
  <2>1. Handler("sheetsSeed") = SheetsSeed /\ Needed("sheetsSeed") = {"live", "viewer"}
    BY Routes, Needs
  <2>2. /\ Plan("sheetsSeed") = <<"live", "view", "live", "object">>
        /\ Tells("sheetsSeed") = <<>>
    BY <2>1 DEF Plan, Tells, Made, Cookie, SheetsSeed, SheetsRoomSeed
  <2>3. /\ "sheetsSeed" \notin Changing /\ "sheetsSeed" \notin LinkHolders
    BY DEF Changing, LinkHolders, Writers, Managers
  <2>4. ChecksFirst("sheetsSeed", 4)
    BY <2>1, <2>2, SMTT(30) DEF ChecksFirst, Covered, Right, Effects
  <2>5. AsksAccounts("sheetsSeed", 4) /\ TellsRoles("sheetsSeed")
    BY <2>2, <2>3, SMTT(30) DEF AsksAccounts, TellsRoles, Checks, Tellings
  <2>6. /\ Len(Plan("sheetsSeed")) = 4 /\ 4 \in Nat \ {0}
        /\ \A p \in 1..4 : Plan("sheetsSeed")[p] \notin Effects
    BY <2>2, SMTT(30) DEF Effects
  <2> QED BY <2>3, <2>4, <2>5, <2>6, ReadRule, Zenon
<1>29. PlanOK("docsSeed")
  <2>1. Handler("docsSeed") = DocsSeed /\ Needed("docsSeed") = {"live", "viewer"}
    BY Routes, Needs
  <2>2. /\ Plan("docsSeed") = <<"live", "view", "object">>
        /\ Tells("docsSeed") = <<>>
    BY <2>1 DEF Plan, Tells, Made, Cookie, DocsSeed, DocsRoomSeed
  <2>3. /\ "docsSeed" \notin Changing /\ "docsSeed" \notin LinkHolders
    BY DEF Changing, LinkHolders, Writers, Managers
  <2>4. ChecksFirst("docsSeed", 3)
    BY <2>1, <2>2, SMTT(30) DEF ChecksFirst, Covered, Right, Effects
  <2>5. AsksAccounts("docsSeed", 3) /\ TellsRoles("docsSeed")
    BY <2>2, <2>3, SMTT(30) DEF AsksAccounts, TellsRoles, Checks, Tellings
  <2>6. /\ Len(Plan("docsSeed")) = 3 /\ 3 \in Nat \ {0}
        /\ \A p \in 1..3 : Plan("docsSeed")[p] \notin Effects
    BY <2>2, SMTT(30) DEF Effects
  <2> QED BY <2>3, <2>4, <2>5, <2>6, ReadRule, Zenon
<1>30. PlanOK("casualSocket")
  <2>1. Handler("casualSocket") = CasualSocket /\ Needed("casualSocket") = {"token", "live", "viewer"}
    BY Routes, Needs
  <2>2. /\ Plan("casualSocket") = <<"token", "view", "tellEditor", "dial", "openSocket">>
        /\ Tells("casualSocket") = <<>>
    BY <2>1 DEF Plan, Tells, Made, Cookie, CasualSocket, ProxyCollab
  <2>3. /\ "casualSocket" \notin Changing /\ "casualSocket" \notin LinkHolders
        /\ "casualSocket" \in Doers("openSocket")
    BY DEF Doers, Changing, LinkHolders, Writers, Managers
  <2>4. ChecksFirst("casualSocket", 5)
    BY <2>1, <2>2, SMTT(30) DEF ChecksFirst, Covered, Right, Effects
  <2>5. AsksAccounts("casualSocket", 5) /\ TellsRoles("casualSocket")
    BY <2>2, <2>3, SMTT(30) DEF AsksAccounts, TellsRoles, Checks, Tellings
  <2>6. /\ Len(Plan("casualSocket")) = 5 /\ 5 \in Nat \ {0} /\ 5 \in 1..5
        /\ Plan("casualSocket")[5] = "openSocket" /\ Plan("casualSocket")[5] \in Effects
        /\ \A p \in 1..5 : p # 5 => Plan("casualSocket")[p] \notin Effects
    BY <2>2, SMTT(30) DEF Effects
  <2> QED BY <2>3, <2>4, <2>5, <2>6, ActRule
<1>31. PlanOK("snapshot")
  <2>1. Handler("snapshot") = MarkdownSnapshot /\ Needed("snapshot") = {"live", "viewer"}
    BY Routes, Needs
  <2>2. /\ Plan("snapshot") = <<"live", "view", "tellEditor", "rows">>
        /\ Tells("snapshot") = <<>>
    BY <2>1 DEF Plan, Tells, Made, Cookie, MarkdownSnapshot, Snapshot
  <2>3. /\ "snapshot" \notin Changing /\ "snapshot" \notin LinkHolders
    BY DEF Changing, LinkHolders, Writers, Managers
  <2>4. ChecksFirst("snapshot", 4)
    BY <2>1, <2>2, SMTT(30) DEF ChecksFirst, Covered, Right, Effects
  <2>5. AsksAccounts("snapshot", 4) /\ TellsRoles("snapshot")
    BY <2>2, <2>3, SMTT(30) DEF AsksAccounts, TellsRoles, Checks, Tellings
  <2>6. /\ Len(Plan("snapshot")) = 4 /\ 4 \in Nat \ {0}
        /\ \A p \in 1..4 : Plan("snapshot")[p] \notin Effects
    BY <2>2, SMTT(30) DEF Effects
  <2> QED BY <2>3, <2>4, <2>5, <2>6, ReadRule, Zenon
<1>32. PlanOK("markdownSocket")
  <2>1. Handler("markdownSocket") = MarkdownSocket /\ Needed("markdownSocket") = {"live", "viewer"}
    BY Routes, Needs
  <2>2. /\ Plan("markdownSocket") = <<"live", "view", "tellEditor", "rows", "openSocket">>
        /\ Tells("markdownSocket") = <<>>
    BY <2>1 DEF Plan, Tells, Made, Cookie, MarkdownSocket, Join
  <2>3. /\ "markdownSocket" \notin Changing /\ "markdownSocket" \notin LinkHolders
        /\ "markdownSocket" \in Doers("openSocket")
    BY DEF Doers, Changing, LinkHolders, Writers, Managers
  <2>4. ChecksFirst("markdownSocket", 5)
    BY <2>1, <2>2, SMTT(30) DEF ChecksFirst, Covered, Right, Effects
  <2>5. AsksAccounts("markdownSocket", 5) /\ TellsRoles("markdownSocket")
    BY <2>2, <2>3, SMTT(30) DEF AsksAccounts, TellsRoles, Checks, Tellings
  <2>6. /\ Len(Plan("markdownSocket")) = 5 /\ 5 \in Nat \ {0} /\ 5 \in 1..5
        /\ Plan("markdownSocket")[5] = "openSocket" /\ Plan("markdownSocket")[5] \in Effects
        /\ \A p \in 1..5 : p # 5 => Plan("markdownSocket")[p] \notin Effects
    BY <2>2, SMTT(30) DEF Effects
  <2> QED BY <2>3, <2>4, <2>5, <2>6, ActRule
<1>33. PlanOK("storageList")
  <2>1. Handler("storageList") = ViewStorage /\ Needed("storageList") = {"admin"}
    BY Routes, Needs
  <2>2. /\ Plan("storageList") = <<"object", "object">>
        /\ Tells("storageList") = <<>>
        /\ Handler("storageList").who = "admin"
    BY <2>1 DEF Plan, Tells, Made, Cookie, ViewStorage, StorageList
  <2>3. /\ "storageList" \notin Changing /\ "storageList" \notin LinkHolders
    BY DEF Changing, LinkHolders, Writers, Managers
  <2>4. ChecksFirst("storageList", 2)
    BY <2>1, <2>2, SMTT(30) DEF ChecksFirst, Covered, Right, Effects
  <2>5. AsksAccounts("storageList", 2) /\ TellsRoles("storageList")
    BY <2>2, <2>3, SMTT(30) DEF AsksAccounts, TellsRoles, Checks, Tellings
  <2>6. /\ Len(Plan("storageList")) = 2 /\ 2 \in Nat \ {0}
        /\ \A p \in 1..2 : Plan("storageList")[p] \notin Effects
    BY <2>2, SMTT(30) DEF Effects
  <2> QED BY <2>3, <2>4, <2>5, <2>6, ReadRule, Zenon
<1>34. PlanOK("storageDelete")
  <2>1. Handler("storageDelete") = DeleteObject /\ Needed("storageDelete") = {"admin"}
    BY Routes, Needs
  <2>2. /\ Plan("storageDelete") = <<"dropObject">>
        /\ Tells("storageDelete") = <<>>
        /\ Handler("storageDelete").who = "admin" /\ Handler("storageDelete").row = "key"
    BY <2>1 DEF Plan, Tells, Made, Cookie, DeleteObject, StorageDelete
  <2>3. /\ "storageDelete" \in Changing /\ "storageDelete" \notin LinkHolders
        /\ "storageDelete" \in Doers("dropObject")
    BY DEF Doers, Changing, LinkHolders, Writers, Managers
  <2>4. ChecksFirst("storageDelete", 1)
    BY <2>1, <2>2, SMTT(30) DEF ChecksFirst, Covered, Right, Effects
  <2>5. AsksAccounts("storageDelete", 1) /\ TellsRoles("storageDelete")
    BY <2>2, <2>3, SMTT(30) DEF AsksAccounts, TellsRoles, Checks, Tellings
  <2>6. /\ Len(Plan("storageDelete")) = 1 /\ 1 \in Nat \ {0} /\ 1 \in 1..1
        /\ Plan("storageDelete")[1] = "dropObject" /\ Plan("storageDelete")[1] \in Effects
        /\ \A p \in 1..1 : p # 1 => Plan("storageDelete")[p] \notin Effects
    BY <2>2, SMTT(30) DEF Effects
  <2>7. Handler("storageDelete").row # "none"
    BY <2>2
  <2> QED BY <2>3, <2>4, <2>5, <2>6, <2>7, ActRule
<1>35. PlanOK("storageDownload")
  <2>1. Handler("storageDownload") = DownloadObject /\ Needed("storageDownload") = {"admin"}
    BY Routes, Needs
  <2>2. /\ Plan("storageDownload") = <<"object">>
        /\ Tells("storageDownload") = <<>>
        /\ Handler("storageDownload").who = "admin"
    BY <2>1 DEF Plan, Tells, Made, Cookie, DownloadObject, StorageDownload
  <2>3. /\ "storageDownload" \notin Changing /\ "storageDownload" \notin LinkHolders
    BY DEF Changing, LinkHolders, Writers, Managers
  <2>4. ChecksFirst("storageDownload", 1)
    BY <2>1, <2>2, SMTT(30) DEF ChecksFirst, Covered, Right, Effects
  <2>5. AsksAccounts("storageDownload", 1) /\ TellsRoles("storageDownload")
    BY <2>2, <2>3, SMTT(30) DEF AsksAccounts, TellsRoles, Checks, Tellings
  <2>6. /\ Len(Plan("storageDownload")) = 1 /\ 1 \in Nat \ {0}
        /\ \A p \in 1..1 : Plan("storageDownload")[p] \notin Effects
    BY <2>2, SMTT(30) DEF Effects
  <2> QED BY <2>3, <2>4, <2>5, <2>6, ReadRule, Zenon
<1>36. PlanOK("auditLogs")
  <2>1. Handler("auditLogs") = AuditLogs /\ Needed("auditLogs") = {"admin"}
    BY Routes, Needs
  <2>2. /\ Plan("auditLogs") = <<"rows">>
        /\ Tells("auditLogs") = <<>>
        /\ Handler("auditLogs").who = "admin"
    BY <2>1 DEF Plan, Tells, Made, Cookie, AuditLogs, AuditList
  <2>3. /\ "auditLogs" \notin Changing /\ "auditLogs" \notin LinkHolders
    BY DEF Changing, LinkHolders, Writers, Managers
  <2>4. ChecksFirst("auditLogs", 1)
    BY <2>1, <2>2, SMTT(30) DEF ChecksFirst, Covered, Right, Effects
  <2>5. AsksAccounts("auditLogs", 1) /\ TellsRoles("auditLogs")
    BY <2>2, <2>3, SMTT(30) DEF AsksAccounts, TellsRoles, Checks, Tellings
  <2>6. /\ Len(Plan("auditLogs")) = 1 /\ 1 \in Nat \ {0}
        /\ \A p \in 1..1 : Plan("auditLogs")[p] \notin Effects
    BY <2>2, SMTT(30) DEF Effects
  <2> QED BY <2>3, <2>4, <2>5, <2>6, ReadRule, Zenon
<1> QED
  BY <1>1, <1>2, <1>3, <1>4, <1>5, <1>6, <1>7, <1>8, <1>9, <1>10, <1>11, <1>12, <1>13,
     <1>14, <1>15, <1>16, <1>17, <1>18, <1>19, <1>20, <1>21, <1>22, <1>23, <1>24, <1>25,
     <1>26, <1>27, <1>28, <1>29, <1>30, <1>31, <1>32, <1>33, <1>34, <1>35, <1>36
     DEF AllKinds, Readers, Writers, Managers, LinkHolders, TokenHolders, Administrators

=============================================================================
