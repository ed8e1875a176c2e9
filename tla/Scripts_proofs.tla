--------------------------- MODULE Scripts_proofs ---------------------------
(***************************************************************************)
(* Proofs about the programs people run by hand: what the end of a run of  *)
(* upload.py tells, the bases it sends and the comments it posts           *)
(* (ReviewUpload), for every number of runs and of failing requests; the   *)
(* erase counts of a card, for every sequence of operations (CardSetup);   *)
(* the clean-up of compute_test.py, for any number of rounds               *)
(* (ComputeTest); the pool of machines of long_run_tests.py, for any       *)
(* number of them and of failures (VmMul); and what its other cases leave  *)
(* in the cloud, wherever they fail (CloudRun).                            *)
(***************************************************************************)
EXTENDS Scripts, SequenceTheorems, FiniteSetTheorems, WellFoundedInduction, TLAPS

(***************************************************************************)
(* upload.py alone: the other programs leave its state as it is.           *)
(***************************************************************************)
UploadNext == UploadSteps \/ CookieExpires \/ QueryFails
UploadSpec == UploadInit /\ [][UploadNext]_uploadVars

LEMMA UploadAlone == ScriptsSpec => UploadSpec
<1>1. ScriptsInit => UploadInit
  BY DEF ScriptsInit, UploadIdle
<1>2. [ProgramSteps \/ OtherSteps]_scriptsVars => [UploadNext]_uploadVars
  <2>1. CASE Cloud((Script /\ UNCHANGED mulVars) \/ testcase_vm_mul_create_delete)
    BY <2>1 DEF Cloud
  <2>2. CASE Cloud((TokenExpires \/ Settles) /\ UNCHANGED mulVars)
    BY <2>2 DEF Cloud
  <2>3. CASE Compute(ComputeSteps) \/ Compute(NovaSteps)
    BY <2>3 DEF Compute
  <2>4. CASE Upload(UploadSteps) \/ Upload(CookieExpires \/ QueryFails)
    BY <2>4 DEF Upload, UploadNext
  <2>5. CASE Card(Commands) \/ Card(Restart \/ \E o \in DOMAIN opCall : rpcCall(o))
    BY <2>5 DEF Card
  <2>6. CASE UNCHANGED scriptsVars
    BY <2>6 DEF scriptsVars
  <2> QED
    BY <2>1, <2>2, <2>3, <2>4, <2>5, <2>6 DEF ProgramSteps, OtherSteps
<1> QED
  BY <1>1, <1>2, PTL DEF ScriptsSpec, UploadSpec

-----------------------------------------------------------------------------
(***************************************************************************)
(* What the version control systems say of a file (VcsFiles): the old side *)
(* is right, and what cannot be uploaded is a change known to be hopeless. *)
(***************************************************************************)
LEMMA FileParts ==
  ASSUME NEW b, NEW n, NEW k, NEW s
  PROVE  /\ File(b, n, k, s).base = b
         /\ File(b, n, k, s).binary = k
         /\ File(b, n, k, s).status = s
BY DEF File

LEMMA OldSides ==
  ASSUME NEW sys \in {"svn", "git", "hg"}, NEW c \in Changes, Shown(sys, c),
         compare \in {"working_copy", "since", "range", "urls", "full"}
  PROVE  /\ OldSideRight(sys, c)
         /\ Failed(GetBaseFile(sys, c)) =>
              Hopeless(sys, c) \/ Unanswered("status") \/ Unanswered("propget") \/ Unanswered("cat")
<1> USE DEF Failed, Unanswered
<1>0. Exit.base = "exit" /\ IOError.base = "IOError"
  <2>1. Exit.base = "exit"
    BY Zenon DEF Exit, File
  <2>2. IOError.base = "IOError"
    BY Zenon DEF IOError, File
  <2> QED
    BY <2>1, <2>2
<1>1. /\ c.what \in Whats /\ c.kind \in Kinds /\ c.local \in BOOLEAN
  BY DEF Changes
<1>2. CASE sys = "svn"
  <2> DEFINE st   == svn_GetStatus(c)
             file == svn_GetBaseFile(c)
             kind == svn_kind(c)
  <2>1. GetBaseFile(sys, c) = file
    BY <1>2 DEF GetBaseFile
  <2>2. /\ c.what \in {"added", "readded"} => st \in {"A", "A +"}
        /\ st = "A" => c.what \in {"added", "readded", "moved"} \/ Unanswered("list_old")
        /\ st = "A +" => c.what \in {"moved", "readded"}
        /\ c.what = "deleted" /\ compare = "working_copy" => st = "D"
    BY <1>1, <1>2 DEF svn_GetStatus, calcStatus, Old, Shown, Whats, Kinds
  <2>3. kind = c.kind \/ (kind = "text" /\ Unanswered("propget"))
    BY DEF svn_kind
  <2>4. CASE Unanswered("status")
    <3>1. file = Exit
      BY <2>4 DEF svn_GetBaseFile
    <3> HIDE DEF file
    <3> QED
      BY <1>0, <1>2, <2>1, <2>4, <3>1 DEF OldSideRight
  <2>5. CASE ~Unanswered("status") /\ st \in {"A", "A +"}
    <3>1. file = svn_added(c)
      BY <2>5 DEF svn_GetBaseFile, st
    <3>2. (file.base = "exit" /\ Unanswered("cat")) \/ (file.base = "empty" /\ file.status = "A")
      <4>1. CASE file = Exit /\ Unanswered("cat")
        <5> HIDE DEF file
        <5> QED
          BY <1>0, <4>1
      <4>2. CASE ~(file = Exit /\ Unanswered("cat"))
        <5> DEFINE k == IF c.what = "deleted" THEN "text" ELSE svn_kind(c)
        <5>1. file = File("empty", IF k = "image" THEN "new" ELSE "None", k # "text", "A")
          <6>1. file = IF k = "image" /\ rev_end /\ Unanswered("cat") THEN Exit
                       ELSE File("empty", IF k = "image" THEN "new" ELSE "None", k # "text", "A")
            BY <3>1 DEF svn_added
          <6> HIDE DEF file, k
          <6> QED
            BY <4>2, <6>1
        <5> HIDE DEF file, k
        <5> QED
          BY <5>1, FileParts
      <4> QED
        BY <4>1, <4>2
    <3> HIDE DEF st, file, kind
    <3>3. c.what \in {"added", "readded", "moved"} \/ (st = "A" /\ Unanswered("list_old"))
      BY <2>2, <2>5
    <3> QED
      BY <1>2, <2>1, <3>2, <3>3 DEF OldSideRight
  <2>6. CASE ~Unanswered("status") /\ st \notin {"A", "A +"}
    <3>1. file = svn_changed(c, st)
      BY <2>6 DEF svn_GetBaseFile, st
    <3>2. c.what \notin {"added", "readded"}
      BY <2>2, <2>6
    <3>3. CASE st = " M"
      <4>1. file = File("empty", "None", kind # "text", st)
        BY <3>1, <3>3 DEF svn_changed, st, kind
      <4> HIDE DEF st, file, kind
      <4>2. file.base = "empty" /\ file.status = st
        BY <4>1, FileParts
      <4> QED
        BY <1>2, <2>1, <3>3, <4>2 DEF OldSideRight
    <3>4. CASE st # " M" /\ kind = "binary"
      <4>1. file = File("empty", "None", TRUE, st)
        BY <3>1, <3>4 DEF svn_changed, st, kind
      <4> HIDE DEF st, file, kind
      <4>2. file.base = "empty" /\ file.binary
        BY <4>1 DEF File
      <4> QED
        BY <1>2, <2>1, <2>3, <3>4, <4>2 DEF OldSideRight
    <3>5. CASE st # " M" /\ kind # "binary"
      <4>1. file = svn_contents(c, st)
        BY <3>1, <3>5 DEF svn_changed, st, kind
      <4>2. /\ file.base \in {"exit", "IOError", "old"}
            /\ file.base = "exit" => Unanswered("cat") \/ (rev_end /\ c.what = "deleted")
            /\ file.base = "IOError" => ~rev_end /\ c.local /\ c.what = "deleted" /\ st # "D"
        <5> DEFINE reads == rev_end \/ st # "D"
                   rest  == File("old", IF reads THEN "new" ELSE "None", kind # "text", st)
        <5>1. \/ file = Exit /\ (Unanswered("cat") \/ (rev_end /\ c.what = "deleted"))
              \/ file = IOError /\ ~rev_end /\ reads /\ ~Here(c)
              \/ file = rest
          <6> HIDE DEF st, file, kind
          <6> QED
            BY <4>1 DEF svn_contents, kind
        <5>2. rest.base = "old"
          BY FileParts
        <5> HIDE DEF st, file, kind, rest
        <5> QED
          BY <1>0, <5>1, <5>2 DEF Here
      <4> HIDE DEF st, file, kind
      <4>3. OldSideRight(sys, c)
        BY <2>1, <3>2, <4>2 DEF OldSideRight
      <4>4. Failed(file) => Hopeless(sys, c) \/ Unanswered("propget") \/ Unanswered("cat")
        BY <1>1, <1>2, <2>2, <2>3, <3>5, <4>2 DEF Hopeless, rev_end
      <4> QED
        BY <2>1, <4>3, <4>4
    <3> QED
      BY <3>3, <3>4, <3>5
  <2> QED
    BY <2>4, <2>5, <2>6
<1>3. CASE sys = "git"
  <2> DEFINE file == git_GetBaseFile(c)
             base == CASE c.what = "renamed" -> IF c.local \/ Unanswered("cat") THEN "exit" ELSE "old"
                       [] git_status(c) = "A" -> "empty"
                       [] OTHER               -> git_GetFileContent(c, "old")
             new  == IF c.kind = "image" /\ git_hashes(c).after THEN git_GetFileContent(c, "new") ELSE "None"
  <2>1. GetBaseFile(sys, c) = file
    BY <1>3 DEF GetBaseFile
  <2>2. /\ git_hashes(c).before <=> c.what \notin {"renamed", "attributes", "added"}
        /\ git_hashes(c).after <=> c.what \notin {"renamed", "attributes", "deleted"}
    BY <1>1 DEF git_hashes, Whats
  <2>3. git_status(c) = "A" <=> c.what \in {"attributes", "added"}
    <3>1. CASE c.what \in {"renamed", "moved"}
      BY <3>1 DEF git_status
    <3>2. CASE c.what \in {"attributes", "added"}
      BY <2>2, <3>2 DEF git_status
    <3>3. CASE c.what \in {"modified", "deleted", "replaced", "readded"}
      BY <2>2, <3>3 DEF git_status
    <3> QED
      BY <1>1, <3>1, <3>2, <3>3 DEF Whats
  <2>4. base = IF c.what = "renamed" THEN IF c.local \/ Unanswered("cat") THEN "exit" ELSE "old"
               ELSE IF c.what \in {"attributes", "added"} THEN "empty"
               ELSE IF Unanswered("cat") THEN "exit" ELSE "old"
    BY <2>3 DEF git_GetFileContent
  <2>5. new = "exit" <=> c.kind = "image" /\ git_hashes(c).after /\ (c.local \/ Unanswered("cat"))
    BY DEF git_GetFileContent
  <2>6. file.base = IF "exit" \in {base, new} THEN "exit" ELSE base
    <3>1. file = IF "exit" \in {base, new} THEN Exit ELSE File(base, new, FALSE, git_status(c))
      BY DEF git_GetBaseFile
    <3> HIDE DEF file, base, new
    <3> QED
      BY <1>0, <3>1 DEF File
  <2> HIDE DEF file, base, new
  <2>7. file.base \in {"exit", "IOError"} \/ file.base = (IF c.what = "added" THEN "empty" ELSE "old")
        \/ c.what = "attributes"
    BY <2>4, <2>6
  <2>8. file.base \in {"exit", "IOError"} =>
          \/ c.local /\ (c.what = "renamed" \/ (c.kind = "image" /\ git_hashes(c).after))
          \/ Unanswered("cat")
    BY <2>4, <2>5, <2>6
  <2>9. c.what # "readded"
    BY <1>3 DEF Shown
  <2> QED
    BY <1>3, <2>1, <2>7, <2>8, <2>9 DEF OldSideRight, Hopeless
<1>4. CASE sys = "hg"
  <2> DEFINE file == hg_GetBaseFile(c)
  <2>1. GetBaseFile(sys, c) = file
    BY <1>4 DEF GetBaseFile
  <2>2. file.base = IF Unanswered("cat") THEN "exit" ELSE IF c.what = "added" THEN "empty" ELSE "old"
    <3> DEFINE st   == CASE c.what = "added"   -> "A"
                         [] c.what = "deleted" -> "R"
                         [] OTHER              -> "M"
               new  == IF st # "R" /\ c.kind = "image" THEN "new" ELSE "None"
               base == IF st = "A" THEN "empty" ELSE "old"
    <3>1. file = IF Unanswered("cat") THEN Exit ELSE File(base, new, c.kind # "text", st)
      BY DEF hg_GetBaseFile
    <3>2. base = IF c.what = "added" THEN "empty" ELSE "old"
      BY <1>1 DEF Whats
    <3> HIDE DEF file, st, new, base
    <3> QED
      BY <1>0, <3>1, <3>2 DEF File
  <2> HIDE DEF file
  <2>3. c.what # "readded"
    BY <1>4 DEF Shown
  <2> QED
    BY <2>1, <2>2, <2>3 DEF OldSideRight
<1> QED
  BY <1>2, <1>3, <1>4

-----------------------------------------------------------------------------
(***************************************************************************)
(* The state of upload.py.  Before the request that makes the issue, the   *)
(* issue is the one given with -i or none; after it there is one.  The     *)
(* parts say what is on the server when the next request is sent.          *)
(***************************************************************************)
Issue == [patches : SUBSET Patched, bases : SUBSET Patched, mailed : BOOLEAN, comments : Nat]

Early == {"unknown_files", "base_files", "whoami", "card", "upload"}
Late  == {"patches", "contents", "info", "style", "comments"}

UploadTypes ==
  /\ options \in Options
  /\ issues \in Seq(Issue)
  /\ issue \in 0..Len(issues) /\ info \in 0..Len(issues)
  /\ wanted \subseteq Patched
  /\ analysis \in BOOLEAN /\ warned \in BOOLEAN
  /\ bad \in Nat
  /\ unsaved \in BOOLEAN
  /\ next \in {"idle"} \cup Early \cup Late

Numbered ==
  /\ next \in Early => IF options.issue THEN info # 0 /\ issue = info ELSE issue = 0
  /\ next \in Late => issue # 0
  /\ next \in {"style", "comments"} => info = issue \/ unsaved

Sent ==
  /\ next = "patches" => options.large
  /\ next \in Late \ {"patches"} => Missing("patches") = {}
  /\ next \in {"info", "style", "comments"} => wanted \cap Missing("bases") = {} \/ warned

Ends ==
  /\ next # "idle" => ended = "running"
  /\ ended = "returned" => issue # 0 /\ (info = issue \/ unsaved)

UploadInv == UploadTypes /\ Numbered /\ Sent /\ Ends /\ UserCanTell

-----------------------------------------------------------------------------
(***************************************************************************)
(* An issue that is changed is still an issue, and the others are as they  *)
(* were.                                                                   *)
(***************************************************************************)
LEMMA IssueChanges ==
  ASSUME UploadTypes, NEW i \in 1..Len(issues), NEW e \in Issue
  PROVE  LET s == [issues EXCEPT ![i] = e]
         IN  s \in Seq(Issue) /\ Len(s) = Len(issues) /\ s[i] = e
<1>1. issues \in Seq(Issue)
  BY DEF UploadTypes
<1> QED
  BY ONLY <1>1, i \in 1..Len(issues), e \in Issue

(***************************************************************************)
(* The state in which the script runs first.                               *)
(***************************************************************************)
LEMMA UploadStarts ==
  ASSUME UploadInit
  PROVE  UploadInv
<1>1. options \in Options
  BY DEF UploadInit, Options
<1>2. issues \in Seq(Issue) /\ Len(issues) = 0
  BY DEF UploadInit
<1>3. /\ issue = 0 /\ info = 0 /\ wanted = {} /\ analysis \in BOOLEAN /\ warned \in BOOLEAN /\ bad = 0
      /\ unsaved \in BOOLEAN /\ next = "idle" /\ ended = "not_run"
  BY DEF UploadInit
<1>4. UploadTypes
  <2>1. wanted \subseteq Patched /\ bad \in Nat /\ next \in {"idle"} \cup Early \cup Late
    BY <1>3
  <2>2. issue \in 0..Len(issues) /\ info \in 0..Len(issues)
    BY <1>2, <1>3
  <2> QED
    BY <1>1, <1>2, <1>3, <2>1, <2>2, Zenon DEF UploadTypes
<1>5. Numbered /\ Sent /\ Ends /\ UserCanTell
  BY <1>2, <1>3 DEF Numbered, Sent, Ends, UserCanTell, IssueKnown, CompleteOrWarned, Early, Late
<1> QED
  BY <1>4, <1>5 DEF UploadInv

(***************************************************************************)
(* A run begins, is given up, or goes on without a request.                *)
(***************************************************************************)
LEMMA RunKeeps ==
  ASSUME UploadInv, RealMain \/ aborted \/ CheckForUnknownFiles \/ GetBaseFiles
  PROVE  UploadInv'
<1> USE DEF UploadInv, Early, Late, Continue, End, Given, Missing, Told, server, traces
<1>1. CASE RealMain
  <2>1. UploadTypes'
    <3>1. /\ options' \in Options /\ issues' = issues /\ info' = info /\ wanted' = {}
          /\ analysis' = analysis /\ warned' = FALSE /\ bad' = bad /\ next' = "unknown_files"
          /\ issue' \in {info, 0} /\ unsaved' = FALSE
      BY <1>1 DEF RealMain
    <3>2. issue' \in 0..Len(issues) /\ info' \in 0..Len(issues)
      BY <3>1 DEF UploadTypes
    <3>3. wanted' \subseteq Patched /\ next' \in {"idle"} \cup Early \cup Late
      BY <3>1
    <3> QED
      BY <3>1, <3>2, <3>3 DEF UploadTypes
  <2>2. Numbered' /\ Sent' /\ Ends' /\ UserCanTell'
    BY <1>1 DEF RealMain, UploadTypes, Numbered, Sent, Ends, UserCanTell, IssueKnown, CompleteOrWarned
  <2> QED
    BY <2>1, <2>2
<1>2. CASE aborted \/ CheckForUnknownFiles
  <2>1. UploadTypes'
    BY <1>2 DEF aborted, CheckForUnknownFiles, UploadTypes
  <2>2. Numbered' /\ Sent' /\ Ends' /\ UserCanTell'
    BY <1>2 DEF aborted, CheckForUnknownFiles, UploadTypes, Numbered, Sent, Ends, UserCanTell, IssueKnown,
          CompleteOrWarned
  <2> QED
    BY <2>1, <2>2
<1>3. CASE GetBaseFiles
  <2>1. UploadTypes'
    BY <1>3 DEF GetBaseFiles, UploadTypes
  <2>2. Numbered' /\ Sent' /\ Ends' /\ UserCanTell'
    BY <1>3 DEF GetBaseFiles, UploadTypes, Numbered, Sent, Ends, UserCanTell, IssueKnown, CompleteOrWarned
  <2> QED
    BY <2>1, <2>2
<1> QED
  BY <1>1, <1>2, <1>3

(***************************************************************************)
(* A request that gets no good answer: the run ends, or goes on without    *)
(* the base files and with a warning.                                      *)
(***************************************************************************)
LEMMA LeaveKeeps ==
  ASSUME UploadInv, NEW how \in {"refused", "failed", "login_failed", "no_answer"},
         next \in Sends, Leave(how), next = "patches" => how \in {"failed", "login_failed"},
         UNCHANGED <<options, wanted, issue, info, analysis, issues, told, unsaved>>, bad' \in Nat
  PROVE  UploadInv'
<1> USE DEF UploadInv, Early, Late, Sends, Leave, Continue, End, Missing, Told
<1>1. UploadTypes'
  BY DEF UploadTypes
<1>2. Numbered' /\ Sent' /\ Ends'
  BY DEF Numbered, Sent, Ends
<1>3. UserCanTell'
  BY DEF UploadTypes, Numbered, Sent, Ends, UserCanTell, IssueKnown, CompleteOrWarned
<1> QED
  BY <1>1, <1>2, <1>3

LEMMA SendKeeps ==
  ASSUME UploadInv, Send_refused \/ Send_login \/ _Authenticate_wrong \/ CookieExpires \/ QueryFails
  PROVE  UploadInv'
<1> USE DEF Given, site, server, traces, Missing, Told
<1>1. bad \in Nat
  BY DEF UploadInv, UploadTypes
<1>2. CASE Send_refused
  <2>1. PICK how \in {"refused", "failed"} : Leave(how) /\ (next = "patches" => how = "failed")
    BY <1>2, Zenon DEF Send_refused
  <2>2. next \in Sends /\ bad' \in Nat /\ UNCHANGED <<options, wanted, issue, info, analysis, issues, told, unsaved>>
    BY <1>1, <1>2 DEF Send_refused, Reached, BadLuck
  <2> QED
    BY <2>1, <2>2, LeaveKeeps
<1>3. CASE Send_login /\ Leave("failed")
  BY <1>1, <1>3, LeaveKeeps DEF Send_login
<1>4. CASE _Authenticate_wrong /\ Leave("login_failed")
  <2>1. next \in Sends /\ bad' \in Nat /\ UNCHANGED <<options, wanted, issue, info, analysis, issues, told, unsaved>>
    BY <1>1, <1>4 DEF _Authenticate_wrong, BadLuck
  <2> QED
    BY <1>4, <2>1, LeaveKeeps
<1>5. CASE /\ UNCHANGED <<options, wanted, issue, info, analysis, issues, next, warned, ended, told, unsaved>>
           /\ bad' \in Nat
  BY <1>5 DEF UploadInv, UploadTypes, Numbered, Sent, Ends, UserCanTell, IssueKnown, CompleteOrWarned
<1>6. CASE CookieExpires
  BY <1>1, <1>5, <1>6 DEF CookieExpires, BadLuck
<1>9. CASE QueryFails
  BY <1>1, <1>5, <1>9 DEF QueryFails, BadLuck
<1>7. CASE Send_login
  BY <1>1, <1>3, <1>5, <1>7 DEF Send_login
<1>8. CASE _Authenticate_wrong
  <2>1. bad' \in Nat /\ UNCHANGED <<options, wanted, issue, info, analysis, issues, told, unsaved>>
    BY <1>1, <1>8 DEF _Authenticate_wrong, BadLuck
  <2>2. UNCHANGED <<next, warned, ended>> \/ Leave("login_failed")
    BY <1>8 DEF _Authenticate_wrong
  <2> QED
    BY <1>4, <1>5, <1>8, <2>1, <2>2
<1> QED
  BY <1>2, <1>6, <1>7, <1>8, <1>9

(***************************************************************************)
(* What is done without the server, and what the services of the company   *)
(* are asked.                                                              *)
(***************************************************************************)
LEMMA LocalKeeps ==
  ASSUME UploadInv,
         get_who_is_me \/ card_and_message \/ __json \/ UploadBaseFiles_end \/ writeIssueInfo \/ need_check_style
  PROVE  UploadInv'
<1> USE DEF UploadInv, Early, Late, Continue, End, Given, Missing, Told, server, traces
<1>1. CASE get_who_is_me \/ card_and_message
  <2>1. UploadTypes'
    BY <1>1 DEF get_who_is_me, card_and_message, UploadTypes
  <2>2. Numbered' /\ Sent' /\ Ends' /\ UserCanTell'
    BY <1>1 DEF get_who_is_me, card_and_message, Reached, Numbered, Sent, Ends, UserCanTell, IssueKnown,
          CompleteOrWarned
  <2> QED
    BY <2>1, <2>2
<1>2. CASE __json
  <2>1. UploadTypes'
    BY <1>2 DEF __json, BadLuck, UploadTypes
  <2>2. Numbered' /\ Sent' /\ Ends' /\ UserCanTell'
    BY <1>2 DEF __json, APIs, UploadTypes, Numbered, Sent, Ends, UserCanTell, IssueKnown, CompleteOrWarned
  <2> QED
    BY <2>1, <2>2
<1>3. CASE UploadBaseFiles_end
  <2>1. UploadTypes'
    BY <1>3 DEF UploadBaseFiles_end, UploadTypes
  <2>2. Numbered' /\ Sent' /\ Ends' /\ UserCanTell'
    BY <1>3 DEF UploadBaseFiles_end, Numbered, Sent, Ends, UserCanTell, IssueKnown, CompleteOrWarned
  <2> QED
    BY <2>1, <2>2
<1>4. CASE writeIssueInfo
  <2>1. UploadTypes'
    <3>1. /\ UNCHANGED <<options, issues, issue, wanted, analysis, warned>> /\ next' = "style"
          /\ info' \in {issue, info, 0}
      BY <1>4 DEF writeIssueInfo
    <3>2. bad' = bad \/ bad' = bad + 1
      BY <1>4 DEF writeIssueInfo, BadLuck
    <3>3. unsaved' = unsaved \/ unsaved' = TRUE
      BY <1>4 DEF writeIssueInfo
    <3>4. bad' \in Nat
      BY <3>2 DEF UploadTypes
    <3>5. unsaved' \in BOOLEAN
      BY <3>3, Zenon DEF UploadTypes
    <3> QED
      BY <3>1, <3>4, <3>5 DEF UploadTypes
  <2>2. Numbered' /\ Sent' /\ Ends' /\ UserCanTell'
    BY <1>4 DEF writeIssueInfo, Numbered, Sent, Ends, UserCanTell, IssueKnown, CompleteOrWarned
  <2> QED
    BY <2>1, <2>2
<1>5. CASE need_check_style
  <2>1. UploadTypes'
    BY <1>5 DEF need_check_style, UploadTypes
  <2>2. Numbered' /\ Sent' /\ Ends' /\ UserCanTell'
    BY <1>5 DEF need_check_style, Numbered, Sent, Ends, UserCanTell, IssueKnown, CompleteOrWarned
  <2> QED
    BY <2>1, <2>2
<1> QED
  BY <1>1, <1>2, <1>3, <1>4, <1>5

(***************************************************************************)
(* The request that makes the issue or a patch set of it.                  *)
(***************************************************************************)
LEMMA UploadKeeps ==
  ASSUME UploadInv, NEW answered \in BOOLEAN, upload(answered)
  PROVE  UploadInv'
<1> DEFINE new == IF options.large THEN NewIssue ELSE [NewIssue EXCEPT !.patches = Patched]
           n   == IF options.issue THEN issue ELSE Len(issues) + 1
<1>1. UploadTypes /\ next = "upload"
  BY DEF UploadInv, upload
<1>2. new \in Issue /\ (~options.large => new.patches = Patched)
  BY DEF NewIssue, Issue
<1>3. /\ issues' \in Seq(Issue) /\ n \in 1..Len(issues') /\ Len(issues') >= Len(issues)
      /\ issues'[n].patches = new.patches
  <2>1. CASE options.issue
    <3> DEFINE e == [new EXCEPT !.comments = issues[n].comments]
    <3>1. issue \in 1..Len(issues) /\ n = issue
      BY <1>1, <2>1 DEF UploadInv, UploadTypes, Numbered, Early
    <3>2. issues[n] \in Issue
      BY <1>1, <3>1 DEF UploadTypes
    <3>3. e \in Issue /\ e.patches = new.patches
      BY <1>2, <3>2 DEF Issue
    <3>4. issues' = [issues EXCEPT ![n] = e]
      BY <2>1 DEF upload
    <3> HIDE DEF e, n
    <3> QED
      BY <1>1, <3>1, <3>3, <3>4, IssueChanges
  <2>2. CASE ~options.issue
    <3>1. issues' = Append(issues, new) /\ n = Len(issues) + 1
      BY <2>2 DEF upload
    <3>2. issues \in Seq(Issue)
      BY <1>1 DEF UploadTypes
    <3> HIDE DEF new, n
    <3> QED
      BY <1>2, <3>1, <3>2
  <2> QED
    BY <2>1, <2>2
<1>4. /\ wanted' \subseteq Patched /\ bad' \in Nat
      /\ options' = options /\ info' = info /\ analysis' = analysis /\ unsaved' = unsaved
  <2>1. wanted' \in SUBSET Patched \/ wanted' \in {Patched}
    BY Zenon DEF upload
  <2>2. bad' = bad \/ bad' = bad + 1
    BY DEF upload, BadLuck
  <2>3. options' = options /\ info' = info /\ analysis' = analysis /\ unsaved' = unsaved
    BY DEF upload, Given
  <2> QED
    BY <1>1, <2>1, <2>2, <2>3 DEF UploadTypes
<1>5. CASE answered
  <2>1. /\ issue' = n /\ warned' = warned /\ ended' = ended
        /\ next' = IF options.large THEN "patches" ELSE "contents"
    BY <1>5 DEF upload, Continue
  <2> HIDE DEF n, new
  <2>2. UploadTypes'
    <3>1. next' \in {"idle"} \cup Early \cup Late
      BY <2>1 DEF Late
    <3>2. issue' \in 0..Len(issues') /\ info' \in 0..Len(issues')
      BY <1>1, <1>3, <1>4, <2>1 DEF UploadTypes
    <3> QED
      BY <1>1, <1>3, <1>4, <2>1, <3>1, <3>2 DEF UploadTypes
  <2>3. Numbered' /\ Sent' /\ Ends' /\ UserCanTell'
    BY <1>1, <1>2, <1>3, <1>4, <2>1 DEF UploadInv, Numbered, Sent, Ends, UserCanTell, IssueKnown,
          CompleteOrWarned, Missing, Told, Early, Late
  <2> QED
    BY <2>2, <2>3 DEF UploadInv
<1>6. CASE ~answered
  <2>1. /\ issue' = issue /\ warned' = warned /\ ended' = "no_answer" /\ next' = "idle"
    BY <1>1, <1>6 DEF upload, Leave, End, Continue
  <2> HIDE DEF n, new
  <2>2. UploadTypes'
    <3>1. next' \in {"idle"} \cup Early \cup Late
      BY <2>1
    <3>2. issue' \in 0..Len(issues') /\ info' \in 0..Len(issues')
      BY <1>1, <1>3, <1>4, <2>1 DEF UploadTypes
    <3> QED
      BY <1>1, <1>3, <1>4, <2>1, <3>1, <3>2 DEF UploadTypes
  <2>3. Numbered' /\ Sent' /\ Ends' /\ UserCanTell'
    BY <1>1, <1>4, <2>1 DEF UploadInv, Numbered, Sent, Ends, UserCanTell, IssueKnown,
          CompleteOrWarned, Missing, Told, Early, Late
  <2> QED
    BY <2>2, <2>3 DEF UploadInv
<1> QED
  BY <1>5, <1>6

(***************************************************************************)
(* What changes the issue of the run and no other: a patch, a base or the  *)
(* comments.                                                               *)
(***************************************************************************)
LEMMA IssueKeeps ==
  ASSUME UploadInv,
         \/ \E f \in Patched : UploadSeparatePatches(f) \/ UploadBaseFiles(f)
         \/ UploadSeparatePatches_too_large
         \/ \E answered \in BOOLEAN : upload_comment(answered)
  PROVE  UploadInv'
<1> USE DEF Missing, Told
<1>1. UploadTypes /\ issue \in 1..Len(issues) /\ issues[issue] \in Issue
  <2>1. next \in {"patches", "contents", "comments"}
    BY DEF UploadSeparatePatches, UploadSeparatePatches_too_large, UploadBaseFiles, upload_comment
  <2> QED
    BY <2>1 DEF UploadInv, UploadTypes, Numbered, Late
<1>2. ASSUME NEW f \in Patched, UploadSeparatePatches(f)
      PROVE  UploadInv'
  <2> DEFINE e == [issues[issue] EXCEPT !.patches = @ \cup {f}]
  <2>1. e \in Issue /\ e.patches = issues[issue].patches \cup {f} /\ e.bases = issues[issue].bases
    BY <1>1 DEF Issue
  <2>2. issues' = [issues EXCEPT ![issue] = e]
    BY <1>2 DEF UploadSeparatePatches
  <2> HIDE DEF e
  <2>3. issues' \in Seq(Issue) /\ Len(issues') = Len(issues) /\ issues'[issue] = e
    BY <1>1, <2>1, <2>2, IssueChanges
  <2>4. /\ UNCHANGED <<options, wanted, issue, info, analysis, warned, ended, bad, told, unsaved>>
        /\ next = "patches" /\ next' \in {"patches", "contents"}
        /\ next' = "contents" => Missing("patches") = {f}
    BY <1>2 DEF UploadSeparatePatches, NextPatch, Given, traces, Continue
  <2>5. next' = "contents" => Missing("patches")' = {}
    BY <1>1, <2>1, <2>3, <2>4
  <2>6. UploadTypes'
    BY <1>1, <2>3, <2>4 DEF UploadTypes, Late
  <2>7. Numbered' /\ Sent' /\ Ends' /\ UserCanTell'
    <3> HIDE DEF Missing, Told
    <3> QED
      BY <1>1, <2>4, <2>5 DEF UploadInv, Numbered, Sent, Ends, UserCanTell, IssueKnown, CompleteOrWarned,
            Early, Late
  <2> QED
    BY <2>6, <2>7 DEF UploadInv
<1>5. ASSUME UploadSeparatePatches_too_large
      PROVE  UploadInv'
  <2>1. /\ UNCHANGED <<options, issues, issue, info, analysis, warned, ended, bad, unsaved>>
        /\ next = "patches" /\ next' \in {"patches", "contents"}
        /\ next' = "contents" => Missing("patches") = {"f"}
        /\ wanted' \subseteq wanted /\ told' = told \cup {<<"patches", "f">>}
    BY <1>5 DEF UploadSeparatePatches_too_large, NextPatch, traces, Continue
  <2>2. next' = "contents" => Missing("patches")' = {}
    BY <2>1
  <2>3. UploadTypes'
    BY <1>1, <2>1 DEF UploadTypes, Late
  <2>4. Numbered' /\ Sent' /\ Ends' /\ UserCanTell'
    <3> HIDE DEF Missing, Told
    <3> QED
      BY <1>1, <2>1, <2>2 DEF UploadInv, Numbered, Sent, Ends, UserCanTell, IssueKnown, CompleteOrWarned,
            Early, Late
  <2> QED
    BY <2>3, <2>4 DEF UploadInv
<1>3. ASSUME NEW f \in Patched, UploadBaseFiles(f)
      PROVE  UploadInv'
  <2>1. /\ UNCHANGED <<options, wanted, issue, info, analysis, warned, ended, bad, next, unsaved>>
        /\ next = "contents" /\ Missing("patches") = {}
    BY <1>3 DEF UploadBaseFiles, traces, UploadInv, Sent, Late
  <2>2. /\ issues' \in Seq(Issue) /\ Len(issues') = Len(issues)
        /\ issues'[issue].patches = issues[issue].patches /\ told \subseteq told'
    <3>1. CASE issues' = issues /\ told \subseteq told'
      BY <1>1, <3>1 DEF UploadTypes
    <3>2. CASE issues' = [issues EXCEPT ![issue].bases = @ \cup {f}] /\ told' = told
      <4> DEFINE e == [issues[issue] EXCEPT !.bases = @ \cup {f}]
      <4>1. e \in Issue /\ e.patches = issues[issue].patches
        BY <1>1 DEF Issue
      <4>2. issues' = [issues EXCEPT ![issue] = e]
        BY <3>2
      <4> HIDE DEF e
      <4>3. issues' \in Seq(Issue) /\ Len(issues') = Len(issues) /\ issues'[issue] = e
        BY <1>1, <4>1, <4>2, IssueChanges
      <4> QED
        BY <3>2, <4>1, <4>3
    <3> QED
      BY <1>3, <3>1, <3>2 DEF UploadBaseFiles
  <2>3. Missing("patches")' = {}
    BY <2>1, <2>2
  <2>4. UploadTypes'
    BY <1>1, <2>1, <2>2 DEF UploadTypes, Late
  <2>5. Numbered' /\ Sent' /\ Ends' /\ UserCanTell'
    <3> HIDE DEF Missing, Told
    <3> QED
      BY <1>1, <2>1, <2>2, <2>3 DEF UploadInv, Numbered, Sent, Ends, UserCanTell, IssueKnown, CompleteOrWarned,
            Early, Late
  <2> QED
    BY <2>4, <2>5 DEF UploadInv
<1>4. ASSUME NEW answered \in BOOLEAN, upload_comment(answered)
      PROVE  UploadInv'
  <2> DEFINE e == [issues[issue] EXCEPT !.comments = @ + 1]
  <2>1. e \in Issue /\ e.patches = issues[issue].patches /\ e.bases = issues[issue].bases
    BY <1>1 DEF Issue
  <2>2. issues' = [issues EXCEPT ![issue] = e]
    BY <1>4 DEF upload_comment
  <2> HIDE DEF e
  <2>3. issues' \in Seq(Issue) /\ Len(issues') = Len(issues) /\ issues'[issue] = e
    BY <1>1, <2>1, <2>2, IssueChanges
  <2>4. /\ UNCHANGED <<options, wanted, issue, info, warned, told, unsaved>>
        /\ next = "comments" /\ next' = "idle" /\ ended' \in {"returned", "api"}
    BY <1>4 DEF upload_comment, Given, End, Continue
  <2>5. bad' \in Nat /\ analysis' \in BOOLEAN
    <3>1. bad' = bad \/ bad' = bad + 1
      BY <1>4 DEF upload_comment, BadLuck
    <3>2. analysis' = analysis \/ analysis' = FALSE
      BY <1>4 DEF upload_comment
    <3>3. analysis' \in BOOLEAN
      BY <1>1, <3>2, Zenon DEF UploadTypes
    <3>4. bad' \in Nat
      BY <1>1, <3>1 DEF UploadTypes
    <3> QED
      BY <3>3, <3>4
  <2>6. UploadTypes'
    BY <1>1, <2>3, <2>4, <2>5 DEF UploadTypes
  <2>7. Numbered' /\ Sent' /\ Ends' /\ UserCanTell'
    BY <1>1, <2>1, <2>3, <2>4 DEF UploadInv, Numbered, Sent, Ends, UserCanTell, IssueKnown, CompleteOrWarned,
          Early, Late
  <2> QED
    BY <2>6, <2>7 DEF UploadInv
<1> QED
  BY <1>2, <1>3, <1>4, <1>5

LEMMA UploadInvIsInvariant == UploadSpec => []UploadInv
<1>1. UploadInv /\ [UploadNext]_uploadVars => UploadInv'
  <2> SUFFICES ASSUME UploadInv, [UploadNext]_uploadVars
               PROVE  UploadInv'
    OBVIOUS
  <2>1. CASE UNCHANGED uploadVars
    BY <2>1 DEF uploadVars, UploadInv, UploadTypes, Numbered, Sent, Ends, UserCanTell, IssueKnown,
          CompleteOrWarned, Missing, Told
  <2>2. CASE UploadNext
    BY <2>2, RunKeeps, SendKeeps, LocalKeeps, UploadKeeps, IssueKeeps, Zenon DEF UploadNext, UploadSteps
  <2> QED
    BY <2>1, <2>2
<1> QED
  BY <1>1, UploadStarts, PTL DEF UploadSpec

(***************************************************************************)
(* The user can tell from the end of a run of upload.py what has reached   *)
(* the server: issue.info has the number of every issue but those that     *)
(* separate patches, a lost answer or a failed write leave behind, and a   *)
(* run that says nothing has sent every patch and every base that was      *)
(* wanted, or has said of those it left out that they are too large.       *)
(***************************************************************************)
THEOREM UserCanTellHolds == ScriptsSpec => []UserCanTell
<1>1. UploadInv => UserCanTell
  BY DEF UploadInv
<1> QED
  BY <1>1, UploadAlone, UploadInvIsInvariant, PTL

-----------------------------------------------------------------------------
(***************************************************************************)
(* The repository, the change and the options of the comparison stay as    *)
(* they are, and both files have changed in a way the system shows.        *)
(***************************************************************************)
SiteInv ==
  /\ compare \in {"working_copy", "since", "range", "urls", "full"}
  /\ vcs \in {"svn", "git", "hg"} /\ change \in Changes /\ Shown(vcs, change)
  /\ ended = "no_base_file" => \/ \E f \in Patched : Hopeless(vcs, Changed(f))
                              \/ failing \cap {"status", "propget", "cat"} # {}

LEMMA ChangedFiles ==
  ASSUME SiteInv, NEW f \in Patched
  PROVE  /\ OldSideRight(vcs, Changed(f))
         /\ Failed(GetBaseFile(vcs, Changed(f))) =>
              Hopeless(vcs, Changed(f)) \/ failing \cap {"status", "propget", "cat"} # {}
<1>1. Changed(f) \in Changes
  BY DEF SiteInv, Changed, Changes, Whats, Kinds
<1>2. Shown(vcs, Changed(f))
  BY DEF SiteInv, Changed, Shown
<1> HIDE DEF Changed
<1>3. Failed(GetBaseFile(vcs, Changed(f))) =>
        Hopeless(vcs, Changed(f)) \/ Unanswered("status") \/ Unanswered("propget") \/ Unanswered("cat")
  BY <1>1, <1>2, OldSides DEF SiteInv
<1>4. Unanswered("status") \/ Unanswered("propget") \/ Unanswered("cat") =>
        failing \cap {"status", "propget", "cat"} # {}
  BY DEF Unanswered
<1>5. OldSideRight(vcs, Changed(f))
  BY <1>1, <1>2, OldSides DEF SiteInv
<1> QED
  BY <1>3, <1>4, <1>5

LEMMA SiteStays ==
  ASSUME UploadNext
  PROVE  /\ compare' = compare /\ vcs' = vcs /\ change' = change
         /\ ended' = "no_base_file" => (ended = "no_base_file" \/ GetBaseFiles) /\ failing \subseteq failing'
<1> USE DEF Given, site, server, traces, Continue, End, Leave
<1> DEFINE Kept == /\ compare' = compare /\ vcs' = vcs /\ change' = change
                   /\ ended' = "no_base_file" => ended = "no_base_file" /\ failing \subseteq failing'
<1>1. CASE RealMain \/ aborted \/ CheckForUnknownFiles \/ GetBaseFiles
  BY <1>1 DEF RealMain, aborted, CheckForUnknownFiles, GetBaseFiles
<1>2. CASE Send_refused \/ Send_login \/ _Authenticate_wrong \/ CookieExpires \/ QueryFails
  BY <1>2 DEF Send_refused, Send_login, _Authenticate_wrong, CookieExpires, QueryFails
<1>3. CASE \/ get_who_is_me \/ card_and_message \/ __json \/ UploadBaseFiles_end \/ writeIssueInfo \/ need_check_style
           \/ UploadSeparatePatches_too_large
  BY <1>3 DEF get_who_is_me, card_and_message, __json, UploadBaseFiles_end, writeIssueInfo, need_check_style,
     UploadSeparatePatches_too_large
<1>4. ASSUME NEW answered \in BOOLEAN, upload(answered) \/ upload_comment(answered)
      PROVE  Kept
  BY <1>4 DEF upload, upload_comment
<1>5. ASSUME NEW f \in Patched, UploadSeparatePatches(f) \/ UploadBaseFiles(f)
      PROVE  Kept
  BY <1>5 DEF UploadSeparatePatches, UploadBaseFiles
<1> QED
  BY <1>1, <1>2, <1>3, <1>4, <1>5, Zenon DEF UploadNext, UploadSteps

LEMMA SiteInvIsInvariant == UploadSpec => []SiteInv
<1>1. UploadInit => SiteInv
  BY DEF UploadInit, SiteInv
<1>2. SiteInv /\ [UploadNext]_uploadVars => SiteInv'
  <2> SUFFICES ASSUME SiteInv, [UploadNext]_uploadVars
               PROVE  SiteInv'
    OBVIOUS
  <2>1. /\ compare' = compare /\ vcs' = vcs /\ change' = change
        /\ ended' = "no_base_file" => (ended = "no_base_file" \/ GetBaseFiles) /\ failing \subseteq failing'
    BY SiteStays DEF uploadVars
  <2>2. Shown(vcs, change)'
    BY <2>1 DEF SiteInv, Shown
  <2>3. \A f \in Patched : Hopeless(vcs, Changed(f)) => Hopeless(vcs, Changed(f))'
    BY <2>1 DEF Hopeless, Changed, rev_end
  <2>4. ended' = "no_base_file" => \/ \E f \in Patched : Hopeless(vcs, Changed(f))
                                   \/ failing' \cap {"status", "propget", "cat"} # {}
    <3>1. GetBaseFiles /\ ended' = "no_base_file" =>
            (\E f \in Patched : Failed(GetBaseFile(vcs, Changed(f)))) \/ ended = "no_base_file"
      BY DEF GetBaseFiles
    <3> QED
      BY <2>1, <3>1, ChangedFiles DEF SiteInv
  <2> QED
    BY <2>1, <2>2, <2>3, <2>4 DEF SiteInv
<1> QED
  BY <1>1, <1>2, PTL DEF UploadSpec

(***************************************************************************)
(* Whatever the system, the change and the queries that fail, the old side *)
(* of every file that gets to the review is the old file, except in the    *)
(* cases OldSideRight names, and the only failing query among them is the  *)
(* listing of the old revision; and only changes known to be hopeless and  *)
(* queries that fail keep a review from being made (GetBaseFile).          *)
(***************************************************************************)
THEOREM BaseIsOldHolds == ScriptsSpec => []BaseIsOld
<1>1. SiteInv => BaseIsOld
  BY ChangedFiles DEF SiteInv, BaseIsOld
<1> QED
  BY <1>1, UploadAlone, SiteInvIsInvariant, PTL

-----------------------------------------------------------------------------
(***************************************************************************)
(* The sum of the comments of all issues.  Sums(s, c) says that c is the   *)
(* function that SumOf defines by recursion.                               *)
(***************************************************************************)
SumOf(s) == LET c[n \in 0..Len(s)] == IF n = 0 THEN 0 ELSE c[n - 1] + s[n].comments
            IN  c[Len(s)]

Sums(s, c) == /\ c \in [0..Len(s) -> Nat] /\ c[0] = 0
              /\ \A n \in 1..Len(s) : c[n] = c[n - 1] + s[n].comments

LEMMA FirstExists ==
  ASSUME NEW S, S \subseteq Nat, S # {}
  PROVE  \E i \in S : \A j \in S : i <= j
<1> DEFINE R == OpToRel(<, Nat)
<1>1. \E i \in S : \A j \in S : <<j, i>> \notin R
  <2>1. IsWellFoundedOn(R, Nat)
    BY NatLessThanWellFounded
  <2> HIDE DEF R
  <2> QED
    BY <2>1, WFMin
<1>2. \A i, j \in Nat : j < i => <<j, i>> \in R
  BY DEF OpToRel
<1> HIDE DEF R
<1>3. \A i, j \in S : ~(j < i) => i <= j
  OBVIOUS
<1> QED
  BY <1>1, <1>2, <1>3

LEMMA CommentsCount ==
  ASSUME NEW s \in Seq(Issue), NEW n \in 1..Len(s)
  PROVE  s[n].comments \in Nat
<1>1. s[n] \in Issue
  OBVIOUS
<1> QED
  BY <1>1 DEF Issue

(***************************************************************************)
(* The recursion has a solution, by the least length without one.          *)
(***************************************************************************)
LEMMA SumExists ==
  ASSUME NEW s \in Seq(Issue)
  PROVE  \E c : Sums(s, c) /\ SumOf(s) = c[Len(s)]
<1> DEFINE To(c, m) == /\ c \in [0..m -> Nat] /\ c[0] = 0
                       /\ \A n \in 1..m : c[n] = c[n - 1] + s[n].comments
           Lacking == {m \in 0..Len(s) : ~ \E c : To(c, m)}
<1>1. \A n \in 1..Len(s) : s[n].comments \in Nat
  BY CommentsCount
<1>2. Len(s) \in Nat
  OBVIOUS
<1>3. Lacking = {}
  <2> SUFFICES ASSUME Lacking # {}
               PROVE  FALSE
    OBVIOUS
  <2>1. PICK m \in Lacking : \A j \in Lacking : m <= j
    <3>1. Lacking \subseteq Nat
      BY <1>2
    <3> HIDE DEF Lacking
    <3> QED
      BY <3>1, FirstExists
  <2>2. m \in 0..Len(s) /\ ~ \E c : To(c, m)
    OBVIOUS
  <2>3. m # 0
    <3>1. To([n \in 0..0 |-> 0], 0)
      OBVIOUS
    <3> QED
      BY <2>2, <3>1
  <2>4. m - 1 \in 0..Len(s) /\ m - 1 \notin Lacking
    <3>1. m - 1 \in 0..Len(s) /\ ~(m <= m - 1)
      BY <1>2, <2>2, <2>3
    <3> HIDE DEF Lacking
    <3> QED
      BY <2>1, <3>1
  <2>5. PICK c : To(c, m - 1)
    BY <2>4
  <2> DEFINE d == [n \in 0..m |-> IF n = m THEN c[m - 1] + s[m].comments ELSE c[n]]
  <2>6. m \in 1..Len(s) /\ m \in Nat /\ m - 1 \in Nat
    BY <1>2, <2>2, <2>3
  <2>7. c[m - 1] + s[m].comments \in Nat
    BY <1>1, <2>5, <2>6
  <2>8. d \in [0..m -> Nat]
    BY <2>5, <2>6, <2>7
  <2>9. d[0] = 0
    BY <2>5, <2>6
  <2>10. ASSUME NEW n \in 1..m
         PROVE  d[n] = d[n - 1] + s[n].comments
    <3>1. CASE n = m
      BY <2>6, <3>1
    <3>2. CASE n # m
      BY <2>5, <2>6, <3>2
    <3> QED
      BY <3>1, <3>2
  <2>11. To(d, m)
    BY <2>8, <2>9, <2>10
  <2> QED
    BY <2>2, <2>11
<1> DEFINE Rec(c) == c = [n \in 0..Len(s) |-> IF n = 0 THEN 0 ELSE c[n - 1] + s[n].comments]
           solution == CHOOSE c : Rec(c)
<1>4. \E c : Rec(c)
  <2>1. PICK c : To(c, Len(s))
    BY <1>2, <1>3
  <2>2. c = [n \in 0..Len(s) |-> c[n]] /\ \A n \in 0..Len(s) : c[n] = IF n = 0 THEN 0 ELSE c[n - 1] + s[n].comments
    BY <1>2, <2>1
  <2>3. Rec(c)
    BY <2>2
  <2> QED
    BY <2>3
<1>5. Rec(solution)
  <2> HIDE DEF Rec
  <2> QED
    BY <1>4
<1>6. SumOf(s) = solution[Len(s)]
  BY DEF SumOf
<1> HIDE DEF solution
<1>7. \A n \in 0..Len(s) : solution[n] = IF n = 0 THEN 0 ELSE solution[n - 1] + s[n].comments
  BY <1>5
<1>8. PICK c : To(c, Len(s))
  BY <1>2, <1>3
<1> DEFINE Apart == {n \in 0..Len(s) : solution[n] # c[n]}
<1>9. Apart = {}
  <2> SUFFICES ASSUME Apart # {}
               PROVE  FALSE
    OBVIOUS
  <2>1. PICK m \in Apart : \A j \in Apart : m <= j
    <3>1. Apart \subseteq Nat
      BY <1>2
    <3> HIDE DEF Apart
    <3> QED
      BY <3>1, FirstExists
  <2>2. m \in 0..Len(s) /\ solution[m] # c[m]
    OBVIOUS
  <2>3. m # 0
    BY <1>2, <1>7, <1>8, <2>2
  <2>4. m - 1 \in 0..Len(s) /\ m - 1 \notin Apart /\ m \in 1..Len(s)
    BY <1>2, <2>1, <2>2, <2>3
  <2>5. solution[m - 1] = c[m - 1]
    BY <2>4
  <2> QED
    BY <1>7, <1>8, <2>2, <2>3, <2>4, <2>5
<1>10. SumOf(s) = c[Len(s)]
  BY <1>2, <1>6, <1>9
<1>11. Sums(s, c)
  BY <1>8 DEF Sums
<1> QED
  BY <1>10, <1>11

(***************************************************************************)
(* More: t has the comments of s, but b more in place i.  Ahead: then the  *)
(* sums differ by b from there on.                                         *)
(***************************************************************************)
More(s, t, i, b) ==
  /\ Len(s) <= Len(t) /\ i \in Nat \ {0} /\ b \in Nat
  /\ \A n \in 1..Len(s) : t[n].comments = s[n].comments + (IF n = i THEN b ELSE 0)

Ahead(s, c, d, i, b) == \A n \in 0..Len(s) : d[n] = c[n] + (IF n >= i THEN b ELSE 0)

LEMMA SumsDiffer ==
  ASSUME NEW s \in Seq(Issue), NEW t \in Seq(Issue), NEW c, Sums(s, c), NEW d, Sums(t, d),
         NEW i, NEW b, More(s, t, i, b)
  PROVE  Ahead(s, c, d, i, b)
<1> DEFINE Apart == {n \in 0..Len(s) : d[n] # c[n] + (IF n >= i THEN b ELSE 0)}
<1>1. Len(s) \in Nat /\ Len(t) \in Nat /\ Len(s) <= Len(t) /\ i \in Nat /\ i > 0 /\ b \in Nat
  BY DEF More
<1>2. Apart = {}
  <2> SUFFICES ASSUME Apart # {}
               PROVE  FALSE
    OBVIOUS
  <2>1. PICK m \in Apart : \A j \in Apart : m <= j
    <3>1. Apart \subseteq Nat
      BY <1>1
    <3> HIDE DEF Apart
    <3> QED
      BY <3>1, FirstExists
  <2>2. m \in 0..Len(s) /\ d[m] # c[m] + (IF m >= i THEN b ELSE 0)
    OBVIOUS
  <2>3. m # 0
    BY <1>1, <2>2 DEF Sums
  <2>4. m - 1 \in 0..Len(s) /\ m - 1 \notin Apart /\ m \in 1..Len(s) /\ m \in 1..Len(t)
    BY <1>1, <2>1, <2>2, <2>3
  <2>5. d[m - 1] = c[m - 1] + (IF m - 1 >= i THEN b ELSE 0)
    BY <2>4
  <2>6. c[m] = c[m - 1] + s[m].comments /\ d[m] = d[m - 1] + t[m].comments /\ c[m - 1] \in Nat
    BY <1>1, <2>4 DEF Sums
  <2>7. s[m].comments \in Nat /\ t[m].comments = s[m].comments + (IF m = i THEN b ELSE 0)
    BY <2>4, CommentsCount DEF More
  <2> HIDE DEF Apart
  <2> QED
    BY <1>1, <2>2, <2>4, <2>5, <2>6, <2>7
<1> QED
  BY <1>2 DEF Ahead

LEMMA SumGrows ==
  ASSUME NEW s \in Seq(Issue), NEW t \in Seq(Issue), Len(t) = Len(s), NEW i \in 1..Len(s), NEW b,
         More(s, t, i, b)
  PROVE  SumOf(s) \in Nat /\ SumOf(t) = SumOf(s) + b
<1>1. PICK c : Sums(s, c) /\ SumOf(s) = c[Len(s)]
  BY SumExists
<1>2. PICK d : Sums(t, d) /\ SumOf(t) = d[Len(t)]
  BY SumExists
<1>3. Len(s) \in Nat /\ Len(s) \in 0..Len(s) /\ Len(s) >= i
  OBVIOUS
<1>4. Ahead(s, c, d, i, b)
  BY <1>1, <1>2, SumsDiffer, Zenon
<1> QED
  BY <1>1, <1>2, <1>3, <1>4 DEF Sums, Ahead, More

LEMMA SumAppended ==
  ASSUME NEW s \in Seq(Issue), NEW e \in Issue, e.comments = 0
  PROVE  SumOf(Append(s, e)) = SumOf(s)
<1> DEFINE t == Append(s, e)
<1>1. /\ t \in Seq(Issue) /\ Len(t) = Len(s) + 1 /\ Len(s) \in Nat /\ t[Len(t)] = e
      /\ \A n \in 1..Len(s) : t[n] = s[n]
  OBVIOUS
<1> HIDE DEF t
<1>2. PICK c : Sums(s, c) /\ SumOf(s) = c[Len(s)]
  BY SumExists
<1>3. PICK d : Sums(t, d) /\ SumOf(t) = d[Len(t)]
  BY <1>1, SumExists
<1>4. More(s, t, 1, 0)
  BY <1>1, CommentsCount DEF More
<1>5. Ahead(s, c, d, 1, 0)
  BY <1>1, <1>2, <1>3, <1>4, SumsDiffer, Zenon
<1>6. d[Len(s)] = c[Len(s)]
  BY <1>1, <1>2, <1>5 DEF Sums, Ahead
<1>7. d[Len(t)] = d[Len(s)] + e.comments /\ d[Len(s)] \in Nat
  BY <1>1, <1>3 DEF Sums
<1>8. SumOf(t) = SumOf(s)
  BY <1>2, <1>3, <1>6, <1>7
<1> QED
  BY <1>8 DEF t

LEMMA SumOfNone == SumOf(<<>>) = 0
<1>1. PICK c : Sums(<<>>, c) /\ SumOf(<<>>) = c[Len(<<>>)]
  <2>1. <<>> \in Seq(Issue)
    OBVIOUS
  <2> QED
    BY <2>1, SumExists
<1> QED
  BY <1>1 DEF Sums

(***************************************************************************)
(* The comments that are on the server: none that was not told about,      *)
(* unless its answer was lost.                                             *)
(***************************************************************************)
CommentsInv ==
  /\ SumOf(issues) \in Nat
  /\ analysis => SumOf(issues) <= bad
  /\ ~analysis => SumOf(issues) > 0 /\ SumOf(issues) <= 1 + bad
  /\ next = "comments" => analysis

\* a step that posts nothing
LEMMA NothingPosted ==
  ASSUME CommentsInv, bad \in Nat, SumOf(issues') = SumOf(issues), analysis' = analysis,
         bad' \in {bad, bad + 1}, next' = "comments" => analysis
  PROVE  CommentsInv'
  BY DEF CommentsInv

LEMMA QuietSteps ==
  ASSUME UploadInv, UploadNext, \A answered \in BOOLEAN : ~upload_comment(answered)
  PROVE  /\ SumOf(issues') = SumOf(issues) /\ analysis' = analysis /\ bad' \in {bad, bad + 1}
         /\ next' = "comments" => analysis \/ next = "comments"
<1> USE DEF Given, site, server, traces, Continue, End, Leave
<1>1. CASE RealMain \/ aborted \/ CheckForUnknownFiles \/ GetBaseFiles
  BY <1>1 DEF RealMain, aborted, CheckForUnknownFiles, GetBaseFiles
<1>2. CASE Send_refused \/ Send_login \/ _Authenticate_wrong \/ CookieExpires \/ QueryFails
  BY <1>2 DEF Send_refused, Send_login, _Authenticate_wrong, CookieExpires, QueryFails, BadLuck
<1>3. CASE \/ get_who_is_me \/ card_and_message \/ __json \/ UploadBaseFiles_end \/ writeIssueInfo \/ need_check_style
           \/ UploadSeparatePatches_too_large
  BY <1>3 DEF get_who_is_me, card_and_message, __json, UploadBaseFiles_end, writeIssueInfo, need_check_style,
        UploadSeparatePatches_too_large, NextPatch, BadLuck
<1>4. issues \in Seq(Issue)
  BY DEF UploadInv, UploadTypes
<1>5. ASSUME NEW answered \in BOOLEAN, upload(answered)
      PROVE  /\ SumOf(issues') = SumOf(issues) /\ analysis' = analysis /\ bad' \in {bad, bad + 1}
             /\ next' # "comments"
  <2>1. analysis' = analysis /\ bad' \in {bad, bad + 1} /\ next' # "comments"
    BY <1>5 DEF upload, BadLuck
  <2> DEFINE new == IF options.large THEN NewIssue ELSE [NewIssue EXCEPT !.patches = Patched]
  <2>2. new \in Issue /\ new.comments = 0
    BY DEF NewIssue, Issue
  <2>3. CASE options.issue
    <3> DEFINE e == [new EXCEPT !.comments = issues[issue].comments]
    <3>1. issue \in 1..Len(issues)
      BY <1>5, <2>3 DEF upload, UploadInv, UploadTypes, Numbered, Early
    <3>2. issues[issue] \in Issue
      BY <1>4, <3>1
    <3>3. e \in Issue /\ e.comments = issues[issue].comments + 0
      BY <2>2, <3>2 DEF Issue
    <3>4. issues' = [issues EXCEPT ![issue] = e]
      BY <1>5, <2>3 DEF upload
    <3> HIDE DEF e
    <3>5. issues' \in Seq(Issue) /\ Len(issues') = Len(issues) /\ issues'[issue] = e
      BY <3>1, <3>3, <3>4, IssueChanges DEF UploadInv
    <3>6. More(issues, issues', issue, 0)
      <4>1. \A n \in 1..Len(issues) : n # issue => issues'[n] = issues[n]
        BY <1>4, <3>4
      <4>2. \A n \in 1..Len(issues) : issues[n].comments \in Nat
        BY <1>4, CommentsCount
      <4> QED
        BY <1>4, <3>1, <3>3, <3>5, <4>1, <4>2 DEF More
    <3>7. SumOf(issues) \in Nat /\ SumOf(issues') = SumOf(issues) + 0
      BY <1>4, <3>1, <3>5, <3>6, SumGrows, Zenon
    <3>8. SumOf(issues') = SumOf(issues)
      BY <3>7
    <3> QED
      BY <2>1, <3>8
  <2>4. CASE ~options.issue
    <3>1. issues' = Append(issues, new)
      BY <1>5, <2>4 DEF upload
    <3> HIDE DEF new
    <3> QED
      BY <1>4, <2>1, <2>2, <3>1, SumAppended
  <2> QED
    BY <2>3, <2>4
<1>6. ASSUME NEW f \in Patched, UploadSeparatePatches(f) \/ UploadBaseFiles(f)
      PROVE  /\ SumOf(issues') = SumOf(issues) /\ analysis' = analysis /\ bad' \in {bad, bad + 1}
             /\ next' # "comments"
  <2>1. analysis' = analysis /\ bad' = bad /\ next' # "comments"
    BY <1>6 DEF UploadSeparatePatches, NextPatch, UploadBaseFiles
  <2>2. issue \in 1..Len(issues)
    BY <1>6 DEF UploadInv, UploadTypes, Numbered, Late, UploadSeparatePatches, UploadBaseFiles
  <2>3. issues[issue] \in Issue
    BY <1>4, <2>2
  <2>4. PICK e \in Issue : issues' = [issues EXCEPT ![issue] = e] /\ e.comments = issues[issue].comments
    <3>1. CASE UploadSeparatePatches(f)
      <4>1. issues' = [issues EXCEPT ![issue] = [issues[issue] EXCEPT !.patches = @ \cup {f}]]
        BY <3>1 DEF UploadSeparatePatches
      <4>2. [issues[issue] EXCEPT !.patches = @ \cup {f}] \in Issue
        BY <2>3 DEF Issue
      <4>3. [issues[issue] EXCEPT !.patches = @ \cup {f}].comments = issues[issue].comments
        BY <2>3 DEF Issue
      <4> QED
        BY <4>1, <4>2, <4>3
    <3>2. CASE UploadBaseFiles(f) /\ issues' = issues
      <4>1. issues' = [issues EXCEPT ![issue] = issues[issue]]
        BY <1>4, <3>2
      <4> QED
        BY <2>3, <4>1
    <3>3. CASE UploadBaseFiles(f) /\ issues' # issues
      <4>1. issues' = [issues EXCEPT ![issue] = [issues[issue] EXCEPT !.bases = @ \cup {f}]]
        BY <3>3 DEF UploadBaseFiles
      <4>2. [issues[issue] EXCEPT !.bases = @ \cup {f}] \in Issue
        BY <2>3 DEF Issue
      <4>3. [issues[issue] EXCEPT !.bases = @ \cup {f}].comments = issues[issue].comments
        BY <2>3 DEF Issue
      <4> QED
        BY <4>1, <4>2, <4>3
    <3> QED
      BY <1>6, <3>1, <3>2, <3>3
  <2>5. issues' \in Seq(Issue) /\ Len(issues') = Len(issues) /\ issues'[issue] = e
    BY <2>2, <2>4, IssueChanges DEF UploadInv
  <2>6. More(issues, issues', issue, 0)
    <3>1. \A n \in 1..Len(issues) : n # issue => issues'[n] = issues[n]
      BY <1>4, <2>4
    <3>2. \A n \in 1..Len(issues) : issues[n].comments \in Nat
      BY <1>4, CommentsCount
    <3> QED
      BY <1>4, <2>2, <2>4, <2>5, <3>1, <3>2 DEF More
  <2>7. SumOf(issues) \in Nat /\ SumOf(issues') = SumOf(issues) + 0
    BY <1>4, <2>2, <2>5, <2>6, SumGrows, Zenon
  <2>8. SumOf(issues') = SumOf(issues)
    BY <2>7
  <2> QED
    BY <2>1, <2>8
<1> QED
  BY <1>1, <1>2, <1>3, <1>5, <1>6, Zenon DEF UploadNext, UploadSteps

(***************************************************************************)
(* The results of a checker become comments of the issue.                  *)
(***************************************************************************)
LEMMA CommentPosted ==
  ASSUME UploadInv, CommentsInv, NEW answered \in BOOLEAN, upload_comment(answered)
  PROVE  CommentsInv'
<1> DEFINE e == [issues[issue] EXCEPT !.comments = @ + 1]
<1>1. issues \in Seq(Issue) /\ bad \in Nat
  BY DEF UploadInv, UploadTypes
<1>2. issue \in 1..Len(issues)
  BY DEF UploadInv, UploadTypes, Numbered, Late, upload_comment
<1>3. issues[issue] \in Issue
  BY <1>1, <1>2
<1>4. e \in Issue /\ e.comments = issues[issue].comments + 1
  BY <1>3 DEF Issue
<1>5. issues' = [issues EXCEPT ![issue] = e]
  BY DEF upload_comment
<1> HIDE DEF e
<1>6. issues' \in Seq(Issue) /\ Len(issues') = Len(issues) /\ issues'[issue] = e
  BY <1>2, <1>4, <1>5, IssueChanges DEF UploadInv
<1>7. More(issues, issues', issue, 1)
  <2>1. \A n \in 1..Len(issues) : n # issue => issues'[n] = issues[n]
    BY <1>1, <1>5
  <2>2. \A n \in 1..Len(issues) : issues[n].comments \in Nat
    BY <1>1, CommentsCount
  <2> QED
    BY <1>1, <1>2, <1>4, <1>6, <2>1, <2>2 DEF More
<1>8. SumOf(issues) \in Nat /\ SumOf(issues') = SumOf(issues) + 1
  BY <1>1, <1>2, <1>6, <1>7, SumGrows, Zenon
<1>9. analysis /\ next' # "comments"
  BY DEF CommentsInv, upload_comment, End, Continue
<1>10. (analysis' = FALSE /\ bad' = bad) \/ (analysis' = analysis /\ bad' = bad + 1)
  BY DEF upload_comment, BadLuck
<1>11. SumOf(issues) <= bad
  BY <1>9 DEF CommentsInv
<1>12. SumOf(issues') \in Nat /\ SumOf(issues') > 0 /\ SumOf(issues') <= 1 + bad
  BY <1>1, <1>8, <1>11
<1>13. CASE analysis' = FALSE /\ bad' = bad
  BY <1>9, <1>12, <1>13 DEF CommentsInv
<1>14. CASE analysis' = analysis /\ bad' = bad + 1
  <2>1. SumOf(issues') <= bad'
    BY <1>1, <1>12, <1>14
  <2> QED
    BY <1>9, <1>12, <1>14, <2>1 DEF CommentsInv
<1> QED
  BY <1>10, <1>13, <1>14

LEMMA CommentsInvIsInvariant == UploadSpec => []CommentsInv
<1>1. UploadInit => CommentsInv
  BY SumOfNone DEF UploadInit, CommentsInv
<1>2. UploadInv /\ CommentsInv /\ [UploadNext]_uploadVars => CommentsInv'
  <2> SUFFICES ASSUME UploadInv, CommentsInv, [UploadNext]_uploadVars
               PROVE  CommentsInv'
    OBVIOUS
  <2>1. bad \in Nat
    BY DEF UploadInv, UploadTypes
  <2>2. CASE UNCHANGED uploadVars
    BY <2>2 DEF uploadVars, CommentsInv
  <2>3. CASE UploadNext /\ \A answered \in BOOLEAN : ~upload_comment(answered)
    BY <2>1, <2>3, QuietSteps, NothingPosted DEF CommentsInv
  <2>4. CASE \E answered \in BOOLEAN : upload_comment(answered)
    BY <2>4, CommentPosted
  <2> QED
    BY <2>2, <2>3, <2>4
<1> QED
  BY <1>1, <1>2, UploadInvIsInvariant, PTL DEF UploadSpec

(***************************************************************************)
(* The results of a checker are thrown away when they are comments, and    *)
(* are comments a second time only after an answer was lost or they could  *)
(* not be removed (UploadCommentHelper).                                   *)
(***************************************************************************)
THEOREM CommentsOnceHolds == ScriptsSpec => []CommentsOnce
<1>1. UploadInv /\ CommentsInv => CommentsOnce
  <2>1. Posted = SumOf(issues)
    BY DEF Posted, SumOf
  <2> QED
    BY <2>1 DEF CommentsOnce, CommentsInv, UploadInv, UploadTypes
<1> QED
  BY <1>1, UploadAlone, UploadInvIsInvariant, CommentsInvIsInvariant, PTL

-----------------------------------------------------------------------------
(***************************************************************************)
(* The card setup alone.                                                   *)
(***************************************************************************)
CardNext == CardSteps \/ Restart
CardSpec == CardInit /\ [][CardNext]_cardVars

LEMMA CardAlone == ScriptsSpec => CardSpec
<1>1. ScriptsInit => CardInit
  BY DEF ScriptsInit, CardIdle
<1>2. [ProgramSteps \/ OtherSteps]_scriptsVars => [CardNext]_cardVars
  <2>1. CASE Cloud((Script /\ UNCHANGED mulVars) \/ testcase_vm_mul_create_delete)
    BY <2>1 DEF Cloud
  <2>2. CASE Cloud((TokenExpires \/ Settles) /\ UNCHANGED mulVars)
    BY <2>2 DEF Cloud
  <2>3. CASE Compute(ComputeSteps) \/ Compute(NovaSteps)
    BY <2>3 DEF Compute
  <2>4. CASE Upload(UploadSteps) \/ Upload(CookieExpires \/ QueryFails)
    BY <2>4 DEF Upload
  <2>5. CASE Card(Commands) \/ Card(Restart \/ \E o \in DOMAIN opCall : rpcCall(o))
    BY <2>5 DEF Card, CardNext, CardSteps
  <2>6. CASE UNCHANGED scriptsVars
    BY <2>6 DEF scriptsVars
  <2> QED
    BY <2>1, <2>2, <2>3, <2>4, <2>5, <2>6 DEF ProgramSteps, OtherSteps
<1> QED
  BY <1>1, <1>2, PTL DEF ScriptsSpec, CardSpec

-----------------------------------------------------------------------------
(***************************************************************************)
(* Lists of commands.  The firmware is written only behind the check that  *)
(* the table of erase counts is good, in every operation.                  *)
(***************************************************************************)
Programs == {"device", "rmmod", "install", "modprobe", "module_loaded", "insmod", "insmod_ne", "download",
             "ecinfo", "table_good", "firmware", "init_6", "table_there", "mark", "lspci", "cfg_s6",
             "v5_version", "v5", "open_newcard", "init_newcard", "rc_local", "check", "wget_kernel", "shutdown"}
Errors   == {"ignored", "ERRINSMOD", "ERRNOFILE", "ERRDOWN", "ERRGETEC", "ERRSETEC", "ERRPCI", "ERRS6",
             "ERRV5V", "ERRV5", "ERRNEWCARD", "ERRCHECK", "ERRCHK"}
Command  == [cmd : Programs, err : Errors]
TestGood == [cmd |-> "table_good", err |-> "ERRGETEC"]
Behind(cs) == \A i \in 2..Len(cs) : cs[i].cmd = "firmware" => cs[i - 1] = TestGood
Guarded(cs) == cs \in Seq(Command) /\ Behind(cs) /\ (Len(cs) > 0 => cs[1].cmd # "firmware")

LEMMA TailOf ==
  ASSUME NEW cs \in Seq(Command), cs # <<>>
  PROVE  /\ Tail(cs) \in Seq(Command) /\ Len(cs) \in Nat /\ Len(cs) > 0 /\ Len(Tail(cs)) = Len(cs) - 1
         /\ \A i \in 1..Len(cs) - 1 : Tail(cs)[i] = cs[i + 1]
         /\ Head(cs) = cs[1] /\ Head(cs) \in Command /\ Head(cs).err # "NOERR"
         /\ <<>> \o Tail(cs) = Tail(cs)
<1>1. Tail(cs) \in Seq(Command) /\ Len(cs) \in Nat /\ Len(cs) > 0 /\ Len(Tail(cs)) = Len(cs) - 1 /\ Head(cs) = cs[1]
  OBVIOUS
<1>2. \A i \in 1..Len(cs) - 1 : Tail(cs)[i] = cs[i + 1]
  OBVIOUS
<1>3. Head(cs) \in Command
  BY <1>1
<1>4. <<>> \o Tail(cs) = Tail(cs)
  BY <1>1
<1> QED
  BY <1>1, <1>2, <1>3, <1>4 DEF Command, Errors

LEMMA Joined ==
  ASSUME NEW a \in Seq(Command), NEW b \in Seq(Command)
  PROVE  /\ a \o b \in Seq(Command) /\ Len(a) \in Nat /\ Len(b) \in Nat /\ Len(a \o b) = Len(a) + Len(b)
         /\ \A i \in 1..Len(a) : (a \o b)[i] = a[i]
         /\ \A i \in 1..Len(b) : (a \o b)[Len(a) + i] = b[i]
OBVIOUS

LEMMA GuardedJoined ==
  ASSUME NEW a, Guarded(a), NEW b, Guarded(b)
  PROVE  Guarded(a \o b)
<1>1. a \in Seq(Command) /\ b \in Seq(Command)
  BY DEF Guarded
<1> DEFINE c == a \o b
<1>2. /\ c \in Seq(Command) /\ Len(a) \in Nat /\ Len(b) \in Nat /\ Len(c) = Len(a) + Len(b)
      /\ \A i \in 1..Len(a) : c[i] = a[i]
      /\ \A i \in 1..Len(b) : c[Len(a) + i] = b[i]
  BY <1>1, Joined
<1> HIDE DEF c
<1>3. \A i \in 1..Len(c) : i <= Len(a) \/ (i - Len(a) \in 1..Len(b) /\ c[i] = b[i - Len(a)])
  <2> SUFFICES ASSUME NEW i \in 1..Len(c), ~(i <= Len(a))
               PROVE  i - Len(a) \in 1..Len(b) /\ c[i] = b[i - Len(a)]
    OBVIOUS
  <2>1. i - Len(a) \in 1..Len(b) /\ i = Len(a) + (i - Len(a))
    BY <1>2
  <2> QED
    BY <1>2, <2>1
<1>4. ASSUME NEW i \in 2..Len(c), c[i].cmd = "firmware"
      PROVE  c[i - 1] = TestGood
  <2>1. CASE i <= Len(a)
    <3>1. i \in 2..Len(a) /\ c[i] = a[i] /\ c[i - 1] = a[i - 1]
      BY <1>2, <2>1
    <3> QED
      BY <1>4, <3>1 DEF Guarded, Behind
  <2>2. CASE ~(i <= Len(a))
    <3> DEFINE j == i - Len(a)
    <3>1. j \in 1..Len(b) /\ c[i] = b[j]
      BY <1>2, <1>3, <1>4, <2>2
    <3>2. b[j].cmd = "firmware"
      BY <1>4, <3>1
    <3>3. j # 1
      BY <3>1, <3>2 DEF Guarded
    <3>4. j \in 2..Len(b) /\ j - 1 \in 1..Len(b) /\ i - 1 = Len(a) + (j - 1)
      BY <1>2, <3>1, <3>3
    <3>5. c[i - 1] = b[j - 1]
      BY <1>2, <3>4
    <3> QED
      BY <3>2, <3>4, <3>5 DEF Guarded, Behind
  <2> QED
    BY <2>1, <2>2
<1>5. Len(c) > 0 => c[1].cmd # "firmware"
  <2>1. CASE Len(a) > 0
    BY <1>2, <2>1 DEF Guarded
  <2>2. CASE Len(a) = 0
    <3>1. Len(c) > 0 => 1 \in 1..Len(b) /\ c[1] = b[1]
      BY <1>2, <2>2
    <3> QED
      BY <3>1, <1>2 DEF Guarded
  <2> QED
    BY <1>2, <2>1, <2>2
<1>6. Guarded(c)
  BY <1>2, <1>4, <1>5 DEF Guarded, Behind
<1> QED
  BY <1>6 DEF c

LEMMA One ==
  ASSUME NEW c \in Programs, NEW e \in Errors
  PROVE  /\ Need(c, e) \in Seq(Command) /\ Len(Need(c, e)) = 1 /\ Need(c, e)[1] = [cmd |-> c, err |-> e]
         /\ c # "firmware" => Guarded(Need(c, e))
<1> DEFINE r == [cmd |-> c, err |-> e]
<1>1. r \in Command /\ r.cmd = c
  BY DEF Command
<1> HIDE DEF r
<1>2. <<r>> \in Seq(Command) /\ Len(<<r>>) = 1 /\ <<r>>[1] = r
  BY <1>1
<1>3. c # "firmware" => Guarded(<<r>>)
  BY <1>1, <1>2 DEF Guarded, Behind
<1> QED
  BY <1>2, <1>3 DEF Need, r

LEMMA OneDone ==
  ASSUME NEW c \in Programs
  PROVE  /\ Do(c) = Need(c, "ignored")
         /\ Do(c) \in Seq(Command) /\ Len(Do(c)) = 1 /\ Do(c)[1] = [cmd |-> c, err |-> "ignored"]
         /\ c # "firmware" => Guarded(Do(c))
<1>1. Do(c) = Need(c, "ignored")
  BY DEF Do, Need
<1>2. PICK i \in Errors : i = "ignored"
  BY DEF Errors
<1>3. /\ Need(c, i) \in Seq(Command) /\ Len(Need(c, i)) = 1 /\ Need(c, i)[1] = [cmd |-> c, err |-> i]
      /\ c # "firmware" => Guarded(Need(c, i))
  BY One, Zenon
<1> QED
  BY <1>1, <1>2, <1>3

\* the one place of the firmware
LEMMA GuardedFirmware ==
  ASSUME NEW a, Guarded(a)
  PROVE  Guarded((a \o readEc) \o Do("firmware"))
<1> DEFINE b == a \o readEc
           c == b \o Do("firmware")
<1>1. readEc \in Seq(Command) /\ Len(readEc) = 2 /\ readEc[2] = TestGood /\ Guarded(readEc)
  <2> DEFINE f == Do("ecinfo")
             g == Need("table_good", "ERRGETEC")
  <2>1. /\ f \in Seq(Command) /\ Len(f) = 1 /\ Guarded(f)
        /\ g \in Seq(Command) /\ Len(g) = 1 /\ g[1] = TestGood /\ Guarded(g)
    BY One, OneDone DEF TestGood, Programs, Errors
  <2> HIDE DEF f, g
  <2>2. Guarded(f \o g)
    BY <2>1, GuardedJoined
  <2>3. /\ f \o g \in Seq(Command) /\ Len(f \o g) = Len(f) + Len(g)
        /\ \A i \in 1..Len(g) : (f \o g)[Len(f) + i] = g[i]
    BY <2>1, Joined
  <2>4. readEc = f \o g
    BY DEF readEc, f, g
  <2>5. Len(f \o g) = 2 /\ (f \o g)[2] = TestGood
    BY <2>1, <2>3
  <2> QED
    BY <2>2, <2>3, <2>4, <2>5
<1>2. Guarded(b)
  BY <1>1, GuardedJoined
<1>3. a \in Seq(Command)
  BY DEF Guarded
<1>4. Len(b) \in Nat /\ Len(b) > 0 /\ b[Len(b)] = TestGood
  <2>1. Len(b) = Len(a) + 2 /\ Len(a) \in Nat /\ b[Len(a) + 2] = readEc[2]
    <3> DEFINE e == readEc
    <3> HIDE DEF e
    <3>1. \A i \in 1..Len(e) : e \in Seq(Command) => (a \o e)[Len(a) + i] = e[i]
      BY <1>3, Joined
    <3>2. e \in Seq(Command) => Len(a \o e) = Len(a) + Len(e) /\ Len(a) \in Nat
      BY <1>3, Joined
    <3> QED
      BY <1>1, <3>1, <3>2 DEF e
  <2> QED
    BY <1>1, <2>1
<1> DEFINE d == Do("firmware")
<1>5. d \in Seq(Command) /\ Len(d) = 1
  BY OneDone DEF Programs
<1>6. b \in Seq(Command) /\ Behind(b) /\ b[1].cmd # "firmware"
  BY <1>2, <1>4 DEF Guarded
<1> HIDE DEF b, d
<1>7. /\ c \in Seq(Command) /\ Len(c) = Len(b) + 1
      /\ \A i \in 1..Len(b) : c[i] = b[i]
  <2>1. /\ b \o d \in Seq(Command) /\ Len(b \o d) = Len(b) + Len(d)
        /\ \A i \in 1..Len(b) : (b \o d)[i] = b[i]
    BY <1>5, <1>6, Joined
  <2>2. c = b \o d
    BY DEF d
  <2> QED
    BY <1>5, <2>1, <2>2
<1> HIDE DEF c
<1>8. Behind(c)
  <2> SUFFICES ASSUME NEW i \in 2..Len(c), c[i].cmd = "firmware"
               PROVE  c[i - 1] = TestGood
    BY DEF Behind
  <2>1. CASE i <= Len(b)
    <3>1. i \in 2..Len(b) /\ c[i] = b[i] /\ c[i - 1] = b[i - 1]
      BY <1>4, <1>7, <2>1
    <3> QED
      BY <1>6, <3>1 DEF Behind
  <2>2. CASE i > Len(b)
    <3>1. i - 1 = Len(b)
      BY <1>4, <1>7, <2>2
    <3> QED
      BY <1>4, <1>7, <3>1
  <2> QED
    BY <1>4, <1>7, <2>1, <2>2
<1>9. c[1].cmd # "firmware"
  BY <1>4, <1>6, <1>7
<1>10. Guarded(c)
  BY <1>7, <1>8, <1>9 DEF Guarded
<1> QED
  BY <1>10 DEF b, c, d

LEMMA OperationsGuarded == \A o \in DOMAIN opCall : Guarded(opCall[o])
<1>1. ASSUME NEW c \in Programs \ {"firmware"}
      PROVE  Guarded(Do(c)) /\ \A e \in Errors : Guarded(Need(c, e))
  <2>1. c \in Programs /\ c # "firmware"
    BY Zenon
  <2> QED
    BY <2>1, One, OneDone, Zenon
<1>2. Guarded(<<>>)
  BY DEF Guarded, Behind
<1>3. /\ Guarded(Do("rmmod")) /\ Guarded(Do("modprobe")) /\ Guarded(Do("insmod")) /\ Guarded(Do("insmod_ne"))
      /\ Guarded(Do("open_newcard")) /\ Guarded(Do("install")) /\ Guarded(Do("rc_local")) /\ Guarded(Do("download"))
      /\ Guarded(Do("ecinfo")) /\ Guarded(Do("init_6")) /\ Guarded(Do("shutdown"))
  BY <1>1 DEF Programs
<1>4. /\ Guarded(checkDevice) /\ Guarded(downLoads) /\ Guarded(Need("install", "ERRNOFILE"))
      /\ Guarded(Need("module_loaded", "ERRINSMOD")) /\ Guarded(Need("table_good", "ERRGETEC"))
      /\ Guarded(Need("table_there", "ERRGETEC")) /\ Guarded(Need("mark", "ERRSETEC")) /\ Guarded(Need("lspci", "ERRPCI"))
      /\ Guarded(Need("cfg_s6", "ERRS6")) /\ Guarded(Need("v5_version", "ERRV5V")) /\ Guarded(Need("v5", "ERRV5"))
      /\ Guarded(Need("init_newcard", "ERRNEWCARD")) /\ Guarded(Need("check", "ERRCHECK"))
      /\ Guarded(Need("wget_kernel", "ERRCHK"))
  BY <1>1 DEF checkDevice, downLoads, Programs, Errors
<1>5. Guarded(loadSsdDriver) /\ Guarded(readEc) /\ Guarded(setEcToBaidu) /\ Guarded(changeKernel)
  <2>1. Guarded(loadSsdDriver)
    BY <1>3, <1>4, GuardedJoined, Zenon DEF loadSsdDriver
  <2>2. Guarded(readEc)
    BY <1>3, <1>4, GuardedJoined, Zenon DEF readEc
  <2>3. Guarded(setEcToBaidu)
    BY <1>3, <1>4, GuardedJoined, Zenon DEF setEcToBaidu
  <2>4. Guarded(changeKernel)
    BY <1>3, <1>4, GuardedJoined, Zenon DEF changeKernel
  <2> QED
    BY <2>1, <2>2, <2>3, <2>4
<1>6. Guarded(insmodSsdDriver)
  <2>1. CASE "ssd_drv_ko" \in files
    BY <1>3, <1>4, <2>1, GuardedJoined DEF insmodSsdDriver
  <2>2. CASE "ssd_drv_ko" \notin files
    BY <1>3, <1>5, <2>2, GuardedJoined DEF insmodSsdDriver
  <2> QED
    BY <2>1, <2>2
<1>7. Guarded(checkSsd) /\ Guarded(depMod) /\ Guarded(getEcFromHuawei)
  <2>1. Guarded(checkSsd)
    BY <1>3, <1>4, <1>5, GuardedJoined, Zenon DEF checkSsd
  <2>2. Guarded(depMod)
    <3> DEFINE first == IF "ssd_drv_ko" \in files THEN Do("install") ELSE Do("rmmod") \o Do("install")
    <3>1. Guarded(first)
      BY <1>3, GuardedJoined
    <3>2. depMod = ((first \o Do("rc_local")) \o Do("rmmod")) \o Do("modprobe")
      BY DEF depMod
    <3> HIDE DEF first
    <3> QED
      BY <1>3, <3>1, <3>2, GuardedJoined
  <2>3. Guarded(getEcFromHuawei)
    <3> DEFINE first == Without({"flash_tools"}, Do("download"))
    <3>1. Guarded(first)
      BY <1>2, <1>3 DEF Without
    <3>2. getEcFromHuawei = first \o readEc
      BY DEF getEcFromHuawei
    <3> HIDE DEF first
    <3> QED
      BY <1>5, <3>1, <3>2, GuardedJoined
  <2> QED
    BY <2>1, <2>2, <2>3
<1>8. Guarded(cfgFlash)
  <2> DEFINE first == Without({"flash_tools", "bridge", "controller"}, downLoads)
  <2>1. Guarded(first)
    BY <1>2, <1>4 DEF Without
  <2>2. cfgFlash = ((first \o readEc) \o Do("firmware")) \o Do("init_6")
    BY DEF cfgFlash
  <2> HIDE DEF first
  <2>3. Guarded((first \o readEc) \o Do("firmware"))
    BY <2>1, GuardedFirmware
  <2> QED
    BY <1>3, <2>2, <2>3, GuardedJoined
<1>9. Guarded(checkFlash)
  <2> DEFINE a == ((((Need("lspci", "ERRPCI") \o Do("rmmod")) \o Do("insmod_ne")) \o Need("module_loaded", "ERRINSMOD"))
                   \o checkDevice) \o Need("cfg_s6", "ERRS6")
             b == (((a \o Need("v5_version", "ERRV5V")) \o Need("v5", "ERRV5")) \o Do("open_newcard")) \o Do("rmmod")
  <2>1. Guarded(a)
    BY <1>3, <1>4, GuardedJoined
  <2>2. checkFlash = ((b \o insmodSsdDriver) \o Need("init_newcard", "ERRNEWCARD")) \o setEcToBaidu
    BY DEF checkFlash
  <2> HIDE DEF a
  <2>3. Guarded(b)
    BY <1>3, <1>4, <2>1, GuardedJoined
  <2> HIDE DEF b
  <2> QED
    BY <1>4, <1>5, <1>6, <2>2, <2>3, GuardedJoined
<1> QED
  <2> SUFFICES ASSUME NEW o \in DOMAIN opCall
               PROVE  Guarded(opCall[o])
    OBVIOUS
  <2>1. o \in {"chkernel", "loadssd", "cfgflash", "pretools", "chkflash", "insmod", "depmod", "checkssd", "getec", "setec"}
    BY DEF opCall
  <2> QED
    BY <1>4, <1>5, <1>6, <1>7, <1>8, <1>9, <2>1 DEF opCall

-----------------------------------------------------------------------------
(***************************************************************************)
(* A command either takes its place in the list, or ends the operation     *)
(* with an error.                                                          *)
(***************************************************************************)
Passes == cmds' = Tail(cmds) /\ reply' = IF cmds' = <<>> THEN "NOERR" ELSE "pending"
Breaks == cmds' = <<>> /\ reply' # "NOERR"

LEMMA PassesOrBreaks ==
  ASSUME cmds \in Seq(Command), Commands
  PROVE  cmds # <<>> /\ (Passes \/ Breaks) /\ operation' = operation /\ faulty' \in {faulty, faulty + 1}
<1>1. cmds # <<>>
  BY DEF Commands, Now, rmmod, Loads, load, rc_local, downLoads_cmd, Checks, Looks, open_newcard_reloadS6, Orders,
         install, ssd_ecinfo, ssd_firmware, setEcToBaidu_mark, Attempts, Tries, v5
<1>2. Head(cmds).err # "NOERR" /\ <<>> \o Tail(cmds) = Tail(cmds)
  BY <1>1, TailOf
<1> USE DEF Passes, Breaks, Then, Stop, After, Works, Fails, WorksOrNot, Same
<1>3. CASE rmmod \/ Loads \/ rc_local \/ open_newcard_reloadS6
  BY <1>1, <1>2, <1>3 DEF rmmod, Loads, load, rc_local, open_newcard_reloadS6
<1>4. CASE downLoads_cmd \/ Checks \/ Orders("init_6", "now") \/ Orders("shutdown", "soon")
  BY <1>1, <1>2, <1>4 DEF downLoads_cmd, Checks, Looks, Orders
<1>5. ASSUME NEW good \in BOOLEAN, install(good) \/ ssd_ecinfo(good) \/ ssd_firmware(good)
      PROVE  (Passes \/ Breaks) /\ operation' = operation /\ faulty' \in {faulty, faulty + 1}
  BY <1>1, <1>2, <1>5 DEF install, ssd_ecinfo, ssd_firmware
<1>6. ASSUME NEW good \in BOOLEAN, setEcToBaidu_mark(good)
      PROVE  (Passes \/ Breaks) /\ operation' = operation /\ faulty' \in {faulty, faulty + 1}
  BY <1>1, <1>2, <1>6 DEF setEcToBaidu_mark
<1>7. ASSUME NEW good \in BOOLEAN, Attempts(good) \/ v5("v5_version", good) \/ v5("v5", good)
      PROVE  (Passes \/ Breaks) /\ operation' = operation /\ faulty' \in {faulty, faulty + 1}
  BY <1>1, <1>2, <1>7 DEF Attempts, Tries, v5
<1> QED
  BY <1>1, <1>3, <1>4, <1>5, <1>6, <1>7 DEF Commands

(***************************************************************************)
(* The table of erase counts: it is good when the firmware is written, and *)
(* good behind it until somebody reads the counts again.                   *)
(***************************************************************************)
TableInv ==
  /\ cmds \in Seq(Command) /\ Behind(cmds)
  /\ cmds # <<>> /\ cmds[1].cmd = "firmware" => table = "good"
  /\ card \in {"huawei", "baidu"} /\ faulty \in Nat
  /\ "flash_tools" \in files => "op_tools" \in files
  /\ table = "good" => "op_tools" \in files
  /\ card = "baidu" /\ ~reread => table = "good" /\ counts \in {"unset", "set", "partly"}
  /\ counts = "partly" => faulty > 0

LEMMA ListKept ==
  ASSUME TableInv, Commands
  PROVE  /\ cmds' \in Seq(Command) /\ Behind(cmds') /\ faulty' \in Nat /\ faulty' >= faulty
         /\ cmds' # <<>> /\ cmds'[1].cmd = "firmware" => cmds' = Tail(cmds) /\ cmds # <<>> /\ Head(cmds) = TestGood
<1>1. cmds \in Seq(Command) /\ Behind(cmds) /\ faulty \in Nat
  BY DEF TableInv
<1>2. cmds # <<>> /\ (Passes \/ Breaks) /\ faulty' \in {faulty, faulty + 1}
  BY <1>1, PassesOrBreaks
<1>3. faulty' \in Nat /\ faulty' >= faulty
  BY <1>1, <1>2
<1>4. CASE Breaks
  BY <1>3, <1>4 DEF Breaks, Behind
<1>5. CASE Passes
  <2>1. cmds' = Tail(cmds)
    BY <1>5 DEF Passes
  <2> DEFINE t == Tail(cmds)
  <2>2. /\ t \in Seq(Command) /\ Len(cmds) \in Nat /\ Len(t) = Len(cmds) - 1
        /\ \A i \in 1..Len(cmds) - 1 : t[i] = cmds[i + 1]
        /\ Head(cmds) = cmds[1]
    BY <1>1, <1>2, TailOf
  <2> HIDE DEF t
  <2>3. Behind(t)
    <3> SUFFICES ASSUME NEW i \in 2..Len(t), t[i].cmd = "firmware"
                 PROVE  t[i - 1] = TestGood
      BY DEF Behind
    <3>1. i + 1 \in 2..Len(cmds) /\ t[i] = cmds[i + 1] /\ t[i - 1] = cmds[(i - 1) + 1] /\ (i - 1) + 1 = (i + 1) - 1
      BY <2>2
    <3> QED
      BY <1>1, <3>1 DEF Behind
  <2>4. ASSUME t # <<>>, t[1].cmd = "firmware"
        PROVE  Head(cmds) = TestGood
    <3>1. Len(t) > 0
      BY <2>2, <2>4
    <3>2. 2 \in 2..Len(cmds) /\ t[1] = cmds[2]
      BY <2>2, <3>1
    <3>3. cmds[2 - 1] = TestGood
      BY <1>1, <2>4, <3>2 DEF Behind
    <3> QED
      BY <2>2, <3>3
  <2> QED
    BY <1>2, <1>3, <2>1, <2>2, <2>3, <2>4 DEF t
<1> QED
  BY <1>2, <1>4, <1>5

LEMMA TableKept ==
  ASSUME TableInv, Commands
  PROVE  TableInv'
<1>1. /\ cmds' \in Seq(Command) /\ Behind(cmds') /\ faulty \in Nat /\ faulty' \in Nat /\ faulty' >= faulty
      /\ cmds' # <<>> /\ cmds'[1].cmd = "firmware"
           => cmds' = Tail(cmds) /\ cmds # <<>> /\ Head(cmds).cmd = "table_good" /\ Head(cmds).err = "ERRGETEC"
  BY ListKept DEF TestGood, TableInv
<1> USE DEF Now, Then, Stop, After
<1>2. ASSUME UNCHANGED data, cmds # <<>>, Head(cmds).cmd # "table_good"
      PROVE  TableInv'
  BY <1>1, <1>2 DEF data, TableInv
<1>3. CASE rmmod \/ Loads \/ rc_local \/ open_newcard_reloadS6
  BY <1>2, <1>3 DEF rmmod, Loads, load, rc_local, open_newcard_reloadS6, data
<1>4. CASE Orders("init_6", "now") \/ Orders("shutdown", "soon")
  BY <1>2, <1>4 DEF Orders, data
<1>5. ASSUME NEW good \in BOOLEAN, install(good) \/ Attempts(good) \/ v5("v5_version", good) \/ v5("v5", good)
      PROVE  TableInv'
  BY <1>2, <1>5 DEF install, Attempts, Tries, v5, data
<1>6. CASE Checks
  <2>1. CASE Looks("table_good", table = "good")
    <3>1. UNCHANGED data
      BY <2>1 DEF Looks
    <3>2. CASE table = "good"
      BY <1>1, <3>1, <3>2 DEF data, TableInv
    <3>3. CASE table # "good"
      <4>1. cmds' # <<>> => Head(cmds).err = "ignored"
        BY <2>1, <3>3 DEF Looks
      <4> QED
        BY <1>1, <3>1, <4>1 DEF data, TableInv
    <3> QED
      BY <3>2, <3>3
  <2>2. CASE ~Looks("table_good", table = "good")
    BY <1>2, <1>6, <2>2 DEF Checks, Looks
  <2> QED
    BY <2>1, <2>2
<1>7. CASE downLoads_cmd
  BY <1>1, <1>7 DEF downLoads_cmd, TableInv
<1>8. ASSUME NEW good \in BOOLEAN, ssd_ecinfo(good)
      PROVE  TableInv'
  <2>1. Head(cmds).cmd = "ecinfo" /\ UNCHANGED <<files, card, counts>>
    BY <1>8 DEF ssd_ecinfo
  <2>2. ~reread' => ~reread /\ card # "baidu"
    BY <1>8, Zenon DEF ssd_ecinfo
  <2>3. table' = table \/ table' # "good" \/ "flash_tools" \in files
    BY <1>8 DEF ssd_ecinfo
  <2>4. ~(cmds' # <<>> /\ cmds'[1].cmd = "firmware")
    BY <1>1, <2>1
  <2> QED
    BY <1>1, <2>1, <2>2, <2>3, <2>4 DEF TableInv
<1>9. ASSUME NEW good \in BOOLEAN, ssd_firmware(good)
      PROVE  TableInv'
  <2>1. Head(cmds).cmd = "firmware" /\ cmds # <<>>
    BY <1>9 DEF ssd_firmware
  <2>2. table = "good"
    BY <2>1, TailOf DEF TableInv
  <2> QED
    BY <1>1, <1>9, <2>1, <2>2 DEF ssd_firmware, TableInv
<1>10. ASSUME NEW good \in BOOLEAN, setEcToBaidu_mark(good)
       PROVE  TableInv'
  <2>1. Head(cmds).cmd = "mark" /\ cmds # <<>> /\ UNCHANGED <<files, table, card, reread>>
    BY <1>10 DEF setEcToBaidu_mark
  <2>2. counts' = counts \/ (card = "baidu" /\ (table # "empty" => counts' = "set" \/ (counts' = "partly" /\ faulty' = faulty + 1))
                             /\ (table = "empty" => counts' = "wrong"))
    BY <1>10 DEF setEcToBaidu_mark, WorksOrNot, Fails
  <2> QED
    BY <1>1, <2>1, <2>2 DEF TableInv
<1> QED
  BY <1>3, <1>4, <1>5, <1>6, <1>7, <1>8, <1>9, <1>10 DEF Commands

LEMMA TableInvIsInvariant == CardSpec => []TableInv
<1>1. CardInit => TableInv
  BY DEF CardInit, TableInv, Behind
<1>2. TableInv /\ [CardNext]_cardVars => TableInv'
  <2> SUFFICES ASSUME TableInv, [CardNext]_cardVars
               PROVE  TableInv'
    OBVIOUS
  <2>1. CASE Commands
    BY <2>1, TableKept
  <2>2. ASSUME NEW o \in DOMAIN opCall, rpcCall(o)
        PROVE  TableInv'
    <3>1. Guarded(opCall[o])
      BY OperationsGuarded
    <3>2. cmds' = opCall[o] /\ UNCHANGED <<data, faulty>>
      BY <2>2 DEF rpcCall
    <3>3. cmds' \in Seq(Command) /\ Behind(cmds') /\ (Len(cmds') > 0 => cmds'[1].cmd # "firmware")
      BY <3>1, <3>2 DEF Guarded
    <3>4. cmds' # <<>> => Len(cmds') > 0
      BY <3>3
    <3> QED
      BY <3>2, <3>3, <3>4 DEF data, TableInv
  <2>3. CASE Restart
    BY <2>3 DEF Restart, data, TableInv, Behind
  <2>4. CASE UNCHANGED cardVars
    BY <2>4 DEF cardVars, data, TableInv, Behind
  <2> QED
    BY <2>1, <2>2, <2>3, <2>4 DEF CardNext, CardSteps
<1> QED
  BY <1>1, <1>2, PTL DEF CardSpec

-----------------------------------------------------------------------------
(***************************************************************************)
(* chkflash, told by how many commands are left: n of a command is the     *)
(* number of commands behind it.                                           *)
(***************************************************************************)
Place(c, n) ==
  /\ n = 0 => c = [cmd |-> "mark", err |-> "ERRSETEC"]
  /\ n \in 1..3 => c.cmd \in {"table_there", "init_newcard", "device"}
  /\ n = 4 => c = [cmd |-> "module_loaded", err |-> "ERRINSMOD"]
  /\ n = 5 => c.cmd \in {"insmod", "modprobe"}
  /\ n = 6 => c.cmd = "rmmod" \/ c = [cmd |-> "install", err |-> "ERRNOFILE"]
  /\ n = 7 => c.cmd = "rmmod"

Layout(cs) == \A i \in 1..Len(cs) :
                /\ Place(cs[i], Len(cs) - i)
                /\ Len(cs) - i = 6 /\ cs[i].cmd = "rmmod" => cs[i + 1].cmd = "insmod"

\* only the last eight commands have a place
LEMMA LayoutBehind ==
  ASSUME NEW a \in Seq(Command), NEW b \in Seq(Command), Layout(b), Len(b) >= 8
  PROVE  Layout(a \o b)
<1> DEFINE c == a \o b
<1>1. /\ c \in Seq(Command) /\ Len(a) \in Nat /\ Len(b) \in Nat /\ Len(c) = Len(a) + Len(b)
      /\ \A i \in 1..Len(b) : c[Len(a) + i] = b[i]
  BY Joined
<1> HIDE DEF c
<1> SUFFICES ASSUME NEW i \in 1..Len(c)
             PROVE  /\ Place(c[i], Len(c) - i)
                    /\ Len(c) - i = 6 /\ c[i].cmd = "rmmod" => c[i + 1].cmd = "insmod"
  BY DEF Layout, c
<1>2. CASE Len(c) - i <= 7
  <2> DEFINE j == i - Len(a)
  <2>1. j \in 1..Len(b) /\ i = Len(a) + j /\ Len(b) - j = Len(c) - i
    BY <1>1, <1>2
  <2>2. c[i] = b[j] /\ Place(b[j], Len(b) - j)
    BY <1>1, <2>1 DEF Layout
  <2>3. Place(c[i], Len(c) - i)
    BY <2>1, <2>2
  <2>4. ASSUME Len(c) - i = 6, c[i].cmd = "rmmod"
        PROVE  c[i + 1].cmd = "insmod"
    <3>1. b[j + 1].cmd = "insmod"
      BY <2>1, <2>2, <2>4 DEF Layout
    <3>2. j + 1 \in 1..Len(b) /\ i + 1 = Len(a) + (j + 1)
      BY <1>1, <2>1, <2>4
    <3>3. c[i + 1] = b[j + 1]
      BY <1>1, <3>2
    <3> QED
      BY <3>1, <3>3
  <2> QED
    BY <2>3, <2>4
<1>3. CASE Len(c) - i > 7
  BY <1>1, <1>3 DEF Place
<1> QED
  BY <1>1, <1>2, <1>3

LEMMA LayoutOfTail ==
  ASSUME NEW cs \in Seq(Command), cs # <<>>, Layout(cs)
  PROVE  Layout(Tail(cs))
<1> DEFINE t == Tail(cs)
<1>1. /\ Len(cs) \in Nat /\ Len(t) = Len(cs) - 1
      /\ \A i \in 1..Len(cs) - 1 : t[i] = cs[i + 1]
  BY TailOf
<1> HIDE DEF t
<1> SUFFICES ASSUME NEW i \in 1..Len(t)
             PROVE  /\ Place(t[i], Len(t) - i)
                    /\ Len(t) - i = 6 /\ t[i].cmd = "rmmod" => t[i + 1].cmd = "insmod"
  BY DEF Layout, t
<1>2. i + 1 \in 1..Len(cs) /\ t[i] = cs[i + 1] /\ Len(t) - i = Len(cs) - (i + 1)
  BY <1>1
<1>3. Place(t[i], Len(t) - i)
  BY <1>2 DEF Layout
<1>4. ASSUME Len(t) - i = 6, t[i].cmd = "rmmod"
      PROVE  t[i + 1].cmd = "insmod"
  <2>1. cs[(i + 1) + 1].cmd = "insmod"
    BY <1>2, <1>4 DEF Layout
  <2>2. t[i + 1] = cs[(i + 1) + 1]
    BY <1>1, <1>2, <1>4
  <2> QED
    BY <2>1, <2>2
<1> QED
  BY <1>3, <1>4

\* one command in front of n others that have their places
IsList(s)  == s \in Seq(Command)
Laid(s, n) == IsList(s) /\ Layout(s) /\ Len(s) = n
First(s)   == s[1]
Fits(f, n, s) == /\ IsList(f) /\ Len(f) = 1 /\ Place(f[1], n)
                 /\ n = 6 => f[1].cmd # "rmmod" \/ First(s).cmd = "insmod"

LEMMA InFront ==
  ASSUME NEW f, NEW s, NEW n \in Nat, Laid(s, n), Fits(f, n, s)
  PROVE  Laid(f \o s, n + 1) /\ First(f \o s) = f[1]
<1> DEFINE c == f \o s
<1>1. c \in Seq(Command) /\ Len(s) \in Nat /\ Len(c) = 1 + Len(s) /\ c[1] = f[1]
      /\ \A i \in 1..Len(s) : c[1 + i] = s[i]
  <2>1. f \in Seq(Command) /\ s \in Seq(Command) /\ Len(f) = 1
    BY DEF Laid, Fits, IsList
  <2>2. /\ c \in Seq(Command) /\ Len(s) \in Nat /\ Len(c) = Len(f) + Len(s)
        /\ \A i \in 1..Len(f) : c[i] = f[i]
        /\ \A i \in 1..Len(s) : c[Len(f) + i] = s[i]
    BY <2>1, Joined
  <2> HIDE DEF c
  <2> QED
    BY <2>1, <2>2
<1>0. Layout(s) /\ Len(s) = n /\ Place(f[1], Len(s)) /\ (Len(s) = 6 /\ f[1].cmd = "rmmod" => s[1].cmd = "insmod")
  BY DEF Laid, Fits, First
<1> HIDE DEF c
<1>2. ASSUME NEW i \in 1..Len(c)
      PROVE  /\ Place(c[i], Len(c) - i)
             /\ Len(c) - i = 6 /\ c[i].cmd = "rmmod" => c[i + 1].cmd = "insmod"
  <2>1. CASE i = 1
    <3>1. Place(c[i], Len(c) - i)
      BY <1>0, <1>1, <2>1
    <3>2. ASSUME Len(c) - i = 6, c[i].cmd = "rmmod"
          PROVE  c[i + 1].cmd = "insmod"
      <4>1. Len(s) = 6 /\ 1 \in 1..Len(s)
        <5>1. Len(s) \in Nat /\ Len(c) = 1 + Len(s)
          BY <1>1
        <5> DEFINE k == Len(s)
                   m == Len(c)
        <5>2. k \in Nat /\ m = 1 + k /\ m - 1 = 6
          BY <2>1, <3>2, <5>1
        <5> HIDE DEF k, m
        <5>3. k = 6 /\ 1 \in 1..k
          BY <5>2
        <5> QED
          BY <5>3 DEF k
      <4> QED
        BY <1>0, <1>1, <2>1, <3>2, <4>1
    <3> QED
      BY <3>1, <3>2
  <2>2. CASE i # 1
    <3> DEFINE j == i - 1
    <3>1. j \in 1..Len(s) /\ i = 1 + j /\ Len(c) - i = Len(s) - j /\ c[i] = s[j]
      BY <1>1, <2>2
    <3>2. Place(c[i], Len(c) - i)
      BY <1>0, <3>1 DEF Layout
    <3>3. ASSUME Len(c) - i = 6, c[i].cmd = "rmmod"
          PROVE  c[i + 1].cmd = "insmod"
      <4>1. s[j + 1].cmd = "insmod"
        BY <1>0, <3>1, <3>3 DEF Layout
      <4>2. j + 1 \in 1..Len(s) /\ i + 1 = 1 + (j + 1)
        BY <1>1, <3>1, <3>3
      <4>3. c[i + 1] = s[j + 1]
        BY <1>1, <4>2
      <4> QED
        BY <4>1, <4>3
    <3> QED
      BY <3>2, <3>3
  <2> QED
    BY <2>1, <2>2
<1>3. Layout(c)
  BY <1>2 DEF Layout
<1>4. c \in Seq(Command) /\ Len(c) = 1 + Len(s) /\ c[1] = f[1]
  BY <1>1
<1>5. Len(c) = n + 1
  BY <1>0, <1>4
<1>6. Laid(c, n + 1)
  BY <1>3, <1>4, <1>5 DEF Laid, IsList
<1>7. First(c) = f[1]
  BY <1>4 DEF First
<1> QED
  BY <1>6, <1>7, Zenon DEF c

\* lists joined, as one operator
Cat(a, b) == a \o b

LEMMA CatFacts ==
  ASSUME NEW a, IsList(a), NEW b, IsList(b)
  PROVE  IsList(Cat(a, b)) /\ \A c : IsList(c) => Cat(Cat(a, b), c) = Cat(a, Cat(b, c))
<1>1. IsList(Cat(a, b))
  BY DEF IsList, Cat
<1>2. ASSUME NEW c, c \in Seq(Command)
      PROVE  (a \o b) \o c = a \o (b \o c)
  <2>1. a \in Seq(Command) /\ b \in Seq(Command)
    BY DEF IsList
  <2> QED
    BY <1>2, <2>1, ConcatAssociative
<1> QED
  BY <1>1, <1>2, Zenon DEF IsList, Cat

LooksFirst == [cmd |-> "lspci", err |-> "ERRPCI"]
Starts(s)  == s \in Seq(Command) /\ Len(s) > 0 /\ s[1] = LooksFirst

LEMMA StartsJoined ==
  ASSUME NEW a, Starts(a), NEW b, b \in Seq(Command)
  PROVE  Starts(a \o b)
<1>1. a \in Seq(Command) /\ Len(a) \in Nat /\ 1 \in 1..Len(a)
  BY DEF Starts
<1>2. a \o b \in Seq(Command) /\ Len(b) \in Nat /\ Len(a \o b) = Len(a) + Len(b) /\ (a \o b)[1] = a[1]
  BY <1>1, Joined
<1> QED
  BY <1>1, <1>2 DEF Starts

\* chkflash looks for the card first, and ends with the new driver and the marks
LEMMA CheckFlashLaidOut == Layout(checkFlash) /\ Starts(checkFlash) /\ Len(checkFlash) > 7
<1> DEFINE pci    == Need("lspci", "ERRPCI")
           ne     == Do("insmod_ne")
           s6     == Need("cfg_s6", "ERRS6")
           v      == Need("v5_version", "ERRV5V")
           fpga   == Need("v5", "ERRV5")
           open   == Do("open_newcard")
           rm     == Do("rmmod")
           ins    == Do("insmod")
           inst   == Need("install", "ERRNOFILE")
           mod    == Do("modprobe")
           loaded == Need("module_loaded", "ERRINSMOD")
           dev    == Need("device", "ERRINSMOD")
           init   == Need("init_newcard", "ERRNEWCARD")
           there  == Need("table_there", "ERRGETEC")
           mark   == Need("mark", "ERRSETEC")
           Cmd(s, c, e) == IsList(s) /\ Len(s) = 1 /\ s[1] = [cmd |-> c, err |-> e]
           front  == ((((((((pci \o rm) \o ne) \o loaded) \o dev) \o s6) \o v) \o fpga) \o open)
           drive  == insmodSsdDriver
<1>1. /\ Cmd(init, "init_newcard", "ERRNEWCARD") /\ Cmd(there, "table_there", "ERRGETEC")
      /\ Cmd(mark, "mark", "ERRSETEC") /\ Cmd(dev, "device", "ERRINSMOD") /\ Cmd(inst, "install", "ERRNOFILE")
      /\ Cmd(loaded, "module_loaded", "ERRINSMOD") /\ Cmd(pci, "lspci", "ERRPCI") /\ Cmd(s6, "cfg_s6", "ERRS6")
      /\ Cmd(v, "v5_version", "ERRV5V") /\ Cmd(fpga, "v5", "ERRV5")
  BY One DEF Programs, Errors, IsList
<1>2. /\ Cmd(rm, "rmmod", "ignored") /\ Cmd(ins, "insmod", "ignored") /\ Cmd(mod, "modprobe", "ignored")
      /\ Cmd(ne, "insmod_ne", "ignored") /\ Cmd(open, "open_newcard", "ignored")
  BY OneDone DEF Programs, Errors, IsList
<1>3. checkFlash = (((front \o rm) \o drive) \o init) \o (there \o mark)
  BY DEF checkFlash, checkDevice, setEcToBaidu
<1>4. drive = rm \o IF "ssd_drv_ko" \in files THEN (ins \o loaded) \o dev
                    ELSE (((rm \o inst) \o mod) \o loaded) \o dev
  BY DEF insmodSsdDriver, loadSsdDriver, checkDevice
<1> HIDE DEF pci, ne, s6, v, fpga, open, rm, ins, inst, mod, loaded, dev, init, there, mark, drive
<1>5. Starts(pci)
  BY <1>1 DEF Starts, IsList, LooksFirst
<1>6. Starts(front)
  BY <1>1, <1>2, <1>5, StartsJoined DEF IsList
<1> HIDE DEF front
<1> DEFINE c1 == Cat(there, mark)
           c2 == Cat(init, c1)
           c3 == Cat(dev, c2)
           c4 == Cat(loaded, c3)
           InFrontOf(f, s, n) == Laid(s, n) /\ Fits(f, n, s) => Laid(Cat(f, s), n + 1) /\ First(Cat(f, s)) = f[1]
<1>7. Laid(mark, 1)
  BY <1>1 DEF Layout, Place, Laid, IsList
<1>8. /\ \A s : Fits(there, 1, s) /\ Fits(init, 2, s) /\ Fits(dev, 3, s) /\ Fits(loaded, 4, s) /\ Fits(inst, 6, s)
      /\ \A s : Fits(ins, 5, s) /\ Fits(mod, 5, s) /\ Fits(rm, 7, s) /\ Fits(rm, 8, s) /\ Fits(rm, 9, s)
      /\ \A s : First(s).cmd = "insmod" => Fits(rm, 6, s)
  BY <1>1, <1>2 DEF Fits, Place
<1>9. \A f, s : \A n \in Nat : InFrontOf(f, s, n)
  BY InFront DEF Cat
<1>10. Laid(c1, 2)
  <2>1. 1 \in Nat /\ 1 + 1 = 2
    OBVIOUS
  <2>2. Fits(there, 1, mark)
    BY <1>8
  <2>3. Laid(mark, 1) /\ Fits(there, 1, mark) => Laid(Cat(there, mark), 1 + 1)
    BY <1>9, <2>1
  <2> QED
    BY <1>7, <2>1, <2>2, <2>3
<1>11. Laid(c2, 3)
  <2>1. 2 \in Nat /\ 2 + 1 = 3
    OBVIOUS
  <2>2. Fits(init, 2, c1)
    BY <1>8
  <2>3. Laid(c1, 2) /\ Fits(init, 2, c1) => Laid(Cat(init, c1), 2 + 1)
    BY <1>9, <2>1
  <2> QED
    BY <1>10, <2>1, <2>2, <2>3
<1>12. Laid(c3, 4)
  <2>1. 3 \in Nat /\ 3 + 1 = 4
    OBVIOUS
  <2>2. Fits(dev, 3, c2)
    BY <1>8
  <2>3. Laid(c2, 3) /\ Fits(dev, 3, c2) => Laid(Cat(dev, c2), 3 + 1)
    BY <1>9, <2>1
  <2> QED
    BY <1>11, <2>1, <2>2, <2>3
<1>13. Laid(c4, 5)
  <2>1. 4 \in Nat /\ 4 + 1 = 5
    OBVIOUS
  <2>2. Fits(loaded, 4, c3)
    BY <1>8
  <2>3. Laid(c3, 4) /\ Fits(loaded, 4, c3) => Laid(Cat(loaded, c3), 4 + 1)
    BY <1>9, <2>1
  <2> QED
    BY <1>12, <2>1, <2>2, <2>3
<1>14. /\ IsList(pci) /\ IsList(rm) /\ IsList(ins) /\ IsList(inst) /\ IsList(mod) /\ IsList(loaded) /\ IsList(dev)
       /\ IsList(init) /\ IsList(there) /\ IsList(mark)
       /\ IsList(c1) /\ IsList(c2) /\ IsList(c3) /\ IsList(c4)
  BY <1>1, <1>2, <1>10, <1>11, <1>12, <1>13 DEF Laid
<1>15. \E d : \E n \in Nat : Cat(rm, Cat(drive, c2)) = d /\ Laid(d, n) /\ n >= 8 /\ IsList(drive)
  <2>1. CASE "ssd_drv_ko" \in files
    <3> DEFINE c5 == Cat(ins, c4)
               c6 == Cat(rm, c5)
               c7 == Cat(rm, c6)
               one == Cat(ins, loaded)
               two == Cat(one, dev)
    <3>1. Laid(c5, 6) /\ First(c5).cmd = "insmod"
      BY <1>2, <1>8, <1>9, <1>13
    <3>2. Laid(c6, 7)
      <4>1. 6 \in Nat /\ 6 + 1 = 7
        OBVIOUS
      <4>2. Fits(rm, 6, c5)
        BY <1>8, <3>1
      <4>3. Laid(c5, 6) /\ Fits(rm, 6, c5) => Laid(Cat(rm, c5), 6 + 1)
        BY <1>9, <4>1
      <4> QED
        BY <3>1, <4>1, <4>2, <4>3
    <3>3. Laid(c7, 8)
      <4>1. 7 \in Nat /\ 7 + 1 = 8
        OBVIOUS
      <4>2. Fits(rm, 7, c6)
        BY <1>8
      <4>3. Laid(c6, 7) /\ Fits(rm, 7, c6) => Laid(Cat(rm, c6), 7 + 1)
        BY <1>9, <4>1
      <4> QED
        BY <3>2, <4>1, <4>2, <4>3
    <3>4. drive = Cat(rm, two)
      BY <1>4, <2>1 DEF Cat
    <3>5. IsList(one) /\ IsList(two) /\ IsList(drive)
      BY <1>14, <3>4, CatFacts
    <3>6. Cat(two, c2) = Cat(one, c3)
      BY <1>14, <3>5, CatFacts
    <3>7. Cat(one, c3) = c5
      BY <1>14, CatFacts
    <3>8. Cat(drive, c2) = c6
      BY <1>14, <3>4, <3>5, <3>6, <3>7, CatFacts
    <3>9. Cat(rm, Cat(drive, c2)) = c7 /\ 8 \in Nat /\ 8 >= 8
      BY <3>8
    <3> HIDE DEF c7
    <3> QED
      BY <3>3, <3>5, <3>9
  <2>2. CASE "ssd_drv_ko" \notin files
    <3> DEFINE c5 == Cat(mod, c4)
               c6 == Cat(inst, c5)
               c7 == Cat(rm, c6)
               c8 == Cat(rm, c7)
               c9 == Cat(rm, c8)
               one == Cat(rm, inst)
               two == Cat(one, mod)
               three == Cat(two, loaded)
               four == Cat(three, dev)
    <3>1. Laid(c5, 6)
      <4>1. 5 \in Nat /\ 5 + 1 = 6
        OBVIOUS
      <4>2. Fits(mod, 5, c4)
        BY <1>8
      <4>3. Laid(c4, 5) /\ Fits(mod, 5, c4) => Laid(Cat(mod, c4), 5 + 1)
        BY <1>9, <4>1
      <4> QED
        BY <1>13, <4>1, <4>2, <4>3
    <3>2. Laid(c6, 7)
      <4>1. 6 \in Nat /\ 6 + 1 = 7
        OBVIOUS
      <4>2. Fits(inst, 6, c5)
        BY <1>8
      <4>3. Laid(c5, 6) /\ Fits(inst, 6, c5) => Laid(Cat(inst, c5), 6 + 1)
        BY <1>9, <4>1
      <4> QED
        BY <3>1, <4>1, <4>2, <4>3
    <3>3. Laid(c7, 8)
      <4>1. 7 \in Nat /\ 7 + 1 = 8
        OBVIOUS
      <4>2. Fits(rm, 7, c6)
        BY <1>8
      <4>3. Laid(c6, 7) /\ Fits(rm, 7, c6) => Laid(Cat(rm, c6), 7 + 1)
        BY <1>9, <4>1
      <4> QED
        BY <3>2, <4>1, <4>2, <4>3
    <3>4. Laid(c8, 9)
      <4>1. 8 \in Nat /\ 8 + 1 = 9
        OBVIOUS
      <4>2. Fits(rm, 8, c7)
        BY <1>8
      <4>3. Laid(c7, 8) /\ Fits(rm, 8, c7) => Laid(Cat(rm, c7), 8 + 1)
        BY <1>9, <4>1
      <4> QED
        BY <3>3, <4>1, <4>2, <4>3
    <3>5. Laid(c9, 9 + 1)
      BY <1>8, <1>9, <3>4
    <3>6. IsList(c5) /\ IsList(c6) /\ IsList(c7) /\ IsList(c8)
      BY <3>1, <3>2, <3>3, <3>4 DEF Laid
    <3>7. drive = Cat(rm, four)
      BY <1>4, <2>2 DEF Cat
    <3>8. IsList(one) /\ IsList(two) /\ IsList(three) /\ IsList(four) /\ IsList(drive)
      <4>1. IsList(one)
        BY <1>14, CatFacts
      <4>2. IsList(two)
        BY <1>14, <4>1, CatFacts
      <4>3. IsList(three)
        BY <1>14, <4>2, CatFacts
      <4>4. IsList(four)
        BY <1>14, <4>3, CatFacts
      <4> QED
        BY <1>14, <3>7, <4>1, <4>2, <4>3, <4>4, CatFacts
    <3>9. Cat(four, c2) = Cat(three, c3)
      BY <1>14, <3>8, CatFacts
    <3>10. Cat(three, c3) = Cat(two, c4)
      BY <1>14, <3>8, CatFacts
    <3>11. Cat(two, c4) = Cat(one, c5)
      BY <1>14, <3>8, CatFacts
    <3>12. Cat(one, c5) = c7
      BY <1>14, <3>6, CatFacts
    <3>13. Cat(drive, c2) = Cat(rm, Cat(four, c2))
      BY <1>14, <3>7, <3>8, CatFacts
    <3>14. Cat(rm, Cat(drive, c2)) = c9
      BY <3>9, <3>10, <3>11, <3>12, <3>13
    <3>15. 9 + 1 \in Nat /\ 9 + 1 >= 8
      OBVIOUS
    <3> HIDE DEF c9
    <3> QED
      BY <3>5, <3>8, <3>14, <3>15
  <2> QED
    BY <2>1, <2>2
<1>16. PICK n \in Nat : Laid(Cat(rm, Cat(drive, c2)), n) /\ n >= 8 /\ IsList(drive)
  BY <1>15
<1> DEFINE d == Cat(rm, Cat(drive, c2))
<1>17. IsList(front)
  BY <1>6 DEF Starts, IsList
<1> DEFINE start == Cat(front, rm)
           whole == Cat(start, drive)
<1>18. IsList(start) /\ IsList(whole) /\ IsList(Cat(drive, c2))
  BY <1>14, <1>16, <1>17, CatFacts
<1>19. checkFlash = Cat(Cat(whole, init), c1)
  BY <1>3 DEF Cat
<1>20. Cat(Cat(whole, init), c1) = Cat(whole, c2)
  BY <1>14, <1>18, CatFacts
<1>21. Cat(whole, c2) = Cat(start, Cat(drive, c2))
  BY <1>14, <1>16, <1>18, CatFacts
<1>22. Cat(start, Cat(drive, c2)) = Cat(front, d)
  BY <1>14, <1>17, <1>18, CatFacts
<1>23. checkFlash = Cat(front, d)
  BY <1>19, <1>20, <1>21, <1>22
<1> HIDE DEF d
<1>24. d \in Seq(Command) /\ Layout(d) /\ Len(d) >= 8
  BY <1>16 DEF d, Laid, IsList
<1>25. Layout(front \o d) /\ Starts(front \o d)
  BY <1>6, <1>24, LayoutBehind, StartsJoined DEF Starts
<1>26. Len(front \o d) > 7
  <2>1. Len(front \o d) = Len(front) + Len(d) /\ Len(front) \in Nat /\ Len(d) \in Nat
    BY <1>17, <1>24, Joined DEF IsList
  <2> QED
    BY <1>24, <2>1
<1> QED
  BY <1>23, <1>25, <1>26 DEF Cat

-----------------------------------------------------------------------------
(***************************************************************************)
(* How far chkflash has come, by the number of commands left: from the     *)
(* last check of the module on, the new driver is loaded or the old one    *)
(* was in use.                                                             *)
(***************************************************************************)
Driven == inUse \/ module = "new"
Driving(n) ==
  /\ n \in 1..4 => Driven
  /\ n = 5 => Driven \/ module = "none"
  /\ n = 6 => (inUse \/ module = "none") /\ (cmds[1].cmd = "modprobe" => installed = "new")
  /\ n = 7 /\ cmds[1].cmd = "install" => inUse \/ module = "none"

Underway ==
  /\ Layout(cmds) /\ Driving(Len(cmds))
  /\ cmds[1] = LooksFirst \/ card = "baidu"
  /\ reply # "NOERR"

Done == reply = "NOERR" => Driven /\ (reread \/ counts \in {"set", "partly"})

CheckInv == operation = "chkflash" => IF cmds # <<>> THEN Underway ELSE Done

\* what the commands do to the module and the card
LEMMA DriverCommands ==
  ASSUME Commands
  PROVE  /\ Head(cmds).cmd = "rmmod" => inUse' \/ (module' = "none" /\ inUse' = inUse)
         /\ Head(cmds).cmd # "rmmod" => inUse' = inUse
         /\ Head(cmds).cmd = "insmod" =>
              module' = "none" \/ module' = IF module = "none" THEN "new" ELSE module
         /\ Head(cmds).cmd = "modprobe" =>
              module' = "none" \/ module' = IF module = "none" THEN installed ELSE module
         /\ Head(cmds).cmd \in {"install", "module_loaded", "table_there", "init_newcard", "device", "mark"} =>
              module' = module
         /\ Head(cmds).cmd = "install" /\ Head(cmds).err = "ERRNOFILE" => installed' = "new" \/ Breaks
         /\ Head(cmds).cmd = "module_loaded" /\ Head(cmds).err = "ERRINSMOD" => module # "none" \/ Breaks
         /\ Head(cmds).cmd = "lspci" /\ Head(cmds).err = "ERRPCI" => card = "baidu" \/ Breaks
         /\ card = "baidu" => card' = "baidu"
<1> USE DEF Now, data, host
<1>1. CASE rmmod
  BY <1>1 DEF rmmod
<1>2. CASE Loads
  BY <1>2 DEF Loads, load
<1>3. CASE rc_local \/ open_newcard_reloadS6 \/ Orders("init_6", "now") \/ Orders("shutdown", "soon")
  BY <1>3 DEF rc_local, open_newcard_reloadS6, Orders
<1>4. CASE downLoads_cmd
  BY <1>4 DEF downLoads_cmd
<1>5. CASE Checks
  BY <1>5 DEF Checks, Looks, After, Stop, Breaks
<1>6. CASE \E good \in BOOLEAN : install(good)
  BY <1>6 DEF install, After, Stop, Breaks
<1>7. CASE \E good \in BOOLEAN : ssd_ecinfo(good)
  BY <1>7 DEF ssd_ecinfo
<1>8. CASE \E good \in BOOLEAN : ssd_firmware(good)
  BY <1>8 DEF ssd_firmware
<1>9. CASE \E good \in BOOLEAN : setEcToBaidu_mark(good)
  BY <1>9 DEF setEcToBaidu_mark
<1>10. CASE \E good \in BOOLEAN : Attempts(good) \/ v5("v5_version", good) \/ v5("v5", good)
  BY <1>10 DEF Attempts, Tries, v5
<1> QED
  BY <1>1, <1>2, <1>3, <1>4, <1>5, <1>6, <1>7, <1>8, <1>9, <1>10 DEF Commands

\* the mark, the last command of chkflash
LEMMA MarkSets ==
  ASSUME TableInv, Commands, Head(cmds).cmd = "mark", Head(cmds).err = "ERRSETEC", card = "baidu", ~Breaks
  PROVE  reread' \/ counts' \in {"set", "partly"}
<1>1. PICK good \in BOOLEAN : setEcToBaidu_mark(good)
  BY DEF Commands, Now, rmmod, Loads, load, rc_local, downLoads_cmd, Checks, Looks, open_newcard_reloadS6, Orders,
         install, ssd_ecinfo, ssd_firmware, Attempts, Tries, v5
<1>2. reread' = reread
  BY <1>1 DEF setEcToBaidu_mark
<1>3. CASE reread
  BY <1>2, <1>3
<1>4. CASE ~reread
  <2>1. table = "good" /\ "op_tools" \in files
    BY <1>4 DEF TableInv
  <2> QED
    BY <1>1, <2>1 DEF setEcToBaidu_mark, After, Stop, Breaks
<1> QED
  BY <1>3, <1>4

LEMMA CheckKept ==
  ASSUME TableInv, CheckInv, Commands
  PROVE  CheckInv'
<1>1. cmds \in Seq(Command)
  BY DEF TableInv
<1>2. cmds # <<>> /\ (Passes \/ Breaks) /\ operation' = operation
  BY <1>1, PassesOrBreaks
<1>3. CASE operation # "chkflash"
  BY <1>2, <1>3 DEF CheckInv
<1>4. CASE Breaks
  BY <1>4 DEF Breaks, CheckInv, Done
<1>5. CASE operation = "chkflash" /\ Passes /\ ~Breaks
  <2> DEFINE t == Tail(cmds)
             l == Len(cmds)
  <2>1. /\ cmds' = t /\ t \in Seq(Command) /\ l \in Nat /\ l > 0 /\ Len(t) = l - 1
        /\ \A i \in 1..l - 1 : t[i] = cmds[i + 1]
        /\ Head(cmds) = cmds[1]
    BY <1>1, <1>2, <1>5, TailOf DEF Passes
  <2>13. t = <<>> <=> l = 1
    <3> HIDE DEF t, l
    <3> QED
      BY <2>1
  <2>14. l \in 2..4 \/ l = 5 \/ l = 6 \/ l = 7 \/ l = 8 \/ l > 8 \/ l = 1
    <3> HIDE DEF t, l
    <3>1. l \in Nat /\ l > 0
      BY <2>1
    <3> QED
      BY <3>1
  <2>2. Layout(cmds) /\ Driving(l) /\ (Head(cmds) = LooksFirst \/ card = "baidu")
    BY <1>2, <1>5, <2>1 DEF CheckInv, Underway
  <2>3. Layout(t)
    BY <1>1, <1>2, <2>2, LayoutOfTail
  <2> DEFINE h == Head(cmds)
  <2>15. h = cmds[1] /\ Driving(l) /\ (h = LooksFirst \/ card = "baidu")
         /\ (l \in Nat /\ l > 0 => Place(cmds[1], l - 1) /\ (l - 1 = 6 /\ cmds[1].cmd = "rmmod" => cmds[1 + 1].cmd = "insmod"))
    <3>1. 1 \in 1..l
      BY <2>1
    <3> QED
      BY <2>1, <2>2, <3>1 DEF Layout
  <2> HIDE DEF l, t
  <2>4. Place(h, l - 1) /\ (l = 7 /\ h.cmd = "rmmod" => t[1].cmd = "insmod")
    <3>1. l = 7 => 1 \in 1..l - 1
      BY <2>1
    <3>2. l = 7 => t[1] = cmds[1 + 1]
      BY <2>1, <3>1
    <3> QED
      BY <2>1, <2>15, <3>2
  <2>5. /\ h.cmd = "rmmod" => inUse' \/ (module' = "none" /\ inUse' = inUse)
        /\ h.cmd # "rmmod" => inUse' = inUse
        /\ h.cmd = "insmod" => module' = "none" \/ module' = IF module = "none" THEN "new" ELSE module
        /\ h.cmd = "modprobe" => module' = "none" \/ module' = IF module = "none" THEN installed ELSE module
        /\ h.cmd \in {"install", "module_loaded", "table_there", "init_newcard", "device", "mark"} => module' = module
        /\ h.cmd = "install" /\ h.err = "ERRNOFILE" => installed' = "new"
        /\ h.cmd = "module_loaded" /\ h.err = "ERRINSMOD" => module # "none"
        /\ h.cmd = "lspci" /\ h.err = "ERRPCI" => card = "baidu"
        /\ card = "baidu" => card' = "baidu"
    BY <1>5, DriverCommands
  <2>6. card = "baidu" /\ card' = "baidu"
    BY <2>5, <2>15 DEF LooksFirst
  <2>7. ASSUME l = 1
        PROVE  Done'
    <3>1. h.cmd = "mark" /\ h.err = "ERRSETEC" /\ Driven
      BY <2>15, <2>4, <2>7 DEF Place, Driving
    <3>2. Driven'
      BY <2>5, <3>1 DEF Driven
    <3>3. reread' \/ counts' \in {"set", "partly"}
      BY <1>5, <2>6, <3>1, MarkSets
    <3> QED
      BY <3>2, <3>3 DEF Done
  <2>8. ASSUME l # 1
        PROVE  Driving(Len(cmds))'
    <3>1. Len(cmds') = l - 1 /\ cmds'[1] = t[1]
      BY <2>1
    <3>2. CASE l \in 2..4
      <4>1. h.cmd \in {"table_there", "init_newcard", "device"} /\ Driven
        <5>1. l - 1 \in 1..3 /\ l \in 1..4
          BY <3>2
        <5> QED
          BY <2>15, <2>4, <5>1 DEF Place, Driving
      <4>2. Driven'
        BY <2>5, <4>1 DEF Driven
      <4>3. Len(cmds') \notin {5, 6, 7}
        BY <3>1, <3>2
      <4> QED
        BY <4>2, <4>3 DEF Driving
    <3>3. CASE l = 5
      <4>1. h.cmd = "module_loaded" /\ h.err = "ERRINSMOD" /\ (Driven \/ module = "none")
        BY <2>15, <2>4, <3>3 DEF Place, Driving
      <4>2. Driven'
        BY <2>5, <4>1 DEF Driven
      <4> QED
        BY <3>1, <3>3, <4>2 DEF Driving
    <3>4. CASE l = 6
      <4>1. h.cmd \in {"insmod", "modprobe"} /\ (inUse \/ module = "none") /\ (h.cmd = "modprobe" => installed = "new")
        BY <2>1, <2>15, <2>4, <3>4 DEF Place, Driving
      <4>2. Driven' \/ module' = "none"
        BY <2>5, <4>1 DEF Driven
      <4> QED
        BY <3>1, <3>4, <4>2 DEF Driving
    <3>5. CASE l = 7
      <4>1. CASE h.cmd = "rmmod"
        <5>1. inUse' \/ module' = "none"
          BY <2>5, <4>1
        <5>2. t[1].cmd = "insmod" /\ Len(cmds') = 6
          BY <2>4, <3>1, <3>5, <4>1
        <5>3. cmds'[1].cmd # "modprobe"
          BY <3>1, <5>2
        <5>4. Len(cmds') \notin 1..4 /\ Len(cmds') # 5 /\ Len(cmds') # 7
          BY <5>2
        <5> QED
          BY <5>1, <5>3, <5>4 DEF Driving
      <4>2. CASE h = [cmd |-> "install", err |-> "ERRNOFILE"]
        <5>1. inUse \/ module = "none"
          BY <2>1, <2>15, <3>5, <4>2 DEF Driving
        <5>2. (inUse' \/ module' = "none") /\ installed' = "new"
          BY <2>5, <4>2, <5>1
        <5> QED
          BY <3>1, <3>5, <5>2 DEF Driving
      <4> QED
        BY <2>4, <3>5, <4>1, <4>2 DEF Place
    <3>6. CASE l = 8
      <4>1. h.cmd = "rmmod"
        BY <2>4, <3>6 DEF Place
      <4>2. inUse' \/ module' = "none"
        BY <2>5, <4>1
      <4> QED
        BY <3>1, <3>6, <4>2 DEF Driving
    <3>7. CASE l > 8
      BY <2>1, <3>1, <3>7 DEF Driving
    <3> QED
      BY <2>14, <2>8, <3>2, <3>3, <3>4, <3>5, <3>6, <3>7
  <2>9. cmds' = <<>> <=> l = 1
    BY <2>1, <2>13
  <2>10. Layout(cmds') /\ (cmds' # <<>> => reply' # "NOERR")
    BY <1>5, <2>1, <2>3 DEF Passes
  <2> HIDE DEF h
  <2>11. CASE l = 1
    BY <2>7, <2>9, <2>11 DEF CheckInv
  <2>12. CASE l # 1
    BY <2>6, <2>8, <2>9, <2>10, <2>12 DEF CheckInv, Underway
  <2> QED
    BY <2>11, <2>12
<1> QED
  BY <1>2, <1>3, <1>4, <1>5

LEMMA CheckInvIsInvariant == CardSpec => []CheckInv
<1>1. CardInit => CheckInv
  BY DEF CardInit, CheckInv
<1>2. TableInv /\ CheckInv /\ [CardNext]_cardVars => CheckInv'
  <2> SUFFICES ASSUME TableInv, CheckInv, [CardNext]_cardVars
               PROVE  CheckInv'
    OBVIOUS
  <2>1. CASE Commands
    BY <2>1, CheckKept
  <2>2. ASSUME NEW o \in DOMAIN opCall, rpcCall(o)
        PROVE  CheckInv'
    <3>1. CASE o # "chkflash"
      BY <2>2, <3>1 DEF rpcCall, CheckInv
    <3>2. CASE o = "chkflash"
      <4>1. cmds' = checkFlash
        BY <2>2, <3>2 DEF rpcCall, opCall
      <4>2. cmds' \in Seq(Command) /\ Layout(cmds') /\ Len(cmds') > 0 /\ cmds'[1] = LooksFirst
        BY <4>1, CheckFlashLaidOut DEF Starts
      <4>5. reply' = "pending" /\ cmds' # <<>>
        BY <2>2, <4>2 DEF rpcCall
      <4>3. Len(cmds') > 7 /\ Len(cmds') \in Nat
        BY <4>1, <4>2, CheckFlashLaidOut
      <4>4. Driving(Len(cmds))'
        <5>1. Len(cmds') \notin 1..4 /\ Len(cmds') # 5 /\ Len(cmds') # 6 /\ Len(cmds') # 7
          <6>1. \A n \in Nat : n > 7 => n \notin 1..4 /\ n # 5 /\ n # 6 /\ n # 7
            OBVIOUS
          <6> DEFINE n == Len(cmds')
          <6>2. n \in Nat /\ n > 7
            BY <4>3
          <6> HIDE DEF n
          <6> QED
            BY <6>1, <6>2 DEF n
        <5> QED
          BY <5>1 DEF Driving
      <4> QED
        BY <4>2, <4>4, <4>5 DEF CheckInv, Underway
    <3> QED
      BY <3>1, <3>2
  <2>3. CASE Restart
    BY <2>3 DEF Restart, CheckInv
  <2>4. CASE UNCHANGED cardVars
    BY <2>4 DEF cardVars, CheckInv, Underway, Done, Driving, Driven, Layout, Place
  <2> QED
    BY <2>1, <2>2, <2>3, <2>4 DEF CardNext, CardSteps
<1> QED
  BY <1>1, <1>2, TableInvIsInvariant, PTL DEF CardSpec

(***************************************************************************)
(* The erase counts of the other vendor survive the new firmware, and      *)
(* chkflash without an error leaves the new driver and the counts set, but *)
(* for marks that failed (cfgFlash, checkFlash).                           *)
(***************************************************************************)
THEOREM CountsCarriedOverHolds == ScriptsSpec => []CountsCarriedOver
<1>1. TableInv => FlashedWithTable
  BY DEF TableInv, FlashedWithTable
<1>2. TableInv /\ CheckInv => ReadyMeansSet
  BY DEF TableInv, CheckInv, Underway, Done, Driven, ReadyMeansSet
<1> QED
  BY <1>1, <1>2, CardAlone, TableInvIsInvariant, CheckInvIsInvariant, PTL DEF CountsCarriedOver

-----------------------------------------------------------------------------
(***************************************************************************)
(* compute_test.py alone.                                                  *)
(***************************************************************************)
ComputeNext == ComputeSteps \/ NovaSteps
ComputeSpec == (ComputeInit(1) \/ ComputeInit(XRounds + 1)) /\ [][ComputeNext]_compVars

LEMMA ComputeAlone == ScriptsSpec => ComputeSpec
<1>1. ScriptsInit => ComputeInit(1) \/ ComputeInit(XRounds + 1)
  BY DEF ScriptsInit, ComputeIdle
<1>2. [ProgramSteps \/ OtherSteps]_scriptsVars => [ComputeNext]_compVars
  <2>1. CASE Cloud((Script /\ UNCHANGED mulVars) \/ testcase_vm_mul_create_delete)
    BY <2>1 DEF Cloud
  <2>2. CASE Cloud((TokenExpires \/ Settles) /\ UNCHANGED mulVars)
    BY <2>2 DEF Cloud
  <2>3. CASE Compute(ComputeSteps) \/ Compute(NovaSteps)
    BY <2>3 DEF Compute, ComputeNext
  <2>4. CASE Upload(UploadSteps) \/ Upload(CookieExpires \/ QueryFails)
    BY <2>4 DEF Upload
  <2>5. CASE Card(Commands) \/ Card(Restart \/ \E o \in DOMAIN opCall : rpcCall(o))
    BY <2>5 DEF Card
  <2>6. CASE UNCHANGED scriptsVars
    BY <2>6 DEF scriptsVars
  <2> QED
    BY <2>1, <2>2, <2>3, <2>4, <2>5, <2>6 DEF ProgramSteps, OtherSteps
<1> QED
  BY <1>1, <1>2, PTL DEF ScriptsSpec, ComputeSpec

-----------------------------------------------------------------------------
(***************************************************************************)
(* The steps of a round: the volume and the server are made by the first   *)
(* three, the address by one of the others, and clean_env is the last      *)
(* four.  Harmless steps make and delete nothing.                          *)
(***************************************************************************)
Harmless == {"ask", "must", "look", "loop", "loop_unread", "confirm", "ping", "floating_ip_associate",
          "floating_ip_disassociate"}
IsSteps(s) == \E S : s \in Seq(S)
Name(s, i) == s[i][1]
Chores(s)    == IsSteps(s) /\ Len(s) \in Nat /\ \A i \in 1..Len(s) : Name(s, i) \in Harmless
Both(a, b) == a \o b

\* fip: the place of the step that makes the address, or 0 before it
StartOf(s, fip) ==
  /\ IsSteps(s) /\ Len(s) \in Nat /\ Len(s) >= 3 /\ fip \in Nat /\ fip <= Len(s)
  /\ Name(s, 1) = "create_volume" /\ Name(s, 2) = "volume_loop" /\ Name(s, 3) = "boot_from_volume"
  /\ \A i \in 4..Len(s) : IF i = fip THEN Name(s, i) = "floatingip_create" ELSE Name(s, i) \in Harmless

LEMMA BothSteps ==
  ASSUME NEW a, IsSteps(a), NEW b, IsSteps(b)
  PROVE  /\ IsSteps(Both(a, b)) /\ Len(a) \in Nat /\ Len(b) \in Nat /\ Len(Both(a, b)) = Len(a) + Len(b)
         /\ \A i \in 1..Len(a) : Name(Both(a, b), i) = Name(a, i)
         /\ \A i \in 1..Len(b) : Name(Both(a, b), Len(a) + i) = Name(b, i)
<1>1. PICK S : a \in Seq(S)
  BY DEF IsSteps
<1>2. PICK T : b \in Seq(T)
  BY DEF IsSteps
<1> DEFINE U == S \cup T
<1>3. a \in Seq(U) /\ b \in Seq(U)
  <2>1. Len(a) \in Nat /\ a = [i \in 1..Len(a) |-> a[i]] /\ \A i \in 1..Len(a) : a[i] \in U
    BY <1>1
  <2>2. Len(b) \in Nat /\ b = [i \in 1..Len(b) |-> b[i]] /\ \A i \in 1..Len(b) : b[i] \in U
    BY <1>2
  <2> HIDE DEF U
  <2> QED
    BY <2>1, <2>2
<1> HIDE DEF U
<1>4. /\ a \o b \in Seq(U) /\ Len(a) \in Nat /\ Len(b) \in Nat /\ Len(a \o b) = Len(a) + Len(b)
      /\ \A i \in 1..Len(a) : (a \o b)[i] = a[i]
      /\ \A i \in 1..Len(b) : (a \o b)[Len(a) + i] = b[i]
  BY <1>3
<1> QED
  BY <1>4 DEF Both, Name, IsSteps

LEMMA RoundGoesOn ==
  ASSUME NEW a, NEW fip, StartOf(a, fip), NEW b, Chores(b)
  PROVE  StartOf(Both(a, b), fip) /\ Len(Both(a, b)) = Len(a) + Len(b)
<1> DEFINE c == Both(a, b)
           n == Len(a)
           m == Len(b)
<1>1. /\ IsSteps(c) /\ n \in Nat /\ m \in Nat /\ Len(c) = n + m
      /\ \A i \in 1..n : Name(c, i) = Name(a, i)
      /\ \A i \in 1..m : Name(c, n + i) = Name(b, i)
  <2>1. IsSteps(a) /\ IsSteps(b)
    BY DEF StartOf, Chores
  <2> QED
    BY <2>1, BothSteps
<1>2. /\ n >= 3 /\ fip \in Nat /\ fip <= n
      /\ Name(a, 1) = "create_volume" /\ Name(a, 2) = "volume_loop" /\ Name(a, 3) = "boot_from_volume"
      /\ \A i \in 4..n : IF i = fip THEN Name(a, i) = "floatingip_create" ELSE Name(a, i) \in Harmless
      /\ \A i \in 1..m : Name(b, i) \in Harmless
  BY DEF StartOf, Chores
<1> HIDE DEF c, n, m
<1>3. ASSUME NEW i \in 4..Len(c)
      PROVE  IF i = fip THEN Name(c, i) = "floatingip_create" ELSE Name(c, i) \in Harmless
  <2>1. CASE i <= n
    BY <1>1, <1>2, <2>1
  <2>2. CASE i > n
    <3>1. i - n \in 1..m /\ i = n + (i - n) /\ i # fip
      BY <1>1, <1>2, <2>2
    <3>2. Name(c, i) = Name(b, i - n)
      BY <1>1, <3>1
    <3> QED
      BY <1>2, <3>1, <3>2
  <2> QED
    BY <1>1, <1>2, <2>1, <2>2
<1>4. Name(c, 1) = "create_volume" /\ Name(c, 2) = "volume_loop" /\ Name(c, 3) = "boot_from_volume"
  BY <1>1, <1>2
<1>5. Len(c) \in Nat /\ Len(c) >= 3 /\ fip <= Len(c)
  BY <1>1, <1>2
<1> QED
  BY <1>1, <1>2, <1>3, <1>4, <1>5 DEF StartOf, c, n, m

LEMMA ChoresJoined ==
  ASSUME NEW a, Chores(a), NEW b, Chores(b)
  PROVE  Chores(Both(a, b)) /\ Len(Both(a, b)) = Len(a) + Len(b)
<1> DEFINE c == Both(a, b)
           n == Len(a)
           m == Len(b)
<1>1. /\ IsSteps(c) /\ n \in Nat /\ m \in Nat /\ Len(c) = n + m
      /\ \A i \in 1..n : Name(c, i) = Name(a, i)
      /\ \A i \in 1..m : Name(c, n + i) = Name(b, i)
  <2>1. IsSteps(a) /\ IsSteps(b)
    BY DEF Chores
  <2> QED
    BY <2>1, BothSteps
<1>2. (\A i \in 1..n : Name(a, i) \in Harmless) /\ (\A i \in 1..m : Name(b, i) \in Harmless)
  BY DEF Chores
<1> HIDE DEF c, n, m
<1>3. ASSUME NEW i \in 1..Len(c)
      PROVE  Name(c, i) \in Harmless
  <2>1. CASE i <= n
    BY <1>1, <1>2, <2>1
  <2>2. CASE i > n
    <3>1. i - n \in 1..m /\ i = n + (i - n)
      BY <1>1, <2>2
    <3>2. Name(c, i) = Name(b, i - n)
      BY <1>1, <3>1
    <3> QED
      BY <1>2, <3>1, <3>2
  <2> QED
    BY <1>1, <2>1, <2>2
<1>4. Len(c) \in Nat
  BY <1>1
<1> QED
  BY <1>1, <1>3, <1>4 DEF Chores, c, n, m

LEMMA OneChore ==
  ASSUME NEW e, e[1] \in Harmless
  PROVE  Chores(<<e>>) /\ Len(<<e>>) = 1
<1> DEFINE s == <<e>>
<1>1. s \in Seq({e}) /\ Len(s) = 1 /\ s[1] = e
  OBVIOUS
<1> HIDE DEF s
<1>2. IsSteps(s)
  BY <1>1 DEF IsSteps
<1>3. \A i \in 1..Len(s) : i = 1
  BY <1>1
<1>4. \A i \in 1..Len(s) : Name(s, i) \in Harmless
  BY <1>1, <1>3 DEF Name
<1>5. Chores(s)
  BY <1>1, <1>2, <1>4 DEF Chores
<1> QED
  BY <1>1, <1>5 DEF s

LEMMA TwoChores ==
  ASSUME NEW e, e[1] \in Harmless, NEW f, f[1] \in Harmless
  PROVE  Chores(<<e, f>>) /\ Len(<<e, f>>) = 2
<1> DEFINE s == <<e, f>>
<1>1. s \in Seq({e, f}) /\ Len(s) = 2 /\ s[1] = e /\ s[2] = f
  OBVIOUS
<1> HIDE DEF s
<1>2. IsSteps(s)
  BY <1>1 DEF IsSteps
<1>3. \A i \in 1..Len(s) : i = 1 \/ i = 2
  BY <1>1
<1>4. \A i \in 1..Len(s) : Name(s, i) \in Harmless
  BY <1>1, <1>3 DEF Name
<1>5. Chores(s)
  BY <1>1, <1>2, <1>4 DEF Chores
<1> QED
  BY <1>1, <1>5 DEF s

LEMMA ThreeChores ==
  ASSUME NEW e, e[1] \in Harmless, NEW f, f[1] \in Harmless, NEW g, g[1] \in Harmless
  PROVE  Chores(<<e, f, g>>) /\ Len(<<e, f, g>>) = 3
<1> DEFINE s == <<e, f, g>>
<1>1. s \in Seq({e, f, g}) /\ Len(s) = 3 /\ s[1] = e /\ s[2] = f /\ s[3] = g
  OBVIOUS
<1> HIDE DEF s
<1>2. IsSteps(s)
  BY <1>1 DEF IsSteps
<1>3. \A i \in 1..Len(s) : i = 1 \/ i = 2 \/ i = 3
  BY <1>1
<1>4. \A i \in 1..Len(s) : Name(s, i) \in Harmless
  BY <1>1, <1>3 DEF Name
<1>5. Chores(s)
  BY <1>1, <1>2, <1>4 DEF Chores
<1> QED
  BY <1>5 DEF s

LEMMA FourChores ==
  ASSUME NEW e, e[1] \in Harmless, NEW f, f[1] \in Harmless, NEW g, g[1] \in Harmless, NEW h, h[1] \in Harmless
  PROVE  Chores(<<e, f, g, h>>)
<1> DEFINE s == <<e, f, g, h>>
<1>1. s \in Seq({e, f, g, h}) /\ Len(s) = 4 /\ s[1] = e /\ s[2] = f /\ s[3] = g /\ s[4] = h
  OBVIOUS
<1> HIDE DEF s
<1>2. IsSteps(s)
  BY <1>1 DEF IsSteps
<1>3. \A i \in 1..Len(s) : i = 1 \/ i = 2 \/ i = 3 \/ i = 4
  BY <1>1
<1>4. \A i \in 1..Len(s) : Name(s, i) \in Harmless
  BY <1>1, <1>3 DEF Name
<1>5. Chores(s)
  BY <1>1, <1>2, <1>4 DEF Chores
<1> QED
  BY <1>5 DEF s

LEMMA SixChores ==
  ASSUME NEW e, e[1] \in Harmless, NEW f, f[1] \in Harmless, NEW g, g[1] \in Harmless,
         NEW h, h[1] \in Harmless, NEW j, j[1] \in Harmless, NEW k, k[1] \in Harmless
  PROVE  Chores(<<e, f, g, h, j, k>>)
<1> DEFINE s == <<e, f, g, h, j, k>>
<1>1. /\ s \in Seq({e, f, g, h, j, k}) /\ Len(s) = 6
      /\ s[1] = e /\ s[2] = f /\ s[3] = g /\ s[4] = h /\ s[5] = j /\ s[6] = k
  OBVIOUS
<1> HIDE DEF s
<1>2. IsSteps(s)
  BY <1>1 DEF IsSteps
<1>3. \A i \in 1..Len(s) : i = 1 \/ i = 2 \/ i = 3 \/ i = 4 \/ i = 5 \/ i = 6
  BY <1>1
<1>4. \A i \in 1..Len(s) : Name(s, i) \in Harmless
  BY <1>1, <1>3 DEF Name
<1>5. Chores(s)
  BY <1>1, <1>2, <1>4 DEF Chores
<1> QED
  BY <1>5 DEF s

-----------------------------------------------------------------------------
(***************************************************************************)
(* Before clean_env what the round has made is known by an id, or will     *)
(* never be; clean_env asks for one kind after the other.  What belongs to *)
(* earlier rounds has been asked for.                                      *)
(***************************************************************************)
Addressed == 9 + 3  \* the place of floatingip_create
Owed(k, r) == <<k, r>> \in asked \cup missed

RoundType ==
  /\ index \in 1..XRounds + 1 /\ x \in 1..Cleaning + 4 /\ xfaults \in Nat
  /\ test_server_id = test_volume_id /\ test_volume_id \in 0..XRounds /\ test_floating_ip_id \in 0..XRounds
  /\ xservers \subseteq 1..index /\ xvolumes \subseteq 1..index /\ xfips \subseteq (1..index) \cup {SharedId}
  /\ SharedId \in xfips

Past ==
  /\ \A r \in xservers : r < index => Owed("server", r)
  /\ \A r \in xvolumes : r < index => Owed("volume", r)
  /\ \A r \in xfips : r < index => Owed("fip", r)

ServerKnown == /\ x > 3 /\ x <= Cleaning + 4
               /\ IF x <= Cleaning + 1 /\ test_volume_id = index THEN TRUE ELSE Owed("server", index)
VolumeKnown == /\ x > 1
               /\ IF x <= 3 \/ (x <= Cleaning + 3 /\ test_volume_id = index) THEN TRUE ELSE Owed("volume", index)
AddressKnown == /\ x > Addressed
                /\ IF /\ x <= Cleaning /\ test_floating_ip_id = index /\ test_volume_id = index
                      /\ floating_ip # Shared
                   THEN TRUE ELSE Owed("fip", index)

Current == index <= XRounds =>
  /\ x > 3 /\ x < Cleaning => test_volume_id = index
  /\ index \in xservers => ServerKnown
  /\ index \in xvolumes => VolumeKnown
  /\ index \in xfips => AddressKnown

\* without a fault: what the round made, and what Nova is deleting or outlasted the polls
NoFault == xfaults = 0 =>
  /\ xservers \subseteq deleting \cup {index} /\ xvolumes \subseteq slow \cup {index}
  /\ xfips \subseteq {index, SharedId}
  /\ x = 1 => xservers \subseteq deleting /\ xvolumes \subseteq slow /\ xfips = {SharedId}
  /\ x > 3 => test_volume_id = index
  /\ x <= Cleaning /\ index \in xfips /\ index # SharedId => test_floating_ip_id = index /\ floating_ip # Shared
  /\ x > Cleaning => xfips = {SharedId}
  /\ x > Cleaning + 1 => xservers \subseteq deleting
  /\ x > Cleaning + 2 => (index \in xservers \cap xvolumes => index \in slow)
  /\ x > Cleaning + 3 => xvolumes \subseteq slow

RoundInv == RoundType /\ Past /\ Current /\ NoFault

LEMMA AddressMade ==
  ASSUME NEW a, StartOf(a, 0), NEW e, e[1] = "floatingip_create", NEW f, f[1] \in Harmless
  PROVE  StartOf(Both(a, <<e, f>>), Len(a) + 1)
<1> DEFINE b == <<e, f>>
           c == Both(a, b)
           n == Len(a)
<1>1. b \in Seq({e, f}) /\ Len(b) = 2 /\ b[1] = e /\ b[2] = f
  OBVIOUS
<1>2. IsSteps(a) /\ IsSteps(b)
  BY <1>1 DEF StartOf, IsSteps
<1> HIDE DEF b
<1>3. /\ IsSteps(c) /\ n \in Nat /\ Len(c) = n + 2
      /\ \A i \in 1..n : Name(c, i) = Name(a, i)
      /\ \A i \in 1..2 : Name(c, n + i) = Name(b, i)
  <2>1. /\ IsSteps(Both(a, b)) /\ Len(a) \in Nat /\ Len(b) \in Nat /\ Len(Both(a, b)) = Len(a) + Len(b)
        /\ \A i \in 1..Len(a) : Name(Both(a, b), i) = Name(a, i)
        /\ \A i \in 1..Len(b) : Name(Both(a, b), Len(a) + i) = Name(b, i)
    BY <1>2, BothSteps
  <2> QED
    BY <1>1, <2>1
<1>4. Name(b, 1) = "floatingip_create" /\ Name(b, 2) \in Harmless
  BY <1>1 DEF Name
<1>5. Name(c, n + 1) = "floatingip_create" /\ Name(c, n + 2) \in Harmless
  BY <1>3, <1>4
<1>6. /\ n >= 3
      /\ Name(a, 1) = "create_volume" /\ Name(a, 2) = "volume_loop" /\ Name(a, 3) = "boot_from_volume"
      /\ \A i \in 4..n : Name(a, i) \in Harmless
  BY DEF StartOf
<1> HIDE DEF c, n
<1>7. ASSUME NEW i \in 4..Len(c)
      PROVE  IF i = n + 1 THEN Name(c, i) = "floatingip_create" ELSE Name(c, i) \in Harmless
  <2>1. i <= n \/ i = n + 1 \/ i = n + 2
    BY <1>3
  <2> QED
    BY <1>3, <1>5, <1>6, <2>1
<1>8. Name(c, 1) = "create_volume" /\ Name(c, 2) = "volume_loop" /\ Name(c, 3) = "boot_from_volume"
  BY <1>3, <1>6
<1>9. Len(c) \in Nat /\ Len(c) >= 3 /\ n + 1 <= Len(c) /\ n + 1 \in Nat
  BY <1>3, <1>6
<1> QED
  BY <1>3, <1>7, <1>8, <1>9 DEF StartOf, b, c, n

LEMMA RoundLaidOut == StartOf(testcases_one_round, Addressed)
<1> DEFINE a0 == test_boot_from_volume
           lk == <<Look>>
           a1 == Both(a0, lk)
           a2 == Both(a1, test_reboot)
           a3 == Both(a2, stop_server)
           a4 == Both(a3, start_server)
           a5 == Both(a4, lk)
           e1 == <<"floatingip_create">>
           e2 == <<"floating_ip_associate">>
           a6 == Both(a5, <<e1, e2>>)
           a7 == Both(a6, ping_floating_ip)
           a8 == Both(a7, test_resize)
           a9 == Both(a8, test_live_migrate)
           b0 == Both(a9, test_migrate)
           di == << <<"floating_ip_disassociate">> >>
           b1 == Both(b0, di)
<1>1. StartOf(a0, 0) /\ Len(a0) = 3
  <2> DEFINE e == <<"create_volume">>
             f == <<"volume_loop">>
             g == <<"boot_from_volume">>
             s == <<e, f, g>>
  <2>1. /\ s \in Seq({e, f, g}) /\ Len(s) = 3 /\ s[1] = e /\ s[2] = f /\ s[3] = g
    OBVIOUS
  <2>2. e[1] = "create_volume" /\ f[1] = "volume_loop" /\ g[1] = "boot_from_volume"
    OBVIOUS
  <2>3. s = a0
    BY DEF test_boot_from_volume
  <2> HIDE DEF s, e, f, g, a0
  <2>4. IsSteps(s)
    BY <2>1 DEF IsSteps
  <2>5. Name(s, 1) = "create_volume" /\ Name(s, 2) = "volume_loop" /\ Name(s, 3) = "boot_from_volume"
    BY <2>1, <2>2 DEF Name
  <2>6. StartOf(s, 0)
    BY <2>1, <2>4, <2>5 DEF StartOf
  <2> QED
    BY <2>1, <2>3, <2>6
<1>2. Chores(lk) /\ Len(lk) = 1
  <2>1. Look[1] \in Harmless
    BY DEF Look, Harmless
  <2> QED
    BY <2>1, OneChore
<1>3. /\ Chores(test_reboot) /\ Len(test_reboot) = 3 /\ Chores(stop_server) /\ Len(stop_server) = 2
      /\ Chores(start_server) /\ Len(start_server) = 1
  <2>1. /\ Ask("reboot_server", "REBOOT", "ACTIVE")[1] \in Harmless /\ Must("REBOOT")[1] \in Harmless
        /\ Must("ACTIVE")[1] \in Harmless /\ Ask("stop_server", "same", "SHUTOFF")[1] \in Harmless
        /\ Must("SHUTOFF")[1] \in Harmless /\ Ask("start_server", "same", "ACTIVE")[1] \in Harmless
    BY DEF Ask, Must, Harmless
  <2>2. Chores(start_server) /\ Len(start_server) = 1
    BY <2>1, OneChore DEF start_server
  <2>3. Chores(stop_server) /\ Len(stop_server) = 2
    BY <2>1, TwoChores DEF stop_server
  <2>4. Chores(test_reboot) /\ Len(test_reboot) = 3
    BY <2>1, ThreeChores DEF test_reboot
  <2> QED
    BY <2>2, <2>3, <2>4
<1>4. Chores(ping_floating_ip) /\ Chores(di)
  <2>1. <<"ping">>[1] \in Harmless /\ <<"floating_ip_disassociate">>[1] \in Harmless
    BY DEF Harmless
  <2> QED
    BY <2>1, OneChore DEF ping_floating_ip

<1>5. Chores(test_resize)
  <2> DEFINE p == Ask("resize_server", "RESIZE", "VERIFY_RESIZE")
             q == Loop({"VERIFY_RESIZE"})
             r == Must("VERIFY_RESIZE")
             u == Confirm(TRUE)
             v == Loop({"ACTIVE"})
             w == Must("ACTIVE")
             s == <<p, q, r, u>>
             t == <<v, w>>
  <2>1. /\ p[1] \in Harmless /\ q[1] \in Harmless /\ r[1] \in Harmless /\ u[1] \in Harmless
        /\ v[1] \in Harmless /\ w[1] \in Harmless
    BY DEF Harmless, Ask, Must, Loop, Confirm
  <2> HIDE DEF p, q, r, u, v, w
  <2>2. Chores(s) /\ Chores(t)
    <3>1. Chores(s)
      BY <2>1, FourChores
    <3>2. Chores(t)
      BY <2>1, TwoChores
    <3> QED
      BY <3>1, <3>2
  <2> HIDE DEF s, t
  <2>3. Chores(Both(stop_server, s))
    BY <1>3, <2>2, ChoresJoined
  <2>4. Chores(Both(Both(stop_server, s), start_server))
    BY <1>3, <2>3, ChoresJoined
  <2>5. Chores(Both(Both(Both(stop_server, s), start_server), t))
    BY <2>2, <2>4, ChoresJoined
  <2> QED
    BY <2>5 DEF test_resize, Both, s, t, p, q, r, u, v, w
<1>6. Chores(test_live_migrate) /\ Chores(test_migrate)
  <2> DEFINE p == Ask("live_migrate", "MIGRATING", "ACTIVE")
             q == Loop({"VERIFY_RESIZE", "ACTIVE"})
             r == Ask("migrate", "RESIZE", "VERIFY_RESIZE")
             u == <<"loop_unread">>
             v == <<"ping">>
             k == Look
             c == Confirm(FALSE)
             m == Must("ACTIVE")
  <2>1. /\ p[1] \in Harmless /\ q[1] \in Harmless /\ r[1] \in Harmless /\ u[1] \in Harmless /\ v[1] \in Harmless
        /\ k[1] \in Harmless /\ c[1] \in Harmless /\ m[1] \in Harmless
    BY DEF Harmless, Ask, Must, Loop, Confirm, Look
  <2>2. test_live_migrate = <<p, q, k, c, m, v>>
    BY DEF test_live_migrate
  <2>3. test_migrate = <<r, k, u, c, m, v>>
    BY DEF test_migrate
  <2> HIDE DEF p, q, r, u, v, k, c, m
  <2>4. Chores(<<p, q, k, c, m, v>>)
    BY <2>1, SixChores
  <2>5. Chores(<<r, k, u, c, m, v>>)
    BY <2>1, SixChores
  <2> QED
    BY <2>2, <2>3, <2>4, <2>5
<1>7. testcases_one_round = b1
  BY DEF testcases_one_round, Both
<1> HIDE DEF a0, a1, a2, a3, a4, a5, a6, a7, a8, a9, b0, b1, lk, di, e1, e2
<1>8. StartOf(a5, 0) /\ Len(a5) = 9 + 2
  <2>1. StartOf(a1, 0) /\ Len(a1) = Len(a0) + Len(lk)
    BY <1>1, <1>2, RoundGoesOn DEF a1
  <2>2. StartOf(a2, 0) /\ Len(a2) = Len(a1) + Len(test_reboot)
    BY <1>3, <2>1, RoundGoesOn DEF a2
  <2>3. StartOf(a3, 0) /\ Len(a3) = Len(a2) + Len(stop_server)
    BY <1>3, <2>2, RoundGoesOn DEF a3
  <2>4. StartOf(a4, 0) /\ Len(a4) = Len(a3) + Len(start_server)
    BY <1>3, <2>3, RoundGoesOn DEF a4
  <2>5. StartOf(a5, 0) /\ Len(a5) = Len(a4) + Len(lk)
    BY <1>2, <2>4, RoundGoesOn DEF a5
  <2> QED
    BY <1>1, <1>2, <1>3, <2>1, <2>2, <2>3, <2>4, <2>5
<1>9. StartOf(a6, Addressed)
  <2>1. e1[1] = "floatingip_create" /\ e2[1] \in Harmless
    BY DEF e1, e2, Harmless
  <2>2. StartOf(Both(a5, <<e1, e2>>), Len(a5) + 1)
    BY <1>8, <2>1, AddressMade
  <2>3. Len(a5) + 1 = Addressed
    BY <1>8 DEF Addressed
  <2> QED
    BY <2>2, <2>3 DEF a6
<1>10. StartOf(b1, Addressed)
  <2>1. StartOf(a7, Addressed)
    BY <1>4, <1>9, RoundGoesOn DEF a7
  <2>2. StartOf(a8, Addressed)
    BY <1>5, <2>1, RoundGoesOn DEF a8
  <2>3. StartOf(a9, Addressed)
    BY <1>6, <2>2, RoundGoesOn DEF a9
  <2>4. StartOf(b0, Addressed)
    BY <1>6, <2>3, RoundGoesOn DEF b0
  <2> QED
    BY <1>4, <2>4, RoundGoesOn DEF b1
<1> QED
  BY <1>7, <1>10

LEMMA ProgramLaidOut ==
  /\ Cleaning \in Nat /\ Addressed \in Nat /\ 3 < Addressed /\ Addressed < Cleaning /\ Len(Program) = Cleaning + 3
  /\ Name(Program, 1) = "create_volume" /\ Name(Program, 2) = "volume_loop"
  /\ Name(Program, 3) = "boot_from_volume" /\ Name(Program, Addressed) = "floatingip_create"
  /\ \A i \in 4..Cleaning - 1 : i # Addressed => Name(Program, i) \in Harmless
  /\ Name(Program, Cleaning) = "floatingip_delete" /\ Name(Program, Cleaning + 1) = "delete_server"
  /\ Name(Program, Cleaning + 2) = "volume_free" /\ Name(Program, Cleaning + 3) = "delete_volume"
<1> DEFINE a == testcases_one_round
           e == <<"floatingip_delete">>
           f == <<"delete_server">>
           g == <<"volume_free">>
           h == <<"delete_volume">>
           b == <<e, f, g, h>>
           n == Len(a)
           c == Both(a, b)
<1>1. b \in Seq({e, f, g, h}) /\ Len(b) = 4 /\ b[1] = e /\ b[2] = f /\ b[3] = g /\ b[4] = h
  OBVIOUS
<1>2. e[1] = "floatingip_delete" /\ f[1] = "delete_server" /\ g[1] = "volume_free" /\ h[1] = "delete_volume"
  OBVIOUS
<1>3. Program = c
  BY DEF Program, clean_env, Both
<1> HIDE DEF a, e, f, g, h, b
<1>4. /\ Name(b, 1) = "floatingip_delete" /\ Name(b, 2) = "delete_server"
      /\ Name(b, 3) = "volume_free" /\ Name(b, 4) = "delete_volume"
  BY <1>1, <1>2 DEF Name
<1>5. StartOf(a, Addressed)
  BY RoundLaidOut DEF a
<1>6. /\ IsSteps(a) /\ n \in Nat /\ n >= 3 /\ Addressed <= n
      /\ Name(a, 1) = "create_volume" /\ Name(a, 2) = "volume_loop" /\ Name(a, 3) = "boot_from_volume"
      /\ \A i \in 4..n : IF i = Addressed THEN Name(a, i) = "floatingip_create" ELSE Name(a, i) \in Harmless
  BY <1>5 DEF StartOf
<1>7. IsSteps(b)
  BY <1>1 DEF IsSteps
<1>8. /\ Len(c) = n + Len(b)
      /\ \A i \in 1..n : Name(c, i) = Name(a, i)
      /\ \A i \in 1..Len(b) : Name(c, n + i) = Name(b, i)
  <2>1. /\ Len(Both(a, b)) = Len(a) + Len(b)
        /\ \A i \in 1..Len(a) : Name(Both(a, b), i) = Name(a, i)
        /\ \A i \in 1..Len(b) : Name(Both(a, b), Len(a) + i) = Name(b, i)
    <3>1. IsSteps(a)
      BY <1>6
    <3> HIDE DEF n, c
    <3> QED
      BY <1>7, <3>1, BothSteps
  <2> QED
    BY <2>1
<1>9. Cleaning = n + 1
  BY DEF Cleaning, a
<1> HIDE DEF n, c
<1>10. Addressed \in Nat /\ 3 < Addressed
  BY DEF Addressed
<1>11. /\ Name(c, n + 1) = Name(b, 1) /\ Name(c, n + 2) = Name(b, 2) /\ Name(c, n + 3) = Name(b, 3)
       /\ Name(c, n + 4) = Name(b, 4) /\ Len(c) = n + 4
  BY <1>1, <1>8
<1>12. /\ Cleaning + 1 = n + 2 /\ Cleaning + 2 = n + 3 /\ Cleaning + 3 = n + 4
       /\ Cleaning \in Nat /\ Addressed < Cleaning /\ Cleaning - 1 = n
  BY <1>6, <1>9, <1>10
<1>13. ASSUME NEW i \in 4..Cleaning - 1, i # Addressed
       PROVE  Name(c, i) \in Harmless
  <2>1. i \in 4..n /\ i \in 1..n
    BY <1>6, <1>12, <1>13
  <2> QED
    BY <1>6, <1>8, <1>13, <2>1
<1>14. Name(c, Addressed) = "floatingip_create"
  <2>1. Addressed \in 4..n /\ Addressed \in 1..n
    BY <1>6, <1>10
  <2> QED
    BY <1>6, <1>8, <2>1
<1>15. Name(c, 1) = "create_volume" /\ Name(c, 2) = "volume_loop" /\ Name(c, 3) = "boot_from_volume"
  BY <1>6, <1>8
<1> HIDE DEF Cleaning
<1>16. /\ Name(c, Cleaning) = "floatingip_delete" /\ Name(c, Cleaning + 1) = "delete_server"
       /\ Name(c, Cleaning + 2) = "volume_free" /\ Name(c, Cleaning + 3) = "delete_volume"
       /\ Len(c) = Cleaning + 3
  BY <1>4, <1>9, <1>11, <1>12
<1> QED
  BY <1>3, <1>10, <1>12, <1>13, <1>14, <1>15, <1>16

LEMMA Places ==
  ASSUME NEW i \in 1..Cleaning + 3
  PROVE  LET s == Name(Program, i) IN
         /\ s = "create_volume" => i = 1
         /\ s = "volume_loop" => i = 2
         /\ s = "boot_from_volume" <=> i = 3
         /\ s = "floatingip_create" => i = Addressed
         /\ s \in Harmless => 3 < i /\ i < Cleaning
         /\ s = "floatingip_delete" => i = Cleaning
         /\ s = "delete_server" => i = Cleaning + 1
         /\ s = "volume_free" => i = Cleaning + 2
         /\ s = "delete_volume" => i = Cleaning + 3
         /\ i = 1 => s = "create_volume"
         /\ i = 2 => s = "volume_loop"
<1> DEFINE s == Name(Program, i)
           n == Cleaning
           f == Addressed
<1>1. /\ n \in Nat /\ f \in Nat /\ 3 < f /\ f < n
      /\ i = 1 => s = "create_volume"
      /\ i = 2 => s = "volume_loop"
      /\ i = 3 => s = "boot_from_volume"
      /\ i = f => s = "floatingip_create"
      /\ i \in 4..n - 1 /\ i # f => s \in Harmless
      /\ i = n => s = "floatingip_delete"
      /\ i = n + 1 => s = "delete_server"
      /\ i = n + 2 => s = "volume_free"
      /\ i = n + 3 => s = "delete_volume"
  BY ProgramLaidOut
<1> HIDE DEF s, n, f
<1>2. i \in 1..n + 3
  BY DEF n
<1>3. \/ i = 1 \/ i = 2 \/ i = 3 \/ i = f \/ (i \in 4..n - 1 /\ i # f) \/ i = n \/ i = n + 1 \/ i = n + 2 \/ i = n + 3
  BY <1>1, <1>2
<1>4. {"create_volume", "volume_loop", "boot_from_volume", "floatingip_create", "floatingip_delete",
       "delete_server", "volume_free", "delete_volume"} \cap Harmless = {}
  BY DEF Harmless
<1>5. /\ s = "create_volume" => i = 1
      /\ s = "volume_loop" => i = 2
      /\ s = "boot_from_volume" <=> i = 3
      /\ s = "floatingip_create" => i = f
      /\ s \in Harmless => 3 < i /\ i < n
      /\ s = "floatingip_delete" => i = n
      /\ s = "delete_server" => i = n + 1
      /\ s = "volume_free" => i = n + 2
      /\ s = "delete_volume" => i = n + 3
  BY <1>1, <1>2, <1>3, <1>4
<1> QED
  BY <1>1, <1>5 DEF s, n, f

\* what an action may do to the past
Forwards ==
  /\ index' = index /\ asked \subseteq asked' /\ missed \subseteq missed'
  /\ xservers' \subseteq xservers \cup {index} /\ xvolumes' \subseteq xvolumes \cup {index}
  /\ xfips' \subseteq xfips \cup {index} /\ SharedId \in xfips'
  /\ xfaults' \in Nat /\ (xfaults' = 0 => xfaults = 0)

LEMMA ForwardsKeeps ==
  ASSUME RoundType, Past, Forwards
  PROVE  /\ Past'
         /\ xservers' \subseteq 1..index' /\ xvolumes' \subseteq 1..index'
         /\ xfips' \subseteq (1..index') \cup {SharedId} /\ SharedId' \in xfips'
<1>1. index \in Nat /\ index \in 1..index
  BY ComputeAssumption DEF RoundType
<1>2. SharedId' = SharedId
  BY DEF SharedId
<1>3. /\ \A r \in xservers' : r < index' => Owed("server", r)'
      /\ \A r \in xvolumes' : r < index' => Owed("volume", r)'
      /\ \A r \in xfips' : r < index' => Owed("fip", r)'
  BY <1>1 DEF Past, Forwards, Owed
<1> QED
  BY <1>1, <1>2, <1>3 DEF Past, Forwards, RoundType

LEMMA Fixed == Cleaning' = Cleaning /\ Addressed' = Addressed /\ SharedId' = SharedId
  BY DEF Addressed, SharedId, Cleaning, testcases_one_round, test_boot_from_volume, Look, test_reboot, stop_server,
         start_server, ping_floating_ip, test_resize, test_live_migrate, test_migrate, Ask, Must, Loop, Confirm

\* a step that makes and deletes nothing
LEMMA Moves ==
  ASSUME RoundInv, UNCHANGED <<index, testIds, things, deleting, asked, missed, slow>>, index <= XRounds,
         xfaults' \in Nat, xfaults' = 0 => xfaults = 0,
         \/ x' = x /\ floating_ip' = floating_ip
         \/ x = 2 /\ x' = 3
         \/ x > 3 /\ x < Cleaning /\ x' = x + 1 /\ floating_ip' = floating_ip
         \/ x > 3 /\ x < Cleaning /\ x' = Cleaning /\ floating_ip' = "None"
  PROVE  RoundInv'
<1> DEFINE n == Cleaning
           f == Addressed
<1>1. n \in Nat /\ f \in Nat /\ 3 < f /\ f < n /\ n' = n /\ f' = f /\ SharedId' = SharedId
  BY ProgramLaidOut, Fixed
<1>2. /\ index' = index /\ xservers' = xservers /\ xvolumes' = xvolumes /\ xfips' = xfips
      /\ asked' = asked /\ missed' = missed /\ deleting' = deleting /\ slow' = slow
      /\ test_server_id' = test_server_id
      /\ test_volume_id' = test_volume_id /\ test_floating_ip_id' = test_floating_ip_id
  BY DEF testIds, things
<1>3. RoundType /\ Past /\ Current /\ NoFault /\ x \in Nat
  BY <1>1 DEF RoundInv, RoundType
<1>4. Forwards
  BY <1>2, <1>3 DEF Forwards, RoundType
<1>5. Past'
  BY <1>3, <1>4, ForwardsKeeps
<1> HIDE DEF n, f
<1>6. x' \in Nat /\ x' \in 1..n + 4
  BY <1>1, <1>3 DEF RoundType, n
<1>7. RoundType'
  BY <1>1, <1>2, <1>3, <1>4, <1>6, ForwardsKeeps DEF RoundType, n
<1>8. Current'
  BY <1>1, <1>2, <1>3 DEF Current, ServerKnown, VolumeKnown, AddressKnown, Owed, Shared, n, f
<1>9. NoFault'
  <2>1. x <= 3 => index \notin xfips
    BY <1>1, <1>3 DEF Current, AddressKnown, f
  <2>2. floating_ip' # Shared \/ x' = 3 \/ floating_ip' = floating_ip
    BY DEF Shared
  <2> QED
    BY <1>1, <1>2, <1>3, <2>1, <2>2 DEF NoFault, n
<1> QED
  BY <1>5, <1>7, <1>8, <1>9 DEF RoundInv

LEMMA VolumeMade ==
  ASSUME RoundInv, create_volume
  PROVE  RoundInv'
<1> DEFINE n == Cleaning
           f == Addressed
<1>1. /\ n \in Nat /\ f \in Nat /\ 3 < f /\ f < n /\ n' = n /\ f' = f /\ SharedId' = SharedId
      /\ Len(Program) = n + 3
  BY ProgramLaidOut, Fixed
<1>2. /\ RoundType /\ Past /\ Current /\ NoFault /\ x \in Nat /\ index \in Nat /\ index >= 1 /\ XRounds \in Nat
      /\ index <= XRounds => index # SharedId
  BY <1>1, ComputeAssumption DEF RoundInv, RoundType, SharedId
<1>3. index <= XRounds /\ x \in 1..Cleaning + 3 /\ x = 1
  <2>1. index <= XRounds /\ x \in 1..Cleaning + 3 /\ Name(Program, x) = "create_volume"
    BY <1>1, <1>2 DEF create_volume, Running, op, Name, RoundType
  <2> QED
    BY <2>1, Places
<1> HIDE DEF n, f
<1>4. /\ index' = index /\ floating_ip' = floating_ip /\ test_server_id' = test_server_id
      /\ test_volume_id' = test_volume_id /\ test_floating_ip_id' = test_floating_ip_id
      /\ xservers' = xservers /\ xvolumes' = xvolumes \cup {index} /\ xfips' = xfips /\ asked' = asked
      /\ missed' = missed /\ deleting' = deleting /\ slow' = slow /\ x' = x + 1 /\ xfaults' = xfaults
  BY <1>1 DEF create_volume, things, marks, testIds, Onwards, XFault, NothingToClean, NoId, Shared
<1>5. Forwards
  BY <1>2, <1>3, <1>4 DEF Forwards, RoundType
<1>6. Past'
  BY <1>2, <1>5, ForwardsKeeps
<1>7. RoundType'
  <2>1. /\ xservers' \subseteq 1..index' /\ xvolumes' \subseteq 1..index'
        /\ xfips' \subseteq (1..index') \cup {SharedId} /\ SharedId' \in xfips'
    BY <1>2, <1>5, ForwardsKeeps
  <2>2. x' \in 1..n + 4
    BY <1>1, <1>3, <1>4 DEF n, f
  <2>3. /\ test_server_id' = test_volume_id' /\ test_volume_id' \in 0..XRounds
        /\ test_floating_ip_id' \in 0..XRounds
    BY <1>2, <1>3, <1>4 DEF RoundType
  <2>4. index' \in 1..XRounds + 1 /\ xfaults' \in Nat
    BY <1>2, <1>5 DEF Forwards, RoundType
  <2> QED
    BY <1>1, <2>1, <2>2, <2>3, <2>4 DEF RoundType, n
<1>8. Current'
  BY <1>1, <1>2, <1>3, <1>4 DEF Current, ServerKnown, VolumeKnown, AddressKnown, RoundType, Owed, Shared, n, f
<1>9. NoFault'
  BY <1>1, <1>2, <1>3, <1>4 DEF NoFault, Current, ServerKnown, VolumeKnown, AddressKnown, RoundType, Shared, n, f
<1> QED
  BY <1>6, <1>7, <1>8, <1>9 DEF RoundInv

LEMMA ServerMade ==
  ASSUME RoundInv, boot_from_volume
  PROVE  RoundInv'
<1> DEFINE n == Cleaning
           f == Addressed
<1>1. /\ n \in Nat /\ f \in Nat /\ 3 < f /\ f < n /\ n' = n /\ f' = f /\ SharedId' = SharedId
      /\ Len(Program) = n + 3
  BY ProgramLaidOut, Fixed
<1>2. /\ RoundType /\ Past /\ Current /\ NoFault /\ x \in Nat /\ index \in Nat /\ index >= 1 /\ XRounds \in Nat
      /\ index <= XRounds => index # SharedId
  BY <1>1, ComputeAssumption DEF RoundInv, RoundType, SharedId
<1>3. index <= XRounds /\ x \in 1..Cleaning + 3 /\ x = 3
  <2>1. index <= XRounds /\ x \in 1..Cleaning + 3 /\ Name(Program, x) = "boot_from_volume"
    BY <1>1, <1>2 DEF boot_from_volume, Running, op, Name, RoundType
  <2> QED
    BY <2>1, Places
<1> HIDE DEF n, f
<1>4. /\ index' = index /\ floating_ip' = floating_ip /\ test_server_id' = index
      /\ test_volume_id' = index /\ test_floating_ip_id' = test_floating_ip_id
      /\ xservers' = xservers \cup {index} /\ xvolumes' = xvolumes /\ xfips' = xfips /\ asked' = asked
      /\ missed' = missed /\ deleting' = deleting /\ slow' = slow /\ x' = x + 1 /\ xfaults' = xfaults
  BY <1>1 DEF boot_from_volume, things, marks, testIds, Onwards, XFault, NothingToClean, NoId, Shared
<1>5. Forwards
  BY <1>2, <1>3, <1>4 DEF Forwards, RoundType
<1>6. Past'
  BY <1>2, <1>5, ForwardsKeeps
<1>7. RoundType'
  <2>1. /\ xservers' \subseteq 1..index' /\ xvolumes' \subseteq 1..index'
        /\ xfips' \subseteq (1..index') \cup {SharedId} /\ SharedId' \in xfips'
    BY <1>2, <1>5, ForwardsKeeps
  <2>2. x' \in 1..n + 4
    BY <1>1, <1>3, <1>4 DEF n, f
  <2>3. /\ test_server_id' = test_volume_id' /\ test_volume_id' \in 0..XRounds
        /\ test_floating_ip_id' \in 0..XRounds
    BY <1>2, <1>3, <1>4 DEF RoundType
  <2>4. index' \in 1..XRounds + 1 /\ xfaults' \in Nat
    BY <1>2, <1>5 DEF Forwards, RoundType
  <2> QED
    BY <1>1, <2>1, <2>2, <2>3, <2>4 DEF RoundType, n
<1>8. Current'
  BY <1>1, <1>2, <1>3, <1>4 DEF Current, ServerKnown, VolumeKnown, AddressKnown, RoundType, Owed, Shared, n, f
<1>9. NoFault'
  BY <1>1, <1>2, <1>3, <1>4 DEF NoFault, Current, ServerKnown, VolumeKnown, AddressKnown, RoundType, Shared, n, f
<1> QED
  BY <1>6, <1>7, <1>8, <1>9 DEF RoundInv

LEMMA AddressGot ==
  ASSUME RoundInv, create_floatingip
  PROVE  RoundInv'
<1> DEFINE n == Cleaning
           f == Addressed
<1>1. /\ n \in Nat /\ f \in Nat /\ 3 < f /\ f < n /\ n' = n /\ f' = f /\ SharedId' = SharedId
      /\ Len(Program) = n + 3
  BY ProgramLaidOut, Fixed
<1>2. /\ RoundType /\ Past /\ Current /\ NoFault /\ x \in Nat /\ index \in Nat /\ index >= 1 /\ XRounds \in Nat
      /\ index <= XRounds => index # SharedId
  BY <1>1, ComputeAssumption DEF RoundInv, RoundType, SharedId
<1>3. index <= XRounds /\ x \in 1..Cleaning + 3 /\ x = Addressed
  <2>1. index <= XRounds /\ x \in 1..Cleaning + 3 /\ Name(Program, x) = "floatingip_create"
    BY <1>1, <1>2 DEF create_floatingip, Running, op, Name, RoundType
  <2> QED
    BY <2>1, Places
<1> HIDE DEF n, f
<1>4. /\ index' = index /\ test_server_id' = test_server_id /\ test_volume_id' = test_volume_id
      /\ xservers' = xservers /\ xvolumes' = xvolumes /\ asked' = asked /\ missed \subseteq missed'
      /\ deleting' = deleting /\ slow' = slow /\ x' = x + 1
      /\ \/ /\ xfips' = xfips \cup {index} /\ test_floating_ip_id' = index /\ floating_ip' = "own"
            /\ xfaults' = xfaults
         \/ /\ xfips' = xfips \/ (xfips' = xfips \cup {index} /\ Owed("fip", index)')
            /\ test_floating_ip_id' = test_floating_ip_id /\ xfaults' = xfaults + 1
  <2>1. /\ UNCHANGED <<index, test_server_id, test_volume_id, xservers, xvolumes, deleting, slow, asked>>
        /\ x' = x + 1
    BY DEF create_floatingip, things, testIds, Onwards
  <2>2. \/ /\ xfips' = xfips \cup {index} /\ test_floating_ip_id' = index /\ floating_ip' = "own"
           /\ xfaults' = xfaults /\ missed' = missed
        \/ /\ xfips' = xfips /\ missed' = missed
           /\ test_floating_ip_id' = test_floating_ip_id /\ xfaults' = xfaults + 1
        \/ /\ xfips' = xfips \cup {index} /\ missed' = missed \cup {<<"fip", index>>}
           /\ test_floating_ip_id' = test_floating_ip_id /\ xfaults' = xfaults + 1
    BY DEF create_floatingip, XFault
  <2> QED
    BY <2>1, <2>2 DEF Owed
<1>5. Forwards
  BY <1>2, <1>3, <1>4 DEF Forwards, RoundType
<1>6. Past'
  BY <1>2, <1>5, ForwardsKeeps
<1>7. RoundType'
  <2>1. /\ xservers' \subseteq 1..index' /\ xvolumes' \subseteq 1..index'
        /\ xfips' \subseteq (1..index') \cup {SharedId} /\ SharedId' \in xfips'
    BY <1>2, <1>5, ForwardsKeeps
  <2>2. x' \in 1..n + 4
    BY <1>1, <1>3, <1>4 DEF n, f
  <2>3. /\ test_server_id' = test_volume_id' /\ test_volume_id' \in 0..XRounds
        /\ test_floating_ip_id' \in 0..XRounds
    BY <1>2, <1>3, <1>4 DEF RoundType
  <2>4. index' \in 1..XRounds + 1 /\ xfaults' \in Nat
    BY <1>2, <1>5 DEF Forwards, RoundType
  <2> QED
    BY <1>1, <2>1, <2>2, <2>3, <2>4 DEF RoundType, n
<1>8. Current'
  BY <1>1, <1>2, <1>3, <1>4 DEF Current, ServerKnown, VolumeKnown, AddressKnown, RoundType, Owed, Shared, n, f
<1>9. NoFault'
  <2>1. ASSUME xfaults' = 0
        PROVE  /\ xfaults = 0 /\ xservers \subseteq deleting \cup {index}
               /\ xvolumes \subseteq slow \cup {index}
               /\ xfips \subseteq {index, SharedId} /\ test_volume_id = index
    BY <1>1, <1>2, <1>3, <1>5, <2>1 DEF Forwards, NoFault, n, f
  <2>2. xfips \subseteq {index, SharedId} => xfips' \subseteq {index, SharedId}
    BY <1>4
  <2>3. x' > 3 /\ ~(x' > n)
    BY <1>1, <1>3, <1>4 DEF n, f
  <2>4. ~(x' = 1) /\ ~(x' > n + 1) /\ ~(x' > n + 2) /\ ~(x' > n + 3)
    BY <1>1, <1>3, <1>4 DEF n, f
  <2>5. UNCHANGED <<index, test_volume_id, xservers, xvolumes, deleting, slow>>
    BY <1>4
  <2>6. xfaults' = 0 => test_floating_ip_id' = index /\ floating_ip' # Shared /\ xfips' \subseteq {index, SharedId}
    BY <1>2, <1>4, <2>1, <2>2 DEF RoundType, Shared
  <2> QED
    BY <1>1, <2>1, <2>3, <2>4, <2>5, <2>6 DEF NoFault, n, f
<1> QED
  BY <1>6, <1>7, <1>8, <1>9 DEF RoundInv

LEMMA AddressGone ==
  ASSUME RoundInv, delete_floatingip
  PROVE  RoundInv'
<1> DEFINE n == Cleaning
           f == Addressed
<1>1. /\ n \in Nat /\ f \in Nat /\ 3 < f /\ f < n /\ n' = n /\ f' = f /\ SharedId' = SharedId
      /\ Len(Program) = n + 3
  BY ProgramLaidOut, Fixed
<1>2. /\ RoundType /\ Past /\ Current /\ NoFault /\ x \in Nat /\ index \in Nat /\ index >= 1 /\ XRounds \in Nat
      /\ index <= XRounds => index # SharedId
  BY <1>1, ComputeAssumption DEF RoundInv, RoundType, SharedId
<1>3. index <= XRounds /\ x \in 1..Cleaning + 3 /\ x = Cleaning
  <2>1. index <= XRounds /\ x \in 1..Cleaning + 3 /\ Name(Program, x) = "floatingip_delete"
    BY <1>1, <1>2 DEF delete_floatingip, Running, op, Name, RoundType
  <2> QED
    BY <2>1, Places
<1> HIDE DEF n, f
<1>4. /\ index' = index /\ floating_ip' = floating_ip /\ test_server_id' = test_server_id
      /\ test_volume_id' = test_volume_id /\ test_floating_ip_id' = test_floating_ip_id
      /\ xservers' = xservers /\ xvolumes' = xvolumes /\ missed' = missed
      /\ deleting' = deleting /\ slow' = slow
      /\ (IF test_volume_id = 0 THEN x' = n + 4 ELSE x' = x + 1)
      /\ (IF test_volume_id = 0 \/ floating_ip = Shared \/ test_floating_ip_id = 0
          THEN asked' = asked /\ xfips' = xfips /\ xfaults' = xfaults
          ELSE /\ asked' = asked \cup {<<"fip", test_floating_ip_id>>}
               /\ ((xfaults' = xfaults /\ xfips' = xfips \ {test_floating_ip_id}) \/ (xfaults' = xfaults + 1 /\ xfips' = xfips)))
  BY <1>1 DEF delete_floatingip, things, testIds, Onwards, Finished, XFault, NothingToClean, NoId, Shared
<1>5. Forwards
  <2>1. xfips' \subseteq xfips /\ asked \subseteq asked' /\ SharedId \in xfips'
    <3>1. SharedId \in xfips /\ test_floating_ip_id # SharedId
      BY <1>2 DEF RoundType, SharedId
    <3> QED
      BY <1>4, <3>1
  <2>2. xfaults' \in Nat /\ (xfaults' = 0 => xfaults = 0)
    BY <1>2, <1>4 DEF RoundType
  <2> QED
    BY <1>4, <2>1, <2>2 DEF Forwards
<1>6. Past'
  BY <1>2, <1>5, ForwardsKeeps
<1>7. RoundType'
  <2>1. /\ xservers' \subseteq 1..index' /\ xvolumes' \subseteq 1..index'
        /\ xfips' \subseteq (1..index') \cup {SharedId} /\ SharedId' \in xfips'
    BY <1>2, <1>5, ForwardsKeeps
  <2>2. x' \in 1..n + 4
    BY <1>1, <1>3, <1>4 DEF n, f
  <2>3. /\ test_server_id' = test_volume_id' /\ test_volume_id' \in 0..XRounds
        /\ test_floating_ip_id' \in 0..XRounds
    BY <1>2, <1>3, <1>4 DEF RoundType
  <2>4. index' \in 1..XRounds + 1 /\ xfaults' \in Nat
    BY <1>2, <1>5 DEF Forwards, RoundType
  <2> QED
    BY <1>1, <2>1, <2>2, <2>3, <2>4 DEF RoundType, n
<1>8. Current'
  BY <1>1, <1>2, <1>3, <1>4 DEF Current, ServerKnown, VolumeKnown, AddressKnown, RoundType, Owed, Shared, n, f
<1>9. NoFault'
  <2>1. ASSUME xfaults' = 0
        PROVE  /\ xfaults = 0 /\ xservers \subseteq deleting \cup {index}
               /\ xvolumes \subseteq slow \cup {index}
               /\ xfips \subseteq {index, SharedId} /\ test_volume_id = index
    BY <1>1, <1>2, <1>3, <1>5, <2>1 DEF Forwards, NoFault, n, f
  <2>2. ASSUME xfaults' = 0
        PROVE  xfips' = {SharedId}
    <3>1. xfips \subseteq {index, SharedId} /\ SharedId \in xfips /\ index # SharedId /\ test_volume_id # 0
      BY <1>2, <1>3, <2>1, <2>2 DEF RoundType
    <3>2. CASE index \in xfips
      <4>1. test_floating_ip_id = index /\ floating_ip # Shared
        BY <1>1, <1>2, <1>3, <2>1, <2>2, <3>1, <3>2 DEF NoFault, n
      <4>2. xfips' = xfips \ {index}
        BY <1>2, <1>4, <2>1, <2>2, <3>1, <4>1
      <4> QED
        BY <3>1, <4>2
    <3>3. CASE index \notin xfips
      <4>1. xfips = {SharedId}
        BY <3>1, <3>3
      <4>2. SharedId \in xfips' /\ xfips' \subseteq xfips
        BY <1>5, <1>4 DEF Forwards
      <4> QED
        BY <4>1, <4>2
    <3> QED
      BY <3>2, <3>3
  <2>3. ASSUME xfaults' = 0
        PROVE  x' = n + 1 /\ x' > 3
    <3>1. test_volume_id # 0
      BY <1>2, <1>3, <2>1, <2>3
    <3> QED
      BY <1>1, <1>3, <1>4, <3>1 DEF n
  <2>4. UNCHANGED <<index, test_volume_id, xservers, xvolumes, deleting, slow>>
    BY <1>4
  <2>5. xfaults' = 0 => ~(x' = 1) /\ ~(x' <= n) /\ ~(x' > n + 1) /\ ~(x' > n + 2) /\ ~(x' > n + 3)
    BY <1>1, <2>3
  <2> QED
    BY <1>1, <2>1, <2>2, <2>3, <2>4, <2>5 DEF NoFault, n, f
<1> QED
  BY <1>6, <1>7, <1>8, <1>9 DEF RoundInv

LEMMA ServerGone ==
  ASSUME RoundInv, delete_server
  PROVE  RoundInv'
<1> DEFINE n == Cleaning
           f == Addressed
<1>1. /\ n \in Nat /\ f \in Nat /\ 3 < f /\ f < n /\ n' = n /\ f' = f /\ SharedId' = SharedId
      /\ Len(Program) = n + 3
  BY ProgramLaidOut, Fixed
<1>2. /\ RoundType /\ Past /\ Current /\ NoFault /\ x \in Nat /\ index \in Nat /\ index >= 1 /\ XRounds \in Nat
      /\ index <= XRounds => index # SharedId
  BY <1>1, ComputeAssumption DEF RoundInv, RoundType, SharedId
<1>3. index <= XRounds /\ x \in 1..Cleaning + 3 /\ x = Cleaning + 1
  <2>1. index <= XRounds /\ x \in 1..Cleaning + 3 /\ Name(Program, x) = "delete_server"
    BY <1>1, <1>2 DEF delete_server, Running, op, Name, RoundType
  <2> QED
    BY <2>1, Places
<1> HIDE DEF n, f
<1>4. /\ index' = index /\ floating_ip' = floating_ip /\ test_server_id' = test_server_id
      /\ test_volume_id' = test_volume_id /\ test_floating_ip_id' = test_floating_ip_id
      /\ xservers' = xservers /\ xvolumes' = xvolumes /\ xfips' = xfips
      /\ asked' = asked \cup {<<"server", test_server_id>>}
      /\ missed' = missed /\ slow' = slow /\ x' = x + 1
      /\ \/ xfaults' = xfaults /\ deleting' = deleting \cup ({test_server_id} \cap xservers)
         \/ xfaults' = xfaults + 1 /\ deleting' = deleting
  BY <1>1 DEF delete_server, things, testIds, Onwards, XFault, NothingToClean, NoId, Shared
<1>5. Forwards
  BY <1>2, <1>3, <1>4 DEF Forwards, RoundType
<1>6. Past'
  BY <1>2, <1>5, ForwardsKeeps
<1>7. RoundType'
  <2>1. /\ xservers' \subseteq 1..index' /\ xvolumes' \subseteq 1..index'
        /\ xfips' \subseteq (1..index') \cup {SharedId} /\ SharedId' \in xfips'
    BY <1>2, <1>5, ForwardsKeeps
  <2>2. x' \in 1..n + 4
    BY <1>1, <1>3, <1>4 DEF n, f
  <2>3. /\ test_server_id' = test_volume_id' /\ test_volume_id' \in 0..XRounds
        /\ test_floating_ip_id' \in 0..XRounds
    BY <1>2, <1>3, <1>4 DEF RoundType
  <2>4. index' \in 1..XRounds + 1 /\ xfaults' \in Nat
    BY <1>2, <1>5 DEF Forwards, RoundType
  <2> QED
    BY <1>1, <2>1, <2>2, <2>3, <2>4 DEF RoundType, n
<1>8. Current'
  BY <1>1, <1>2, <1>3, <1>4 DEF Current, ServerKnown, VolumeKnown, AddressKnown, RoundType, Owed, Shared, n, f
<1>9. NoFault'
  <2>1. ASSUME xfaults' = 0
        PROVE  /\ xfaults = 0 /\ xservers \subseteq deleting \cup {index}
               /\ xvolumes \subseteq slow \cup {index}
               /\ test_volume_id = index /\ xfips = {SharedId}
    BY <1>1, <1>2, <1>3, <1>5, <2>1 DEF Forwards, NoFault, n, f
  <2>2. ASSUME xfaults' = 0
        PROVE  xservers' \subseteq deleting' /\ deleting \subseteq deleting'
    <3>1. test_server_id = index /\ xfaults = 0
      BY <1>2, <2>1, <2>2 DEF RoundType
    <3>2. deleting' = deleting \cup ({index} \cap xservers)
      BY <1>4, <2>2, <3>1
    <3> QED
      BY <1>4, <2>1, <2>2, <3>1, <3>2
  <2>3. ~(x' = 1) /\ ~(x' <= n) /\ ~(x' > n + 2) /\ ~(x' > n + 3)
    BY <1>1, <1>3, <1>4 DEF n
  <2>4. xfaults' = 0 => /\ xservers' \subseteq deleting' \cup {index} /\ xvolumes' \subseteq slow' \cup {index}
                        /\ test_volume_id' = index /\ xfips' = {SharedId} /\ index' = index
    BY <1>4, <2>1, <2>2
  <2> QED
    BY <1>1, <2>2, <2>3, <2>4 DEF NoFault, n, f
<1> QED
  BY <1>6, <1>7, <1>8, <1>9 DEF RoundInv

LEMMA VolumeFree ==
  ASSUME RoundInv, volume_free
  PROVE  RoundInv'
<1> DEFINE n == Cleaning
           f == Addressed
<1>1. /\ n \in Nat /\ f \in Nat /\ 3 < f /\ f < n /\ n' = n /\ f' = f /\ SharedId' = SharedId
      /\ Len(Program) = n + 3
  BY ProgramLaidOut, Fixed
<1>2. /\ RoundType /\ Past /\ Current /\ NoFault /\ x \in Nat /\ index \in Nat /\ index >= 1 /\ XRounds \in Nat
      /\ index <= XRounds => index # SharedId
  BY <1>1, ComputeAssumption DEF RoundInv, RoundType, SharedId
<1>3. index <= XRounds /\ x \in 1..Cleaning + 3 /\ x = Cleaning + 2
  <2>1. index <= XRounds /\ x \in 1..Cleaning + 3 /\ Name(Program, x) = "volume_free"
    BY <1>1, <1>2 DEF volume_free, Running, op, Name, RoundType
  <2> QED
    BY <2>1, Places
<1> HIDE DEF n, f
<1>4. UNCHANGED <<index, floating_ip, test_server_id, test_volume_id, test_floating_ip_id,
                  xservers, xvolumes, xfips, deleting, asked>>
  BY DEF volume_free, things, testIds
<1>5. \/ x' = x /\ xfaults' = xfaults /\ missed' = missed /\ slow' = slow
      \/ /\ x' = n + 3 /\ xfaults' = xfaults /\ missed' = missed
         /\ \/ test_volume_id \notin xservers /\ slow' = slow
            \/ slow' = slow \cup ({test_volume_id} \cap deleting)
      \/ x' = n + 4 /\ xfaults' = xfaults /\ missed' = missed /\ slow' = slow /\ test_volume_id \notin xvolumes
      \/ /\ x' = n + 4 /\ xfaults' = xfaults + 1 /\ slow' = slow
         /\ missed' = missed \cup {<<"volume", test_volume_id>>}
  <2>1. x + 1 = n + 3
    BY <1>1, <1>3 DEF n
  <2> QED
    BY <1>1, <2>1 DEF volume_free, Onwards, Finished, XFault, VolumeInUse
<1>6. missed \subseteq missed' /\ slow \subseteq slow' /\ xfaults' \in Nat /\ (xfaults' = 0 => xfaults = 0)
  BY <1>2, <1>5 DEF RoundType
<1>7. Forwards
  BY <1>2, <1>4, <1>6 DEF Forwards, RoundType
<1>8. Past'
  BY <1>2, <1>7, ForwardsKeeps
<1>9. x' \in {n + 2, n + 3, n + 4} /\ x = n + 2
  BY <1>3, <1>5 DEF n
<1>10. RoundType'
  <2>1. /\ xservers' \subseteq 1..index' /\ xvolumes' \subseteq 1..index'
        /\ xfips' \subseteq (1..index') \cup {SharedId} /\ SharedId' \in xfips'
    BY <1>2, <1>7, ForwardsKeeps
  <2>2. x' \in 1..n + 4
    BY <1>1, <1>9
  <2>3. /\ test_server_id' = test_volume_id' /\ test_volume_id' \in 0..XRounds
        /\ test_floating_ip_id' \in 0..XRounds
    BY <1>2, <1>4 DEF RoundType
  <2>4. index' \in 1..XRounds + 1 /\ xfaults' \in Nat
    BY <1>2, <1>7 DEF Forwards, RoundType
  <2> QED
    BY <1>1, <2>1, <2>2, <2>3, <2>4 DEF RoundType, n
<1>11. Current'
  <2>1. \A k \in {"server", "volume", "fip"} : Owed(k, index) => Owed(k, index)'
    BY <1>4, <1>6 DEF Owed
  <2>2. ASSUME index \in xservers PROVE ServerKnown'
    <3>1. Owed("server", index)
      BY <1>1, <1>2, <1>3, <1>9, <2>2 DEF Current, ServerKnown, n
    <3> QED
      BY <1>1, <1>4, <1>9, <2>1, <3>1 DEF ServerKnown, n
  <2>3. ASSUME index \in xvolumes PROVE VolumeKnown'
    <3>1. CASE test_volume_id = index /\ x' # n + 4
      BY <1>1, <1>4, <1>9, <3>1 DEF VolumeKnown, n
    <3>2. CASE test_volume_id = index /\ x' = n + 4
      <4>1. missed' = missed \cup {<<"volume", test_volume_id>>}
        BY <1>1, <1>5, <1>9, <2>3, <3>2
      <4>2. Owed("volume", index)'
        BY <1>4, <3>2, <4>1 DEF Owed
      <4> QED
        BY <1>1, <1>4, <3>2, <4>2 DEF VolumeKnown, n
    <3>3. CASE test_volume_id # index
      <4>1. Owed("volume", index)
        BY <1>1, <1>2, <1>3, <1>9, <2>3, <3>3 DEF Current, VolumeKnown, n
      <4> QED
        BY <1>1, <1>4, <1>9, <2>1, <4>1 DEF VolumeKnown, n
    <3> QED
      BY <3>1, <3>2, <3>3
  <2>4. ASSUME index \in xfips PROVE AddressKnown'
    <3>1. Owed("fip", index)
      BY <1>1, <1>2, <1>3, <1>9, <2>4 DEF Current, AddressKnown, n
    <3> QED
      BY <1>1, <1>4, <1>9, <2>1, <3>1 DEF AddressKnown, Shared, n, f
  <2>5. x' > 3 /\ ~(x' < n)
    BY <1>1, <1>9
  <2> QED
    BY <1>1, <1>4, <2>2, <2>3, <2>4, <2>5 DEF Current, n
<1>12. NoFault'
  <2>1. ASSUME xfaults' = 0
        PROVE  /\ xservers \subseteq deleting \cup {index} /\ xvolumes \subseteq slow \cup {index}
               /\ test_volume_id = index /\ xfips = {SharedId} /\ xservers \subseteq deleting
    BY <1>1, <1>2, <1>6, <1>9, <2>1 DEF NoFault, n
  <2>2. ASSUME xfaults' = 0, x' > n + 2, index \in xservers \cap xvolumes
        PROVE  index \in slow'
    <3>1. xfaults' = xfaults
      BY <1>5, <1>6, <2>2
    <3>2. x' # x
      BY <1>1, <1>9, <2>2
    <3>3. test_volume_id = index /\ index \in deleting
      BY <2>1, <2>2
    <3> QED
      BY <1>1, <1>5, <2>2, <3>1, <3>2, <3>3, <1>2 DEF RoundType
  <2>3. ASSUME xfaults' = 0, x' > n + 3
        PROVE  xvolumes \subseteq slow'
    <3>1. x' = n + 4 /\ xfaults' = xfaults
      BY <1>1, <1>2, <1>5, <1>6, <1>9, <2>3 DEF RoundType
    <3>2. test_volume_id \notin xvolumes
      BY <1>1, <1>2, <1>5, <1>9, <3>1 DEF RoundType
    <3> QED
      BY <1>6, <2>1, <2>3, <3>2
  <2>4. ~(x' = 1) /\ ~(x' <= n)
    BY <1>1, <1>9
  <2> QED
    BY <1>1, <1>4, <1>6, <2>1, <2>2, <2>3, <2>4 DEF NoFault, n
<1> QED
  BY <1>8, <1>10, <1>11, <1>12 DEF RoundInv

LEMMA VolumeGone ==
  ASSUME RoundInv, delete_volume
  PROVE  RoundInv'
<1> DEFINE n == Cleaning
           f == Addressed
<1>1. /\ n \in Nat /\ f \in Nat /\ 3 < f /\ f < n /\ n' = n /\ f' = f /\ SharedId' = SharedId
      /\ Len(Program) = n + 3
  BY ProgramLaidOut, Fixed
<1>2. /\ RoundType /\ Past /\ Current /\ NoFault /\ x \in Nat /\ index \in Nat /\ index >= 1 /\ XRounds \in Nat
      /\ index <= XRounds => index # SharedId
  BY <1>1, ComputeAssumption DEF RoundInv, RoundType, SharedId
<1>3. index <= XRounds /\ x \in 1..Cleaning + 3 /\ x = Cleaning + 3
  <2>1. index <= XRounds /\ x \in 1..Cleaning + 3 /\ Name(Program, x) = "delete_volume"
    BY <1>1, <1>2 DEF delete_volume, Running, op, Name, RoundType
  <2> QED
    BY <2>1, Places
<1> HIDE DEF n, f
<1>4. /\ index' = index /\ floating_ip' = floating_ip /\ test_server_id' = test_server_id
      /\ test_volume_id' = test_volume_id /\ test_floating_ip_id' = test_floating_ip_id
      /\ xservers' = xservers /\ xfips' = xfips /\ asked' = asked \cup {<<"volume", test_volume_id>>}
      /\ missed' = missed /\ deleting' = deleting /\ slow' = slow /\ x' = x + 1
      /\ (IF test_volume_id \in xservers
          THEN xvolumes' = xvolumes /\ xfaults' = xfaults
          ELSE ((xfaults' = xfaults /\ xvolumes' = xvolumes \ {test_volume_id}) \/ (xfaults' = xfaults + 1 /\ xvolumes' = xvolumes)))
  BY <1>1 DEF delete_volume, VolumeInUse, things, testIds, Onwards, XFault
<1>5. Forwards
  BY <1>2, <1>3, <1>4 DEF Forwards, RoundType
<1>6. Past'
  BY <1>2, <1>5, ForwardsKeeps
<1>7. RoundType'
  <2>1. /\ xservers' \subseteq 1..index' /\ xvolumes' \subseteq 1..index'
        /\ xfips' \subseteq (1..index') \cup {SharedId} /\ SharedId' \in xfips'
    BY <1>2, <1>5, ForwardsKeeps
  <2>2. x' \in 1..n + 4
    BY <1>1, <1>3, <1>4 DEF n, f
  <2>3. /\ test_server_id' = test_volume_id' /\ test_volume_id' \in 0..XRounds
        /\ test_floating_ip_id' \in 0..XRounds
    BY <1>2, <1>3, <1>4 DEF RoundType
  <2>4. index' \in 1..XRounds + 1 /\ xfaults' \in Nat
    BY <1>2, <1>5 DEF Forwards, RoundType
  <2> QED
    BY <1>1, <2>1, <2>2, <2>3, <2>4 DEF RoundType, n
<1>8. Current'
  BY <1>1, <1>2, <1>3, <1>4 DEF Current, ServerKnown, VolumeKnown, AddressKnown, RoundType, Owed, Shared, n, f
<1>9. NoFault'
  <2>1. ASSUME xfaults' = 0
        PROVE  /\ xfaults = 0 /\ xvolumes \subseteq slow \cup {index}
               /\ test_volume_id = index /\ xfips = {SharedId} /\ xservers \subseteq deleting
               /\ index \in xservers \cap xvolumes => index \in slow
    BY <1>1, <1>2, <1>3, <1>5, <2>1 DEF Forwards, NoFault, n, f
  <2>2. ASSUME xfaults' = 0
        PROVE  xvolumes' \subseteq slow
    <3>1. CASE index \in xservers
      BY <1>4, <2>1, <2>2, <3>1
    <3>2. CASE index \notin xservers
      <4>1. xvolumes' = xvolumes \ {index}
        BY <1>4, <2>1, <2>2, <3>2
      <4> QED
        BY <2>1, <2>2, <4>1
    <3> QED
      BY <3>1, <3>2
  <2>3. ~(x' = 1) /\ ~(x' <= n)
    BY <1>1, <1>3, <1>4 DEF n
  <2> QED
    BY <1>1, <1>4, <2>1, <2>2, <2>3 DEF NoFault, n, f
<1> QED
  BY <1>6, <1>7, <1>8, <1>9 DEF RoundInv

LEMMA RequestFailed ==
  ASSUME RoundInv, RequestFails
  PROVE  RoundInv'
<1> DEFINE n == Cleaning
           f == Addressed
<1>1. /\ n \in Nat /\ f \in Nat /\ 3 < f /\ f < n /\ n' = n /\ f' = f /\ SharedId' = SharedId
      /\ Len(Program) = n + 3
  BY ProgramLaidOut, Fixed
<1>2. /\ RoundType /\ Past /\ Current /\ NoFault /\ x \in Nat /\ index \in Nat /\ index >= 1 /\ XRounds \in Nat
      /\ index <= XRounds => index # SharedId
  BY <1>1, ComputeAssumption DEF RoundInv, RoundType, SharedId
<1>3. /\ index <= XRounds /\ x < n
      /\ op[1] = "create_volume" => x = 1
      /\ op[1] = "boot_from_volume" <=> x = 3
      /\ x <= 3 => op[1] \in {"create_volume", "volume_loop", "boot_from_volume"}
  <2>1. index <= XRounds /\ x \in 1..Cleaning + 3 /\ x < n /\ op[1] = Name(Program, x)
    BY <1>1, <1>2 DEF RequestFails, op, Name, RoundType
  <2>2. x <= 3 => x = 1 \/ x = 2 \/ x = 3
    BY <2>1
  <2> QED
    BY <2>1, <2>2, Places
<1>4. /\ index' = index /\ test_server_id' = test_server_id /\ test_volume_id' = test_volume_id
      /\ test_floating_ip_id' = test_floating_ip_id /\ xfips' = xfips /\ asked' = asked
      /\ xfaults' = xfaults + 1 /\ x' = n /\ floating_ip' = "None"
  BY DEF RequestFails, XFault, XRaise, things, testIds
<1>5. /\ xservers' = xservers \/ (x = 3 /\ xservers' = xservers \cup {index})
      /\ xvolumes' = xvolumes \/ (x = 1 /\ xvolumes' = xvolumes \cup {index})
  BY <1>3 DEF RequestFails
<1>6. missed \subseteq missed'
  BY DEF RequestFails
<1>7. x <= 3 => /\ index \in xvolumes' => Owed("volume", index)'
                /\ index \in xservers' => Owed("server", index)'
  <2>1. ASSUME x <= 3
        PROVE  missed' = missed \cup {<<"volume", r>> : r \in xvolumes' \cap {index}}
                                \cup {<<"server", r>> : r \in xservers' \cap {index}}
    BY <1>3, <2>1 DEF RequestFails
  <2>2. ASSUME x <= 3, index \in xvolumes'
        PROVE  <<"volume", index>> \in missed'
    BY <2>1, <2>2
  <2>3. ASSUME x <= 3, index \in xservers'
        PROVE  <<"server", index>> \in missed'
    BY <2>1, <2>3
  <2> QED
    BY <1>4, <2>2, <2>3 DEF Owed
<1> HIDE DEF n, f
<1>8. Forwards
  BY <1>2, <1>4, <1>5, <1>6 DEF Forwards, RoundType
<1>9. Past'
  BY <1>2, <1>8, ForwardsKeeps
<1>10. RoundType'
  <2>1. /\ xservers' \subseteq 1..index' /\ xvolumes' \subseteq 1..index'
        /\ xfips' \subseteq (1..index') \cup {SharedId} /\ SharedId' \in xfips'
    BY <1>2, <1>8, ForwardsKeeps
  <2>2. x' \in 1..n + 4
    BY <1>1, <1>4
  <2>3. /\ test_server_id' = test_volume_id' /\ test_volume_id' \in 0..XRounds
        /\ test_floating_ip_id' \in 0..XRounds
    BY <1>2, <1>4 DEF RoundType
  <2>4. index' \in 1..XRounds + 1 /\ xfaults' \in Nat
    BY <1>2, <1>8 DEF Forwards, RoundType
  <2> QED
    BY <1>1, <2>1, <2>2, <2>3, <2>4 DEF RoundType, n
<1>11. x <= 3 \/ x > 3
  BY <1>2
<1>12. ASSUME index \in xservers'
       PROVE  ServerKnown'
  <2>2. CASE x <= 3
    BY <1>1, <1>4, <1>7, <1>12, <2>2 DEF ServerKnown, n
  <2>3. CASE x > 3
    <3>1. test_volume_id = index
      BY <1>2, <1>3, <2>3 DEF Current, n
    <3> QED
      BY <1>1, <1>4, <3>1 DEF ServerKnown, n
  <2> QED
    BY <1>11, <2>2, <2>3
<1>13. ASSUME index \in xvolumes'
       PROVE  VolumeKnown'
  <2>2. CASE x <= 3
    BY <1>1, <1>4, <1>7, <1>13, <2>2 DEF VolumeKnown, n
  <2>3. CASE x > 3
    <3>1. test_volume_id = index
      BY <1>2, <1>3, <2>3 DEF Current, n
    <3> QED
      BY <1>1, <1>4, <3>1 DEF VolumeKnown, n
  <2> QED
    BY <1>11, <2>2, <2>3
<1>14. ASSUME index \in xfips
       PROVE  AddressKnown'
  <2>1. (test_floating_ip_id = index /\ test_volume_id = index) \/ Owed("fip", index)
    BY <1>1, <1>2, <1>3, <1>14 DEF Current, AddressKnown, n
  <2>2. Owed("fip", index) => Owed("fip", index)'
    BY <1>4, <1>6 DEF Owed
  <2> QED
    BY <1>1, <1>4, <2>1, <2>2 DEF AddressKnown, Shared, n, f
<1>15. Current'
  <2>1. x' > 3 /\ ~(x' < n')
    BY <1>1, <1>4
  <2> QED
    BY <1>4, <1>12, <1>13, <1>14, <2>1 DEF Current, n
<1>16. NoFault'
  <2>1. xfaults' # 0
    BY <1>2, <1>4 DEF RoundType
  <2> QED
    BY <2>1 DEF NoFault
<1> QED
  BY <1>9, <1>10, <1>15, <1>16 DEF RoundInv

\* Nova deletes a server, or does not in the end
LEMMA ServerDeleted ==
  ASSUME RoundInv, Nova_deletes
  PROVE  RoundInv'
<1> DEFINE n == Cleaning
           f == Addressed
<1>1. n \in Nat /\ f \in Nat /\ 3 < f /\ f < n /\ n' = n /\ f' = f /\ SharedId' = SharedId
  BY ProgramLaidOut, Fixed
<1>2. RoundType /\ Past /\ Current /\ NoFault /\ x \in Nat
  BY <1>1 DEF RoundInv, RoundType
<1>3. /\ UNCHANGED <<index, x, floating_ip, test_server_id, test_volume_id, test_floating_ip_id, xvolumes, xfips,
                     asked, missed, slow>>
      /\ xservers' \subseteq xservers
      /\ xfaults' = xfaults \/ xfaults' = xfaults + 1
      /\ xfaults' = xfaults => \E r \in deleting : deleting' = deleting \ {r} /\ xservers' = xservers \ {r}
  <2>1. UNCHANGED <<index, x, floating_ip, test_server_id, test_volume_id, test_floating_ip_id, xvolumes, xfips,
                    asked, missed, slow>>
    BY DEF Nova_deletes, testIds, marks
  <2>2. PICK r \in deleting : /\ deleting' = deleting \ {r}
                              /\ \/ xservers' = xservers \ {r} /\ xfaults' = xfaults
                                 \/ xfaults' = xfaults + 1 /\ xservers' = xservers
    BY DEF Nova_deletes, XFault
  <2>3. xfaults' = xfaults => xfaults' # xfaults + 1
    BY <1>2 DEF RoundType
  <2> QED
    BY <2>1, <2>2, <2>3
<1>4. xfaults' \in Nat /\ (xfaults' = 0 => xfaults' = xfaults)
  BY <1>2, <1>3 DEF RoundType
<1>5. Forwards
  BY <1>2, <1>3, <1>4 DEF Forwards, RoundType
<1>6. Past'
  BY <1>2, <1>5, ForwardsKeeps
<1> HIDE DEF n, f
<1>7. RoundType'
  <2>1. /\ xservers' \subseteq 1..index' /\ xvolumes' \subseteq 1..index'
        /\ xfips' \subseteq (1..index') \cup {SharedId} /\ SharedId' \in xfips'
    BY <1>2, <1>5, ForwardsKeeps
  <2> QED
    BY <1>1, <1>2, <1>3, <1>4, <2>1 DEF RoundType, n
<1>8. Current'
  BY <1>1, <1>2, <1>3 DEF Current, ServerKnown, VolumeKnown, AddressKnown, Owed, Shared, n, f
<1>9. NoFault'
  <2>1. ASSUME xfaults' = 0
        PROVE  /\ xservers \subseteq deleting \cup {index} => xservers' \subseteq deleting' \cup {index}
               /\ xservers \subseteq deleting => xservers' \subseteq deleting'
    BY <1>3, <1>4, <2>1
  <2> QED
    BY <1>1, <1>2, <1>3, <1>4, <2>1 DEF NoFault, Shared, n
<1> QED
  BY <1>6, <1>7, <1>8, <1>9 DEF RoundInv

LEMMA RoundOver ==
  ASSUME RoundInv, next_round
  PROVE  RoundInv'
<1> DEFINE n == Cleaning
           f == Addressed
<1>1. /\ n \in Nat /\ f \in Nat /\ 3 < f /\ f < n /\ n' = n /\ f' = f /\ SharedId' = SharedId
      /\ Len(Program) = n + 3
  BY ProgramLaidOut, Fixed
<1>2. /\ RoundType /\ Past /\ Current /\ NoFault /\ x \in Nat /\ index \in Nat /\ index >= 1 /\ XRounds \in Nat
      /\ SharedId = XRounds + 1
  BY <1>1, ComputeAssumption DEF RoundInv, RoundType, SharedId
<1>3. /\ index <= XRounds /\ x = n + 4 /\ index' = index + 1 /\ x' = 1
      /\ UNCHANGED <<test_server_id, test_volume_id, test_floating_ip_id, xservers, xvolumes, xfips, xfaults, asked,
                     missed, deleting, slow>>
  BY <1>1 DEF next_round, testIds, things, marks
<1> HIDE DEF n, f
<1>4. /\ index \in xservers => Owed("server", index)
      /\ index \in xvolumes => Owed("volume", index)
      /\ index \in xfips => Owed("fip", index)
  BY <1>1, <1>2, <1>3 DEF Current, ServerKnown, VolumeKnown, AddressKnown, n, f
<1>5. Past'
  <2>1. \A r \in Nat : r < index' => r < index \/ r = index
    BY <1>2, <1>3
  <2>2. xservers \subseteq Nat /\ xvolumes \subseteq Nat /\ xfips \subseteq Nat
    BY <1>2 DEF RoundType
  <2> QED
    BY <1>2, <1>3, <1>4, <2>1, <2>2 DEF Past, Owed
<1>6. RoundType'
  <2>1. 1..index \subseteq 1..index' /\ index' \in 1..XRounds + 1
    BY <1>2, <1>3
  <2> QED
    BY <1>1, <1>2, <1>3, <2>1 DEF RoundType, n
<1>7. index' \notin xservers' /\ index' \notin xvolumes' /\ (index' <= XRounds => index' \notin xfips')
  BY <1>1, <1>2, <1>3 DEF RoundType
<1>8. Current'
  BY <1>1, <1>3, <1>7 DEF Current
<1>9. NoFault'
  <2>1. x > 3 /\ x > n /\ x > n + 1 /\ x > n + 2 /\ x > n + 3
    BY <1>1, <1>3
  <2>2. xfaults = 0 => xservers \subseteq deleting /\ xvolumes \subseteq slow /\ xfips = {SharedId}
    BY <1>2, <2>1 DEF NoFault, n
  <2>3. x' = 1 /\ ~(x' > 3) /\ ~(x' > n) /\ ~(x' > n + 1) /\ ~(x' > n + 2) /\ ~(x' > n + 3)
    BY <1>1, <1>3
  <2>4. xfaults = 0 => (index' \in xfips => index' = SharedId)
    BY <2>2
  <2> QED
    BY <1>1, <1>3, <2>2, <2>3, <2>4 DEF NoFault, n
<1> QED
  BY <1>5, <1>6, <1>8, <1>9 DEF RoundInv

LEMMA RoundInvIsInvariant == ComputeSpec => []RoundInv
<1>1. ComputeInit(1) \/ ComputeInit(XRounds + 1) => RoundInv
  <2>1. /\ 1 \in 1..Cleaning + 4 /\ ~(1 > 3) /\ ~(1 > Cleaning) /\ ~(1 > Cleaning + 1) /\ ~(1 > Cleaning + 2)
        /\ ~(1 > Cleaning + 3)
    BY ProgramLaidOut
  <2>2. SharedId = XRounds + 1 /\ XRounds \in Nat
    BY ComputeAssumption DEF SharedId
  <2>3. ComputeInit(1) \/ ComputeInit(XRounds + 1) => RoundType
    BY <2>1, <2>2 DEF ComputeInit, RoundType, NoId
  <2>4. ComputeInit(1) \/ ComputeInit(XRounds + 1) => Past
    BY <2>2 DEF ComputeInit, Past
  <2>5. ComputeInit(1) \/ ComputeInit(XRounds + 1) => Current
    BY <2>1, <2>2 DEF ComputeInit, Current
  <2>6. ComputeInit(1) \/ ComputeInit(XRounds + 1) => NoFault
    BY <2>1 DEF ComputeInit, NoFault
  <2> QED
    BY <2>3, <2>4, <2>5, <2>6 DEF RoundInv
<1>2. RoundInv /\ [ComputeNext]_compVars => RoundInv'
  <2> SUFFICES ASSUME RoundInv, [ComputeNext]_compVars
               PROVE  RoundInv'
    OBVIOUS
  <2>1. x \in 1..Cleaning + 4 /\ Cleaning \in Nat /\ Len(Program) = Cleaning + 3 /\ xfaults \in Nat
    BY ProgramLaidOut DEF RoundInv, RoundType
  <2> DEFINE s == op[1]
             n == Cleaning
  <2>2. x <= Len(Program) => /\ s = "volume_loop" => x = 2
                             /\ s \in Harmless => 3 < x /\ x < n
    <3>1. x <= Len(Program) => x \in 1..Cleaning + 3 /\ s = Name(Program, x)
      BY <2>1 DEF op, Name
    <3> QED
      BY <3>1, Places
  <2>3. n \in Nat
    BY <2>1
  <2> HIDE DEF n
  <2>4. CASE wait_volume
    <3>1. index <= XRounds /\ x = 2 /\ x' = 3 /\ UNCHANGED <<index, testIds, things, deleting, xfaults, asked, missed, slow>>
      BY <2>2, <2>4 DEF wait_volume, Running, Onwards, marks
    <3> QED
      BY <2>1, <3>1, Moves
  <2>5. CASE ask \/ must \/ look \/ loop \/ resize_confirm_server \/ floating_ip_requests
    <3>1. /\ index <= XRounds /\ x <= Len(Program) /\ s \in Harmless
          /\ UNCHANGED <<index, testIds, things, deleting, xfaults, asked, missed, slow>>
      BY <2>5 DEF ask, must, look, loop, resize_confirm_server, floating_ip_requests, Running, Harmless,
            marks
    <3>2. 3 < x /\ x < n
      BY <2>2, <3>1
    <3>3. \/ x' = x /\ floating_ip' = floating_ip
          \/ x' = x + 1 /\ floating_ip' = floating_ip
          \/ x' = Cleaning /\ floating_ip' = "None"
      BY <2>5 DEF ask, must, look, loop, resize_confirm_server, floating_ip_requests, Onwards, XRaise
    <3>4. x > 3 /\ x < Cleaning
      BY <2>1, <3>2 DEF n
    <3> QED
      BY <2>1, <3>1, <3>3, <3>4, Moves
  <2>6. CASE Nova
    <3>1. /\ index <= XRounds /\ x' = x /\ floating_ip' = floating_ip
          /\ UNCHANGED <<index, testIds, things, deleting, asked, missed, slow>> /\ (xfaults' = xfaults \/ xfaults' = xfaults + 1)
      BY <2>6 DEF Nova, XFault, marks
    <3>2. xfaults' \in Nat /\ (xfaults' = 0 => xfaults = 0)
      BY <2>1, <3>1
    <3> QED
      BY <3>1, <3>2, Moves
  <2>7. CASE UNCHANGED compVars
    BY <2>7, Fixed DEF compVars, things, testIds, marks, RoundInv, RoundType, Past, Current, ServerKnown, VolumeKnown, AddressKnown,
                Owed, NoFault, Shared
  <2> QED
    BY <2>4, <2>5, <2>6, <2>7, RequestFailed, VolumeMade, ServerMade, AddressGot, AddressGone, ServerGone, VolumeFree,
       VolumeGone, ServerDeleted, RoundOver
    DEF ComputeNext, ComputeSteps, NovaSteps
<1> QED
  BY <1>1, <1>2, PTL DEF ComputeSpec

(***************************************************************************)
(* clean_env asks for the deletion of everything a round has made, but for *)
(* what never had an id and a volume whose poll failed, and spares the     *)
(* shared address; without a fault it leaves only servers that Nova is     *)
(* still deleting and volumes whose server outlasted every poll, for any   *)
(* number of rounds, polls and failures (compute_test.py, main, clean_env).*)
(***************************************************************************)
THEOREM RoundsCleanUpHolds == ScriptsSpec => []RoundsCleanUp
<1>1. RoundInv => RoundsCleanUp
  <2> SUFFICES ASSUME RoundInv
               PROVE  RoundsCleanUp
    OBVIOUS
  <2>1. /\ Exist("server") = xservers /\ Exist("volume") = xvolumes /\ Exist("fip") = xfips
    BY DEF Exist
  <2>2. /\ \A r \in Exist("server") : r < index => <<"server", r>> \in asked \cup missed
        /\ \A r \in Exist("volume") : r < index => <<"volume", r>> \in asked \cup missed
        /\ \A r \in Exist("fip") : r < index => <<"fip", r>> \in asked \cup missed
    BY <2>1 DEF RoundInv, Past, Owed
  <2>3. OldIsAsked
    BY <2>2 DEF OldIsAsked, RoundInv, RoundType
  <2>4. GoodRounds
    BY DEF GoodRounds, RoundInv, NoFault
  <2> QED
    BY <2>3, <2>4 DEF RoundsCleanUp
<1> QED
  BY <1>1, ComputeAlone, RoundInvIsInvariant, PTL

-----------------------------------------------------------------------------
(***************************************************************************)
(* The case that builds many machines, as the rest of the script leaves    *)
(* it: the other steps may fail, and no more.                              *)
(***************************************************************************)
Elsewhere == UNCHANGED <<script, mulVars>> /\ (faults' = faults \/ faults' = faults + 1)
MulInits  == script \in {"long_run_tests", "network_test"} /\ faults = 0 /\ MulInit
mulState  == <<script, faults, mulVars>>
MulSpec   == MulInits /\ [][testcase_vm_mul_create_delete \/ Elsewhere]_mulState

LEMMA MulAlone == ScriptsSpec => MulSpec
<1>1. ScriptsInit => MulInits
  BY DEF ScriptsInit, CloudIdle, RunInit, MulInits
<1>2. [ProgramSteps \/ OtherSteps]_scriptsVars => [testcase_vm_mul_create_delete \/ Elsewhere]_mulState
  <2>1. CASE Cloud((Script /\ UNCHANGED mulVars) \/ testcase_vm_mul_create_delete)
    <3>1. CASE testcase_vm_mul_create_delete
      BY <3>1
    <3>2. ASSUME Script, UNCHANGED mulVars
          PROVE  Elsewhere
      <4>1. script' = script
        BY <3>2 DEF Script, _get_Token, send_http_request, Poll, PollOf, cmd_ping_step, StepsDone, clear_env_step,
                    instance_wait_None, run
      <4>2. faults' = faults \/ faults' = faults + 1
        BY <3>2 DEF Script, _get_Token, send_http_request, Poll, PollOf, cmd_ping_step, StepsDone, clear_env_step,
                    instance_wait_None, run, Fault
      <4> QED
        BY <3>2, <4>1, <4>2 DEF Elsewhere
    <3> QED
      BY <2>1, <3>1, <3>2 DEF Cloud
  <2>2. CASE Cloud((TokenExpires \/ Settles) /\ UNCHANGED mulVars)
    BY <2>2 DEF Cloud, Elsewhere, TokenExpires, Settles, Fault
  <2>3. ASSUME UNCHANGED cloudVars
        PROVE  UNCHANGED mulState
    BY <2>3 DEF cloudVars, mulState, runVars
  <2>4. CASE Compute(ComputeSteps) \/ Compute(NovaSteps)
    BY <2>3, <2>4 DEF Compute
  <2>5. CASE Upload(UploadSteps) \/ Upload(CookieExpires \/ QueryFails)
    BY <2>3, <2>5 DEF Upload
  <2>6. CASE Card(Commands) \/ Card(Restart \/ \E o \in DOMAIN opCall : rpcCall(o))
    BY <2>3, <2>6 DEF Card
  <2>7. CASE UNCHANGED scriptsVars
    BY <2>3, <2>7 DEF scriptsVars
  <2> QED
    BY <2>1, <2>2, <2>4, <2>5, <2>6, <2>7 DEF ProgramSteps, OtherSteps
<1> QED
  BY <1>1, <1>2, PTL DEF ScriptsSpec, MulSpec

-----------------------------------------------------------------------------
(***************************************************************************)
(* The pool of long_run_tests: machines that are active and each in it     *)
(* once; the one being built or used is not in it.  The machine created    *)
(* last is at its head as long as one is used.                             *)
(***************************************************************************)
Status     == {"none", "BUILD", "ACTIVE", "SHUTOFF", "VERIFY_RESIZE"}
Member    == [vm : 0..Quota, fip : 0..Quota, vol : 0..Quota]
Pool       == {instances[i].vm : i \in DOMAIN instances}
Building   == {"ACTIVE", "fip", "ping"}
Using      == {"os-stop", "os-start", "resize", "confirmResize", "volume", "os-migrateLive", "compare",
               "delete"}

PoolType ==
  /\ instances \in Seq(Member) /\ cur \in Member /\ servers \in [Ids -> Status] /\ faults \in Nat
  /\ full \in BOOLEAN
  /\ Pool \subseteq Ids /\ \A v \in Pool : servers[v] = "ACTIVE"
  /\ \A i, j \in DOMAIN instances : instances[i].vm = instances[j].vm => i = j

Stage ==
  \/ at = <<"setup", "">> /\ Len(instances) < PoolSize /\ cur.vm = 0
  \/ at = <<"build", "create">> /\ Len(instances) < PoolSize
  \/ \E s \in Building : /\ at = <<"build", s>> /\ Len(instances) < PoolSize
                         /\ cur.vm \in Ids \ Pool /\ instance_id = cur.vm
                         /\ s # "ACTIVE" => servers[cur.vm] = "ACTIVE"
  \/ at = <<"use", "pop">> /\ Len(instances) = PoolSize /\ instances[1].vm = instance_id
  \/ \E s \in Using : /\ at = <<"use", s>> /\ Len(instances) = PoolSize - 1 /\ instances[1].vm = instance_id
                      /\ cur.vm \in Ids \ Pool /\ servers[cur.vm] = Needs[s]
  \/ at = <<"use", "fip">> /\ Len(instances) = PoolSize - 1 /\ instances[1].vm = instance_id
     /\ cur.vm \in Ids /\ servers[cur.vm] = "none"

\* the machines the script has lost
Astray == Machines \ IF at[2] \in {"create", "pop"} THEN Pool ELSE Pool \cup {cur.vm}
Few    == ~full => Cardinality(Astray) <= faults

PoolInv == PoolType /\ Stage /\ Few

LEMMA LowestFree ==
  ASSUME NEW S, Unused(S) # {}
  PROVE  Lowest(S) \in Ids /\ Lowest(S) \notin S
<1>1. Unused(S) \subseteq Nat
  BY MulAssumption DEF Unused, Ids
<1>2. \E i \in Unused(S) : \A k \in Unused(S) : i <= k
  BY <1>1, FirstExists
<1>3. Lowest(S) \in Unused(S)
  BY <1>2 DEF Lowest
<1> QED
  BY <1>3 DEF Unused

LEMMA AstrayFinite ==
  ASSUME PoolType
  PROVE  IsFiniteSet(Astray) /\ Cardinality(Astray) \in Nat
<1>1. IsFiniteSet(1..Quota)
  BY MulAssumption, FS_Interval
<1>2. Astray \subseteq 1..Quota
  BY DEF Astray, Machines, Ids
<1>3. IsFiniteSet(Astray)
  BY <1>1, <1>2, FS_Subset
<1> QED
  BY <1>3, FS_CardinalityType

LEMMA NoneLost ==
  ASSUME PoolType, Few, Astray' \subseteq Astray, ~full' => ~full, faults' \in Nat, faults' >= faults
  PROVE  Few'
<1>1. IsFiniteSet(Astray) /\ Cardinality(Astray) \in Nat
  BY AstrayFinite
<1>2. IsFiniteSet(Astray') /\ Cardinality(Astray') <= Cardinality(Astray)
  BY <1>1, FS_Subset
<1>3. IsFiniteSet(Astray') => Cardinality(Astray') \in Nat
  BY FS_CardinalityType
<1>4. faults \in Nat
  BY DEF PoolType
<1> QED
  BY <1>1, <1>2, <1>3, <1>4 DEF Few

LEMMA OneLost ==
  ASSUME PoolType, Few, Astray' \subseteq Astray \cup {cur.vm}, ~full' => ~full, faults' = faults + 1
  PROVE  Few'
<1> DEFINE more == Astray \cup {cur.vm}
<1>1. IsFiniteSet(Astray) /\ Cardinality(Astray) \in Nat
  BY AstrayFinite
<1>2. IsFiniteSet(more) /\ (Cardinality(more) = Cardinality(Astray) \/ Cardinality(more) = Cardinality(Astray) + 1)
  BY <1>1, FS_AddElement
<1> HIDE DEF more
<1>3. IsFiniteSet(Astray') /\ Cardinality(Astray') <= Cardinality(more)
  BY <1>2, FS_Subset DEF more
<1>4. IsFiniteSet(Astray') => Cardinality(Astray') \in Nat
  BY FS_CardinalityType
<1>5. faults \in Nat
  BY DEF PoolType
<1> QED
  BY <1>1, <1>2, <1>3, <1>4, <1>5 DEF Few

\* the pool is left alone
LEMMA PoolKept ==
  ASSUME PoolType, instances' = instances, cur' \in Member, servers' \in [Ids -> Status],
         \A v \in Pool : servers'[v] = servers[v], faults' \in Nat, full' \in BOOLEAN
  PROVE  PoolType' /\ Pool' = Pool
<1>1. Pool' = Pool
  BY DEF Pool
<1>2. Member' = Member /\ Ids' = Ids /\ Status' = Status
  BY DEF Member, Ids, Status
<1> QED
  BY <1>1, <1>2 DEF PoolType

LEMMA PoolPut ==
  ASSUME PoolType, instances' = <<cur>> \o instances, cur' = cur, servers' = servers, cur.vm \in Ids \ Pool,
         servers[cur.vm] = "ACTIVE", faults' = faults, full' = full
  PROVE  /\ PoolType' /\ Pool' = Pool \cup {cur.vm}
         /\ Len(instances) \in Nat /\ Len(instances') = Len(instances) + 1 /\ instances'[1] = cur
<1> DEFINE n == Len(instances)
           s == <<cur>> \o instances
<1>1. /\ s \in Seq(Member) /\ n \in Nat /\ Len(s) = n + 1 /\ s[1] = cur
      /\ \A i \in 1..n : s[i + 1] = instances[i]
      /\ DOMAIN instances = 1..n /\ DOMAIN s = 1..n + 1
  <2>1. instances \in Seq(Member) /\ cur \in Member
    BY DEF PoolType
  <2> QED
    BY <2>1
<1> HIDE DEF n, s
<1>2. \A i \in 1..n + 1 : s[i] = IF i = 1 THEN cur ELSE instances[i - 1]
  <2>1. \A i \in 1..n + 1 : i = 1 \/ (i - 1 \in 1..n /\ (i - 1) + 1 = i)
    BY <1>1
  <2> QED
    BY <1>1, <2>1
<1>3. instances' = s
  BY DEF s
<1>4. \A i \in 1..n : instances[i].vm \in Pool
  BY <1>1 DEF Pool
<1>5. Pool' = Pool \cup {cur.vm}
  <2>1. Pool' = {s[i].vm : i \in 1..n + 1} /\ Pool = {instances[i].vm : i \in 1..n}
    <3>1. DOMAIN s = 1..n + 1 /\ DOMAIN instances = 1..n
      BY <1>1
    <3>2. Pool' = {s[i].vm : i \in DOMAIN s} /\ Pool = {instances[i].vm : i \in DOMAIN instances}
      BY <1>3 DEF Pool
    <3> QED
      BY <3>1, <3>2
  <2>2. 1 \in 1..n + 1 /\ \A i \in 1..n : i + 1 \in 1..n + 1
    BY <1>1
  <2>3. \A i \in 1..n + 1 : i # 1 => i - 1 \in 1..n
    BY <1>1
  <2>4. {s[i].vm : i \in 1..n + 1} \subseteq {instances[i].vm : i \in 1..n} \cup {cur.vm}
    BY <1>2, <2>3
  <2>5. {instances[i].vm : i \in 1..n} \cup {cur.vm} \subseteq {s[i].vm : i \in 1..n + 1}
    BY <1>1, <2>2
  <2> QED
    BY <2>1, <2>4, <2>5
<1>6. ASSUME NEW i \in 1..n + 1, NEW j \in 1..n + 1, s[i].vm = s[j].vm
      PROVE  i = j
  <2>1. \A k \in 1..n + 1 : k = 1 \/ k - 1 \in 1..n
    BY <1>1
  <2>2. \A k, l \in 1..n : instances[k].vm = instances[l].vm => k = l
    BY <1>1 DEF PoolType
  <2>3. \A k \in 1..n : instances[k].vm # cur.vm
    BY <1>4
  <2>4. i \in Int /\ j \in Int
    BY <1>1
  <2> QED
    BY <1>2, <1>6, <2>1, <2>2, <2>3, <2>4
<1>7. Member' = Member /\ Ids' = Ids /\ Status' = Status
  BY DEF Member, Ids, Status
<1>8. Pool' \subseteq Ids /\ \A v \in Pool' : servers[v] = "ACTIVE"
  BY <1>5 DEF PoolType
<1>9. PoolType'
  BY <1>1, <1>3, <1>6, <1>7, <1>8 DEF PoolType
<1> QED
  BY <1>1, <1>3, <1>5, <1>9 DEF n

LEMMA PoolPopped ==
  ASSUME PoolType, Len(instances) >= 2, instances' = Front(instances), cur' = Last(instances),
         servers' = servers, faults' = faults, full' = full
  PROVE  /\ PoolType' /\ Pool = Pool' \cup {cur'.vm} /\ cur'.vm \in Ids \ Pool'
         /\ Len(instances') = Len(instances) - 1 /\ instances'[1] = instances[1] /\ servers[cur'.vm] = "ACTIVE"
<1> DEFINE n == Len(instances)
           s == Front(instances)
<1>1. /\ s \in Seq(Member) /\ n \in Nat /\ n >= 2 /\ Len(s) = n - 1
      /\ \A i \in 1..n - 1 : s[i] = instances[i]
      /\ DOMAIN instances = 1..n /\ DOMAIN s = 1..n - 1
  <2>1. instances \in Seq(Member)
    BY DEF PoolType
  <2> QED
    BY <2>1 DEF Front
<1>2. cur' = instances[n] /\ cur' \in Member
  BY <1>1 DEF Last, PoolType
<1> HIDE DEF n, s
<1>3. instances' = s
  BY DEF s
<1>4. 1..n = 1..n - 1 \cup {n} /\ 1 \in 1..n - 1 /\ n \notin 1..n - 1
  BY <1>1
<1>5. Pool = Pool' \cup {cur'.vm} /\ cur'.vm \notin Pool'
  <2>1. Pool' = {instances[i].vm : i \in 1..n - 1} /\ Pool = {instances[i].vm : i \in 1..n}
    BY <1>1, <1>3 DEF Pool
  <2>2. \A i, j \in 1..n : instances[i].vm = instances[j].vm => i = j
    BY <1>1 DEF PoolType
  <2> QED
    BY <1>2, <1>4, <2>1, <2>2
<1>6. Member' = Member /\ Ids' = Ids /\ Status' = Status
  BY DEF Member, Ids, Status
<1>7. \A i, j \in DOMAIN s : s[i].vm = s[j].vm => i = j
  BY <1>1, <1>4 DEF PoolType
<1>8. Pool \subseteq Ids /\ \A v \in Pool : servers[v] = "ACTIVE"
  BY DEF PoolType
<1>9. PoolType'
  BY <1>1, <1>2, <1>3, <1>5, <1>6, <1>7, <1>8 DEF PoolType
<1> QED
  BY <1>1, <1>3, <1>4, <1>5, <1>8, <1>9 DEF n

LEMMA StageAt ==
  ASSUME Stage, NEW p, NEW s, at = <<p, s>>
  PROVE  /\ p = "setup" \/ p = "build" => Len(instances) < PoolSize
         /\ p = "setup" => cur.vm = 0
         /\ p = "build" => s \in Building \cup {"create"}
         /\ p = "build" /\ s \in Building => /\ cur.vm \in Ids \ Pool /\ instance_id = cur.vm
                                             /\ s # "ACTIVE" => servers[cur.vm] = "ACTIVE"
         /\ p = "use" => /\ instances[1].vm = instance_id /\ s \in Using \cup {"pop", "fip"}
                         /\ Len(instances) = IF s = "pop" THEN PoolSize ELSE PoolSize - 1
         /\ p = "use" /\ s \in Using => cur.vm \in Ids \ Pool /\ servers[cur.vm] = Needs[s]
         /\ p = "use" /\ s = "fip" => cur.vm \in Ids /\ servers[cur.vm] = "none"
         /\ p \in {"setup", "build", "use"}
<1>1. p = at[1] /\ s = at[2]
  OBVIOUS
<1>2. CASE at = <<"setup", "">> /\ Len(instances) < PoolSize /\ cur.vm = 0
  <2>1. p = "setup"
    <3> DEFINE e == ""
    <3>1. at = <<"setup", e>>
      BY <1>2
    <3> HIDE DEF e
    <3> QED
      BY <1>1, <3>1
  <2>2. Len(instances) < PoolSize /\ cur.vm = 0
    BY <1>2
  <2> QED
    BY <2>1, <2>2 DEF Building
<1>3. CASE at = <<"build", "create">> /\ Len(instances) < PoolSize
  <2>1. p = "build" /\ s = "create"
    BY <1>1, <1>3
  <2>2. Len(instances) < PoolSize
    BY <1>3
  <2> QED
    BY <2>1, <2>2 DEF Building
<1>4. CASE \E t \in Building : /\ at = <<"build", t>> /\ Len(instances) < PoolSize
                               /\ cur.vm \in Ids \ Pool /\ instance_id = cur.vm
                               /\ t # "ACTIVE" => servers[cur.vm] = "ACTIVE"
  <2>1. PICK t \in Building : /\ at = <<"build", t>> /\ Len(instances) < PoolSize
                              /\ cur.vm \in Ids \ Pool /\ instance_id = cur.vm
                              /\ t # "ACTIVE" => servers[cur.vm] = "ACTIVE"
    BY <1>4
  <2>2. p = "build" /\ s = t
    BY <1>1, <2>1
  <2> QED
    BY <2>1, <2>2
<1>5. CASE at = <<"use", "pop">> /\ Len(instances) = PoolSize /\ instances[1].vm = instance_id
  <2>1. p = "use" /\ s = "pop"
    BY <1>1, <1>5
  <2>2. Len(instances) = PoolSize /\ instances[1].vm = instance_id
    BY <1>5
  <2> QED
    BY <2>1, <2>2 DEF Using
<1>6. CASE \E t \in Using : /\ at = <<"use", t>> /\ Len(instances) = PoolSize - 1 /\ instances[1].vm = instance_id
                            /\ cur.vm \in Ids \ Pool /\ servers[cur.vm] = Needs[t]
  <2>1. PICK t \in Using : /\ at = <<"use", t>> /\ Len(instances) = PoolSize - 1 /\ instances[1].vm = instance_id
                           /\ cur.vm \in Ids \ Pool /\ servers[cur.vm] = Needs[t]
    BY <1>6
  <2>2. p = "use" /\ s = t
    BY <1>1, <2>1
  <2> QED
    BY <2>1, <2>2 DEF Using
<1>7. CASE /\ at = <<"use", "fip">> /\ Len(instances) = PoolSize - 1 /\ instances[1].vm = instance_id
           /\ cur.vm \in Ids /\ servers[cur.vm] = "none"
  <2>1. p = "use" /\ s = "fip"
    BY <1>1, <1>7
  <2>2. /\ Len(instances) = PoolSize - 1 /\ instances[1].vm = instance_id
        /\ cur.vm \in Ids /\ servers[cur.vm] = "none"
    BY <1>7
  <2> QED
    BY <2>1, <2>2 DEF Using
<1> QED
  BY <1>2, <1>3, <1>4, <1>5, <1>6, <1>7 DEF Stage

\* the place is one of these, and is the pair of what it says
LEMMA Place2 ==
  ASSUME Stage
  PROVE  at = <<at[1], at[2]>>
<1>1. \E p, s : at = <<p, s>>
  BY DEF Stage
<1> QED
  BY <1>1

LEMMA NeedsIs ==
  /\ Needs["os-stop"] = "ACTIVE" /\ Needs["os-start"] = "SHUTOFF" /\ Needs["resize"] = "ACTIVE"
  /\ Needs["confirmResize"] = "VERIFY_RESIZE" /\ Needs["volume"] = "ACTIVE" /\ Needs["os-migrateLive"] = "ACTIVE"
  /\ Needs["compare"] = "ACTIVE" /\ Needs["delete"] = "ACTIVE"
  BY DEF Needs

LEMMA InstanceMade ==
  ASSUME PoolInv, ~Rounds, instance_made
  PROVE  PoolInv'
<1> DEFINE v == Lowest(Machines)
<1>1. PoolType /\ Stage /\ Few /\ at = <<"build", "create">>
  BY DEF PoolInv, instance_made
<1>2. Len(instances) < PoolSize
  BY <1>1, StageAt
<1>3. v \in Ids /\ v \notin Machines
  BY LowestFree DEF instance_made
<1>4. /\ servers' = [servers EXCEPT ![v] = "BUILD"] /\ instance_id' = v /\ cur' = [Nobody EXCEPT !.vm = v]
      /\ instances' = instances /\ at' = <<"build", "ACTIVE">> /\ faults' = faults /\ full' = full
  BY DEF instance_made, Goto
<1> HIDE DEF v
<1>5. servers[v] = "none" /\ v \notin Pool
  BY <1>1, <1>3 DEF Machines, PoolType
<1>6. cur' \in Member /\ cur'.vm = v
  BY <1>3, <1>4, MulAssumption DEF Nobody, Member, Ids
<1>7. servers' \in [Ids -> Status] /\ \A w \in Pool : servers'[w] = servers[w]
  BY <1>1, <1>3, <1>4, <1>5 DEF PoolType, Status
<1>8. PoolType' /\ Pool' = Pool
  BY <1>1, <1>4, <1>6, <1>7, PoolKept DEF PoolType
<1>9. Stage'
  BY <1>2, <1>3, <1>4, <1>5, <1>6, <1>8 DEF Stage, Building, Ids
<1>10. Astray' \subseteq Astray
  <2>1. Machines' = Machines \cup {v}
    BY <1>1, <1>3, <1>4 DEF Machines, PoolType, Ids
  <2>2. at[2] = "create" /\ at'[2] = "ACTIVE"
    BY <1>1, <1>4
  <2>3. Astray = Machines \ Pool /\ Astray' = Machines' \ (Pool' \cup {cur'.vm})
    BY <2>2 DEF Astray
  <2> QED
    BY <1>6, <1>8, <2>1, <2>3
<1>11. Few'
  BY <1>1, <1>4, <1>10, NoneLost DEF PoolType
<1> QED
  BY <1>8, <1>9, <1>11 DEF PoolInv

LEMMA Built ==
  ASSUME PoolInv, ~Rounds, built
  PROVE  PoolInv'
<1>1. PoolType /\ Stage /\ Few /\ at = <<"build", "ACTIVE">>
  BY DEF PoolInv, built
<1>2. Len(instances) < PoolSize /\ cur.vm \in Ids \ Pool /\ instance_id = cur.vm
  BY <1>1, StageAt DEF Building
<1>3. /\ servers' = [servers EXCEPT ![cur.vm] = "ACTIVE"] /\ instance_id' = instance_id /\ cur' = cur
      /\ instances' = instances /\ at' = <<"build", "fip">> /\ faults' = faults /\ full' = full
  BY DEF built, Goto, lists
<1>4. servers' \in [Ids -> Status] /\ servers'[cur.vm] = "ACTIVE" /\ \A w \in Ids : w # cur.vm => servers'[w] = servers[w]
  BY <1>1, <1>2, <1>3 DEF PoolType, Status
<1>5. PoolType' /\ Pool' = Pool
  <2>1. \A w \in Pool : servers'[w] = servers[w]
    BY <1>1, <1>2, <1>4 DEF PoolType
  <2> QED
    BY <1>1, <1>3, <1>4, <2>1, PoolKept DEF PoolType
<1>6. Stage'
  BY <1>2, <1>3, <1>4, <1>5 DEF Stage, Building, Ids
<1>7. Astray' \subseteq Astray
  <2>1. Machines' \subseteq Machines \cup {cur.vm}
    BY <1>4 DEF Machines, Ids
  <2>2. at[2] = "ACTIVE" /\ at'[2] = "fip"
    BY <1>1, <1>3
  <2>3. Astray = Machines \ (Pool \cup {cur.vm}) /\ Astray' = Machines' \ (Pool' \cup {cur'.vm})
    BY <2>2 DEF Astray
  <2> QED
    BY <1>3, <1>5, <2>1, <2>3
<1>8. Few'
  BY <1>1, <1>3, <1>7, NoneLost DEF PoolType
<1> QED
  BY <1>5, <1>6, <1>8 DEF PoolInv

LEMMA AddressTaken ==
  ASSUME PoolInv, ~Rounds, floatingip_made
  PROVE  PoolInv'
<1> DEFINE f == Lowest(fips)
<1>1. PoolType /\ Stage /\ Few /\ at = <<"build", "fip">>
  BY DEF PoolInv, floatingip_made
<1>2. Len(instances) < PoolSize /\ cur.vm \in Ids \ Pool /\ instance_id = cur.vm /\ servers[cur.vm] = "ACTIVE"
  BY <1>1, StageAt DEF Building
<1>3. f \in Ids
  BY LowestFree DEF floatingip_made
<1>4. /\ servers' = servers /\ instance_id' = instance_id /\ cur' = [cur EXCEPT !.fip = f]
      /\ instances' = instances /\ at' = <<"build", "ping">> /\ faults' = faults /\ full' = full
  BY DEF floatingip_made, Goto
<1> HIDE DEF f
<1>5. cur' \in Member /\ cur'.vm = cur.vm
  <2>1. f \in 0..Quota
    BY <1>3, MulAssumption DEF Ids
  <2>2. cur \in [vm : 0..Quota, fip : 0..Quota, vol : 0..Quota]
    BY <1>1 DEF PoolType, Member
  <2> QED
    BY <1>4, <2>1, <2>2 DEF Member
<1>6. PoolType' /\ Pool' = Pool
  BY <1>1, <1>4, <1>5, PoolKept DEF PoolType
<1>7. Stage'
  BY <1>2, <1>4, <1>5, <1>6 DEF Stage, Building, Ids
<1>8. Astray' \subseteq Astray
  <2>1. Machines' = Machines
    BY <1>4 DEF Machines, Ids
  <2>2. at[2] = "fip" /\ at'[2] = "ping"
    BY <1>1, <1>4
  <2>3. Astray = Machines \ (Pool \cup {cur.vm}) /\ Astray' = Machines' \ (Pool' \cup {cur'.vm})
    BY <2>2 DEF Astray
  <2> QED
    BY <1>5, <1>6, <2>1, <2>3
<1>9. Few'
  BY <1>1, <1>4, <1>8, NoneLost DEF PoolType
<1> QED
  BY <1>6, <1>7, <1>9 DEF PoolInv

LEMMA PingFails ==
  ASSUME PoolInv, ~Rounds, ping_fails
  PROVE  PoolInv'
<1>1. PoolType /\ Stage /\ Few /\ at = <<"build", "ping">>
  BY DEF PoolInv, ping_fails
<1>2. Len(instances) < PoolSize
  BY <1>1, StageAt
<1>3. /\ servers' = servers /\ cur' = cur /\ instances' = instances /\ faults' = faults + 1 /\ full' = full
  BY DEF ping_fails, Fault, lists, tenant
<1>4. at' = <<"build", "create">>
  BY <1>2, <1>3 DEF ping_fails, Onward, Made
<1>5. PoolType' /\ Pool' = Pool
  BY <1>1, <1>3, PoolKept DEF PoolType
<1>6. Stage'
  BY <1>2, <1>3, <1>4 DEF Stage
<1>7. Astray' \subseteq Astray \cup {cur.vm}
  <2>1. Machines' = Machines
    BY <1>3 DEF Machines, Ids
  <2>2. at[2] = "ping" /\ at'[2] = "create"
    BY <1>1, <1>4
  <2>3. Astray = Machines \ (Pool \cup {cur.vm}) /\ Astray' = Machines' \ Pool'
    BY <2>2 DEF Astray
  <2> QED
    BY <1>5, <2>1, <2>3
<1>8. Few'
  BY <1>1, <1>3, <1>7, OneLost
<1> QED
  BY <1>5, <1>6, <1>8 DEF PoolInv

LEMMA PingAnswers ==
  ASSUME PoolInv, ~Rounds, ping_answers
  PROVE  PoolInv'
<1>1. PoolType /\ Stage /\ Few /\ at = <<"build", "ping">>
  BY DEF PoolInv, ping_answers
<1>2. Len(instances) < PoolSize /\ cur.vm \in Ids \ Pool /\ instance_id = cur.vm /\ servers[cur.vm] = "ACTIVE"
  BY <1>1, StageAt DEF Building
<1>3. /\ servers' = servers /\ cur' = cur /\ instances' = <<cur>> \o instances /\ faults' = faults /\ full' = full
      /\ instance_id' = instance_id
  BY DEF ping_answers, tenant
<1>4. /\ PoolType' /\ Pool' = Pool \cup {cur.vm}
      /\ Len(instances) \in Nat /\ Len(instances') = Len(instances) + 1 /\ instances'[1] = cur
  BY <1>1, <1>2, <1>3, PoolPut
<1>5. at' = IF Len(instances') < PoolSize THEN <<"build", "create">> ELSE <<"use", "pop">>
  BY DEF ping_answers, Onward, Made
<1>6. at'[2] \in {"create", "pop"} /\ at[2] = "ping"
  BY <1>1, <1>5
<1>7. Stage'
  <2>1. CASE Len(instances') < PoolSize
    BY <1>5, <2>1 DEF Stage
  <2>2. CASE ~(Len(instances') < PoolSize)
    <3>1. Len(instances') = PoolSize
      BY <1>2, <1>4, <2>2, MulAssumption
    <3> QED
      BY <1>2, <1>3, <1>4, <1>5, <2>2, <3>1 DEF Stage
  <2> QED
    BY <2>1, <2>2
<1>8. Astray' \subseteq Astray
  <2>1. Machines' = Machines
    BY <1>3 DEF Machines, Ids
  <2>2. Astray = Machines \ (Pool \cup {cur.vm}) /\ Astray' = Machines' \ Pool'
    BY <1>6 DEF Astray
  <2> QED
    BY <1>4, <2>1, <2>2
<1>9. Few'
  BY <1>1, <1>3, <1>8, NoneLost DEF PoolType
<1> QED
  BY <1>4, <1>7, <1>9 DEF PoolInv

LEMMA OldestTaken ==
  ASSUME PoolInv, ~Rounds, pop
  PROVE  PoolInv'
<1>1. PoolType /\ Stage /\ Few /\ at = <<"use", "pop">>
  BY DEF PoolInv, pop
<1>2. Len(instances) = PoolSize /\ instances[1].vm = instance_id
  BY <1>1, StageAt
<1>3. /\ servers' = servers /\ cur' = Last(instances) /\ instances' = Front(instances) /\ faults' = faults
      /\ full' = full /\ instance_id' = instance_id /\ at' = <<"use", "os-stop">>
  BY DEF pop, tenant, Goto
<1>4. Len(instances) >= 2
  BY <1>2, MulAssumption
<1>5. /\ PoolType' /\ Pool = Pool' \cup {cur'.vm} /\ cur'.vm \in Ids \ Pool'
      /\ Len(instances') = Len(instances) - 1 /\ instances'[1] = instances[1] /\ servers[cur'.vm] = "ACTIVE"
  BY <1>1, <1>3, <1>4, PoolPopped
<1>6. Stage'
  BY <1>2, <1>3, <1>5, NeedsIs DEF Stage, Using, Ids
<1>7. Astray' \subseteq Astray
  <2>1. Machines' = Machines
    BY <1>3 DEF Machines, Ids
  <2>2. at[2] = "pop" /\ at'[2] = "os-stop"
    BY <1>1, <1>3
  <2>3. Astray = Machines \ Pool /\ Astray' = Machines' \ (Pool' \cup {cur'.vm})
    BY <2>2 DEF Astray
  <2> QED
    BY <1>5, <2>1, <2>3
<1>8. Few'
  BY <1>1, <1>3, <1>7, NoneLost DEF PoolType
<1> QED
  BY <1>5, <1>6, <1>8 DEF PoolInv

\* a request that moves the machine at hand from one status to the next
LEMMA ServerMoves ==
  ASSUME PoolInv, ~Rounds, NEW s \in Using, NEW reached \in Status, NEW then \in Using, ServerAction(s, reached, then),
         Needs[then] = reached, s \notin {"create", "pop"}, then \notin {"create", "pop"}
  PROVE  PoolInv'
<1>1. PoolType /\ Stage /\ Few /\ at = <<"use", s>>
  BY DEF PoolInv, ServerAction
<1>2. /\ Len(instances) = PoolSize - 1 /\ instances[1].vm = instance_id
      /\ cur.vm \in Ids \ Pool /\ servers[cur.vm] = Needs[s]
  BY <1>1, StageAt DEF Using
<1>3. /\ servers' = [servers EXCEPT ![cur.vm] = reached] /\ instance_id' = instance_id /\ cur' = cur
      /\ instances' = instances /\ at' = <<"use", then>> /\ faults' = faults /\ full' = full
  BY DEF ServerAction, Goto, lists
<1>4. servers' \in [Ids -> Status] /\ servers'[cur.vm] = reached /\ \A w \in Ids : w # cur.vm => servers'[w] = servers[w]
  BY <1>1, <1>2, <1>3 DEF PoolType
<1>5. PoolType' /\ Pool' = Pool
  <2>1. \A w \in Pool : servers'[w] = servers[w]
    BY <1>1, <1>2, <1>4 DEF PoolType
  <2> QED
    BY <1>1, <1>3, <1>4, <2>1, PoolKept DEF PoolType
<1>6. Stage'
  BY <1>2, <1>3, <1>4, <1>5 DEF Stage, Ids, Needs
<1>7. Astray' \subseteq Astray
  <2>1. Machines' \subseteq Machines \cup {cur.vm}
    BY <1>4 DEF Machines, Ids
  <2>2. at[2] = s /\ at'[2] = then
    BY <1>1, <1>3
  <2>3. Astray = Machines \ (Pool \cup {cur.vm}) /\ Astray' = Machines' \ (Pool' \cup {cur'.vm})
    BY <2>2 DEF Astray
  <2> QED
    BY <1>3, <1>5, <2>1, <2>3
<1>8. Few'
  BY <1>1, <1>3, <1>7, NoneLost DEF PoolType
<1> QED
  BY <1>5, <1>6, <1>8 DEF PoolInv

\* what goes wrong costs the machine at hand, and the next one is built
LEMMA BuildsAnother ==
  ASSUME PoolInv, NEW p, NEW s, at = <<p, s>>, Len(instances) < PoolSize,
         UNCHANGED <<instances, cur, servers>>, at' = <<"build", "create">>, full' \in BOOLEAN,
         \/ full' /\ (faults' = faults \/ faults' = faults + 1)
         \/ full' = full /\ faults' = faults + 1
         \/ full' = full /\ faults' = faults /\ Astray' \subseteq Astray
  PROVE  PoolInv'
<1>1. PoolType /\ Stage /\ Few /\ faults \in Nat /\ faults' \in Nat
  BY DEF PoolInv, PoolType
<1>2. PoolType' /\ Pool' = Pool
  BY <1>1, PoolKept DEF PoolType
<1>3. Stage'
  BY DEF Stage
<1>4. Astray' \subseteq Astray \cup {cur.vm}
  <2>1. Machines' = Machines
    BY DEF Machines, Ids
  <2>2. at'[2] = "create"
    OBVIOUS
  <2>3. Machines \ (Pool \cup {cur.vm}) \subseteq Astray /\ Astray' = Machines' \ Pool'
    BY <2>2 DEF Astray
  <2> QED
    BY <1>2, <2>1, <2>3
<1>5. Few'
  <2>1. CASE full'
    BY <2>1 DEF Few
  <2>2. CASE full' = full /\ faults' = faults + 1
    BY <1>1, <1>4, <2>2, OneLost
  <2>3. CASE full' = full /\ faults' = faults /\ Astray' \subseteq Astray
    BY <1>1, <2>3, NoneLost
  <2> QED
    BY <2>1, <2>2, <2>3
<1> QED
  BY <1>2, <1>3, <1>5 DEF PoolInv

\* where an exception leads in long_run_tests
LEMMA RaiseBuilds ==
  ASSUME ~Rounds, MulRaise, Len(instances) < PoolSize
  PROVE  at' = <<"build", "create">>
  BY DEF MulRaise

LEMMA VolumeAttached ==
  ASSUME PoolInv, ~Rounds, instance_volume_attach
  PROVE  PoolInv'
<1>1. PoolType /\ Stage /\ Few /\ at = <<"use", "volume">>
  BY DEF PoolInv, instance_volume_attach
<1>2. /\ Len(instances) = PoolSize - 1 /\ instances[1].vm = instance_id
      /\ cur.vm \in Ids \ Pool /\ servers[cur.vm] = "ACTIVE"
  BY <1>1, StageAt, NeedsIs DEF Using
<1>3. /\ servers' = servers /\ instance_id' = instance_id /\ cur' = cur /\ instances' = instances /\ full' = full
      /\ \/ at' = <<"use", "os-migrateLive">> /\ faults' = faults
         \/ MulRaise /\ faults' = faults + 1
  BY DEF instance_volume_attach, lists, Goto, Fault
<1>4. CASE MulRaise /\ faults' = faults + 1
  <2>1. Len(instances) < PoolSize
    BY <1>2, MulAssumption
  <2>2. at' = <<"build", "create">>
    BY <1>4, <2>1, RaiseBuilds
  <2>3. full' \in BOOLEAN
    BY <1>1, <1>3 DEF PoolType
  <2> QED
    BY <1>1, <1>3, <1>4, <2>1, <2>2, <2>3, BuildsAnother
<1>5. CASE at' = <<"use", "os-migrateLive">> /\ faults' = faults
  <2>1. PoolType' /\ Pool' = Pool
    BY <1>1, <1>3, <1>5, PoolKept DEF PoolType
  <2>2. Stage'
    BY <1>2, <1>3, <1>5, <2>1, NeedsIs DEF Stage, Using, Ids
  <2>3. Astray' \subseteq Astray
    <3>1. Machines' = Machines
      BY <1>3 DEF Machines, Ids
    <3>2. at[2] = "volume" /\ at'[2] = "os-migrateLive"
      BY <1>1, <1>5
    <3>3. Astray = Machines \ (Pool \cup {cur.vm}) /\ Astray' = Machines' \ (Pool' \cup {cur'.vm})
      BY <3>2 DEF Astray
    <3> QED
      BY <1>3, <2>1, <3>1, <3>3
  <2>4. Few'
    BY <1>1, <1>3, <1>5, <2>3, NoneLost DEF PoolType
  <2> QED
    BY <2>1, <2>2, <2>4 DEF PoolInv
<1> QED
  BY <1>3, <1>4, <1>5

LEMMA HostsCompared ==
  ASSUME PoolInv, ~Rounds, compare_hosts
  PROVE  PoolInv'
<1>1. PoolType /\ Stage /\ Few /\ at = <<"use", "compare">>
  BY DEF PoolInv, compare_hosts
<1>2. /\ Len(instances) = PoolSize - 1 /\ instances[1].vm = instance_id
      /\ cur.vm \in Ids \ Pool /\ servers[cur.vm] = "ACTIVE"
  BY <1>1, StageAt, NeedsIs DEF Using
<1>3. /\ servers' = servers /\ instance_id' = instance_id /\ cur' = cur /\ instances' = instances /\ full' = full
      /\ \/ at' = <<"use", "delete">> /\ faults' = faults
         \/ at' = <<"build", "create">> /\ faults' = faults + 1
  BY DEF compare_hosts, lists, tenant, Goto, Fault
<1>4. CASE at' = <<"build", "create">> /\ faults' = faults + 1
  <2>1. Len(instances) < PoolSize /\ full' \in BOOLEAN
    BY <1>1, <1>2, <1>3, MulAssumption DEF PoolType
  <2> QED
    BY <1>1, <1>3, <1>4, <2>1, BuildsAnother
<1>5. CASE at' = <<"use", "delete">> /\ faults' = faults
  <2>1. PoolType' /\ Pool' = Pool
    BY <1>1, <1>3, <1>5, PoolKept DEF PoolType
  <2>2. Stage'
    BY <1>2, <1>3, <1>5, <2>1, NeedsIs DEF Stage, Using, Ids
  <2>3. Astray' \subseteq Astray
    <3>1. Machines' = Machines
      BY <1>3 DEF Machines, Ids
    <3>2. at[2] = "compare" /\ at'[2] = "delete"
      BY <1>1, <1>5
    <3>3. Astray = Machines \ (Pool \cup {cur.vm}) /\ Astray' = Machines' \ (Pool' \cup {cur'.vm})
      BY <3>2 DEF Astray
    <3> QED
      BY <1>3, <2>1, <3>1, <3>3
  <2>4. Few'
    BY <1>1, <1>3, <1>5, <2>3, NoneLost DEF PoolType
  <2> QED
    BY <2>1, <2>2, <2>4 DEF PoolInv
<1> QED
  BY <1>3, <1>4, <1>5

LEMMA InstanceDeleted ==
  ASSUME PoolInv, ~Rounds, instance_delete
  PROVE  PoolInv'
<1>1. PoolType /\ Stage /\ Few /\ at = <<"use", "delete">>
  BY DEF PoolInv, instance_delete
<1>2. Len(instances) = PoolSize - 1 /\ instances[1].vm = instance_id /\ cur.vm \in Ids \ Pool
  BY <1>1, StageAt DEF Using
<1>3. /\ servers' = [servers EXCEPT ![cur.vm] = "none"] /\ instance_id' = instance_id /\ cur' = cur
      /\ instances' = instances /\ at' = <<"use", "fip">> /\ faults' = faults /\ full' = full
  BY DEF instance_delete, Vanish, Goto, lists
<1>4. servers' \in [Ids -> Status] /\ servers'[cur.vm] = "none" /\ \A w \in Ids : w # cur.vm => servers'[w] = servers[w]
  BY <1>1, <1>2, <1>3 DEF PoolType, Status
<1>5. PoolType' /\ Pool' = Pool
  <2>1. \A w \in Pool : servers'[w] = servers[w]
    BY <1>1, <1>2, <1>4 DEF PoolType
  <2> QED
    BY <1>1, <1>3, <1>4, <2>1, PoolKept DEF PoolType
<1>6. Stage'
  BY <1>2, <1>3, <1>4, <1>5 DEF Stage, Ids
<1>7. Astray' \subseteq Astray
  <2>1. Machines' \subseteq Machines
    BY <1>4 DEF Machines, Ids
  <2>2. at[2] = "delete" /\ at'[2] = "fip"
    BY <1>1, <1>3
  <2>3. Astray = Machines \ (Pool \cup {cur.vm}) /\ Astray' = Machines' \ (Pool' \cup {cur'.vm})
    BY <2>2 DEF Astray
  <2> QED
    BY <1>3, <1>5, <2>1, <2>3
<1>8. Few'
  BY <1>1, <1>3, <1>7, NoneLost DEF PoolType
<1> QED
  BY <1>5, <1>6, <1>8 DEF PoolInv

LEMMA AddressDeleted ==
  ASSUME PoolInv, ~Rounds, floatingip_delete
  PROVE  PoolInv'
<1>1. PoolType /\ Stage /\ Few /\ at = <<"use", "fip">>
  BY DEF PoolInv, floatingip_delete
<1>2. Len(instances) = PoolSize - 1 /\ cur.vm \in Ids /\ servers[cur.vm] = "none"
  BY <1>1, StageAt
<1>3. /\ servers' = servers /\ cur' = cur /\ instances' = instances /\ at' = <<"build", "create">>
      /\ faults' = faults /\ full' = full
  BY DEF floatingip_delete, Goto, lists
<1>4. Len(instances) < PoolSize /\ full' \in BOOLEAN
  BY <1>1, <1>2, <1>3, MulAssumption DEF PoolType
<1>5. Astray' \subseteq Astray
  <2>1. Machines' = Machines /\ cur.vm \notin Machines /\ Pool' = Pool
    BY <1>2, <1>3 DEF Machines, Ids, Pool
  <2>2. at[2] = "fip" /\ at'[2] = "create"
    BY <1>1, <1>3
  <2>3. Astray = Machines \ (Pool \cup {cur.vm}) /\ Astray' = Machines' \ Pool'
    BY <2>2 DEF Astray
  <2> QED
    BY <2>1, <2>3
<1> QED
  BY <1>1, <1>3, <1>4, <1>5, BuildsAnother

LEMMA ShorterInQuiet ==
  ASSUME PoolInv, at # <<"use", "pop">>
  PROVE  Len(instances) < PoolSize
<1>1. Stage
  BY DEF PoolInv
<1>2. at = <<at[1], at[2]>>
  BY <1>1, Place2
<1>3. at[1] = "use" => at[2] # "pop"
  BY <1>2
<1>4. at[1] \in {"setup", "build", "use"}
  BY <1>1, <1>2, StageAt
<1>5. at[1] \in {"setup", "build"} => Len(instances) < PoolSize
  BY <1>1, <1>2, StageAt
<1>6. at[1] = "use" => Len(instances) = PoolSize - 1
  BY <1>1, <1>2, <1>3, StageAt
<1> QED
  BY <1>4, <1>5, <1>6, MulAssumption

LEMMA RequestOrQuota ==
  ASSUME PoolInv, ~Rounds, request_fails \/ quota_reached
  PROVE  PoolInv'
<1>1. /\ at # <<"use", "pop">> /\ MulRaise /\ instances' = instances /\ cur' = cur /\ servers' = servers
      /\ \/ full' = full /\ faults' = faults + 1
         \/ full' = TRUE /\ faults' = faults
  <2>1. CASE request_fails
    BY <2>1 DEF request_fails, Quiet, lists, tenant, Fault
  <2>2. CASE quota_reached
    BY <2>2 DEF quota_reached, lists, tenant
  <2> QED
    BY <2>1, <2>2
<1>2. Len(instances) < PoolSize /\ full \in BOOLEAN
  BY <1>1, ShorterInQuiet DEF PoolInv, PoolType
<1>3. at' = <<"build", "create">>
  BY <1>1, <1>2, RaiseBuilds
<1>4. at = <<at[1], at[2]>>
  BY Place2 DEF PoolInv
<1> QED
  BY <1>1, <1>2, <1>3, <1>4, BuildsAnother

LEMMA SetupDone ==
  ASSUME PoolInv, ~Rounds, setup_done
  PROVE  PoolInv'
<1>1. /\ at[1] = "setup" /\ at' = <<"build", "create">> /\ instances' = instances /\ cur' = cur
      /\ servers' = servers /\ faults' = faults /\ full' = full
  BY DEF setup_done, Goto, runVars, lists, tenant
<1>2. PoolType /\ Stage /\ Few
  BY DEF PoolInv
<1>3. at = <<at[1], at[2]>>
  BY <1>2, Place2
<1>4. Len(instances) < PoolSize
  BY <1>1, <1>2, <1>3, StageAt
<1>5. Astray' \subseteq Astray
  <2>1. cur.vm \notin Ids
    BY <1>1, <1>2, <1>3, StageAt, MulAssumption DEF Ids
  <2>2. Machines' = Machines /\ cur.vm \notin Machines /\ Pool' = Pool
    BY <1>1, <2>1 DEF Machines, Ids, Pool
  <2>3. at'[2] = "create"
    BY <1>1
  <2>4. Machines \ (Pool \cup {cur.vm}) \subseteq Astray /\ Astray' = Machines' \ Pool'
    BY <2>3 DEF Astray
  <2> QED
    BY <2>2, <2>4
<1>6. full' \in BOOLEAN
  BY <1>1, <1>2 DEF PoolType
<1> QED
  BY <1>1, <1>3, <1>4, <1>5, <1>6, BuildsAnother

\* the steps of network_test alone
LEMMA NotHere ==
  ASSUME Stage
  PROVE  at[1] \notin {"drain", "clear"} /\ at # <<"build", "volume">>
<1>1. at = <<at[1], at[2]>>
  BY Place2
<1>2. at[1] \in {"setup", "build", "use"}
  BY <1>1, StageAt
<1>3. at[1] = "build" => at[2] # "volume"
  BY <1>1, StageAt DEF Building
<1>4. ASSUME at = <<"build", "volume">>
      PROVE  FALSE
  <2>1. at[1] = "build" /\ at[2] = "volume"
    BY <1>4
  <2> QED
    BY <1>3, <2>1
<1> QED
  BY <1>2, <1>4

LEMMA PoolStep ==
  ASSUME PoolInv, ~Rounds, testcase_vm_mul_create_delete
  PROVE  PoolInv'
<1>1. /\ at[1] \notin {"drain", "clear"} /\ at # <<"build", "volume">>
  BY NotHere DEF PoolInv
<1>2. ~volume_made
  BY <1>1 DEF volume_made
<1>3. ~clear_network /\ ~network_cleared /\ ~clear_ends /\ ~round_ends /\ ~rounds_end
  <2>1. ASSUME NEW p \in {"drain", "clear"}, NEW s, at = <<p, s>>
        PROVE  FALSE
    BY <1>1, <2>1
  <2> QED
    BY <2>1 DEF clear_network, network_cleared, clear_ends, round_ends, rounds_end
<1>4. ~drain_instances /\ ~drain_volumes /\ ~drain_fips
  BY <1>1 DEF drain_instances, drain_volumes, drain_fips, Drain
<1>5. CASE Use
  <2>1. CASE instance_stop \/ instance_start \/ instance_resize \/ instance_resize_confirm \/ instance_live_migrate
    BY <2>1, ServerMoves, NeedsIs DEF instance_stop, instance_start, instance_resize, instance_resize_confirm,
       instance_live_migrate, Using, Status
  <2> QED
    BY <1>5, <2>1, OldestTaken, VolumeAttached, HostsCompared, InstanceDeleted, AddressDeleted DEF Use
<1>6. CASE Build
  BY <1>2, <1>6, InstanceMade, Built, AddressTaken, PingFails, PingAnswers DEF Build
<1> QED
  BY <1>3, <1>4, <1>5, <1>6, SetupDone, RequestOrQuota DEF testcase_vm_mul_create_delete, Drains

LEMMA PoolInvIsInvariant == MulSpec => [](~Rounds => PoolInv)
<1>1. MulInits => PoolInv
  <2> SUFFICES ASSUME MulInits
               PROVE  PoolInv
    OBVIOUS
  <2>0. at = <<"setup", "">>
    BY DEF MulInits, MulInit
  <2>1. /\ instances = <<>> /\ cur = Nobody /\ servers = [v \in Ids |-> "none"]
        /\ faults = 0 /\ full = FALSE
    BY DEF MulInits, MulInit
  <2>2. instances \in Seq(Member) /\ Len(instances) = 0 /\ DOMAIN instances = {}
    <3>1. <<>> \in Seq(Member) /\ Len(<<>>) = 0 /\ DOMAIN <<>> = 1..0
      OBVIOUS
    <3> QED
      BY <2>1, <3>1
  <2>3. Pool = {}
    BY <2>2 DEF Pool
  <2>4. cur \in Member /\ cur.vm = 0
    <3>1. 0 \in 0..Quota
      BY MulAssumption
    <3>2. Nobody \in Member /\ Nobody.vm = 0
      BY <3>1 DEF Member, Nobody
    <3> QED
      BY <2>1, <3>2
  <2>5. PoolType
    BY <2>1, <2>2, <2>3, <2>4 DEF PoolType, Status
  <2>6. Stage
    <3>1. Len(instances) < PoolSize
      BY <2>2, MulAssumption
    <3> QED
      BY <2>0, <2>4, <3>1 DEF Stage
  <2>7. Astray = {}
    BY <2>1 DEF Astray, Machines
  <2>8. Few
    <3>1. Cardinality({}) = 0
      BY FS_EmptySet
    <3>2. Cardinality(Astray) = 0 /\ faults = 0
      BY <2>1, <2>7, <3>1
    <3> QED
      BY <3>2 DEF Few
  <2> QED
    BY <2>5, <2>6, <2>8 DEF PoolInv
<1>2. (~Rounds => PoolInv) /\ [testcase_vm_mul_create_delete \/ Elsewhere]_mulState => (~Rounds => PoolInv)'
  <2> SUFFICES ASSUME ~Rounds => PoolInv, [testcase_vm_mul_create_delete \/ Elsewhere]_mulState, (~Rounds)'
               PROVE  PoolInv'
    OBVIOUS
  <2>1. CASE testcase_vm_mul_create_delete
    <3>1. script' = script
      BY <2>1 DEF testcase_vm_mul_create_delete, setup_done, clear_network, runVars
    <3>2. ~Rounds
      BY <3>1 DEF Rounds
    <3> QED
      BY <2>1, <3>2, PoolStep
  <2>2. CASE Elsewhere \/ UNCHANGED mulState
    <3>1. /\ at' = at /\ instances' = instances /\ cur' = cur /\ servers' = servers /\ full' = full
          /\ instance_id' = instance_id /\ script' = script
          /\ (faults' = faults \/ faults' = faults + 1)
      BY <2>2 DEF Elsewhere, mulState, mulVars, lists, tenant
    <3>2. PoolType /\ Stage /\ Few /\ faults \in Nat
      BY <3>1 DEF Rounds, PoolInv, PoolType
    <3>3. PoolType' /\ Pool' = Pool
      BY <3>1, <3>2, PoolKept DEF PoolType
    <3>4. Stage'
      BY <3>1, <3>2, <3>3 DEF Stage, Ids, Needs
    <3>5. Astray' = Astray
      BY <3>1, <3>3 DEF Astray, Machines, Ids
    <3>6. Few'
      BY <3>1, <3>2, <3>5, NoneLost
    <3> QED
      BY <3>3, <3>4, <3>6 DEF PoolInv
  <2> QED
    BY <2>1, <2>2
<1>3. MulInits => (~Rounds => PoolInv)
  BY <1>1
<1> QED
  BY <1>2, <1>3, PTL DEF MulSpec

LEMMA FirstOf ==
  ASSUME NEW p, NEW s
  PROVE  <<p, s>>[1] = p
  OBVIOUS

LEMMA GoesTo ==
  ASSUME NEW p, NEW s, Goto(p, s)
  PROVE  at'[1] = p
  BY DEF Goto

\* network_test has no pool
LEMMA NoPool == MulSpec => [](Rounds => at[1] # "use")
<1>1. MulInits => (Rounds => at[1] # "use")
  <2>1. MulInits => at[1] = "setup"
    <3>1. MulInits => at = <<"setup", "">>
      BY DEF MulInits, MulInit
    <3> QED
      BY <3>1, FirstOf
  <2> QED
    BY <2>1
<1>2. (Rounds => at[1] # "use") /\ [testcase_vm_mul_create_delete \/ Elsewhere]_mulState => (Rounds => at[1] # "use")'
  <2> SUFFICES ASSUME Rounds => at[1] # "use", [testcase_vm_mul_create_delete \/ Elsewhere]_mulState, Rounds'
               PROVE  at'[1] # "use"
    OBVIOUS
  <2>1. CASE testcase_vm_mul_create_delete
    <3>1. script' = script
      BY <2>1 DEF testcase_vm_mul_create_delete, setup_done, clear_network, runVars
    <3>2. Rounds /\ at[1] # "use"
      BY <3>1 DEF Rounds
    <3>3. ASSUME MulRaise
          PROVE  at'[1] # "use"
      BY <3>2, <3>3, GoesTo DEF MulRaise
    <3>4. ASSUME Onward
          PROVE  at'[1] # "use"
      BY <3>2, <3>4 DEF Onward
    <3>5. CASE setup_done \/ clear_network
      BY <3>2, <3>5, GoesTo DEF setup_done, clear_network
    <3>6. CASE Build
      BY <3>2, <3>4, <3>6 DEF Build, volume_made, instance_made, built, floatingip_made, ping_fails, ping_answers, Goto
    <3>7. CASE Use
      <4>1. ASSUME NEW s, at = <<"use", s>>
            PROVE  FALSE
        BY <3>2, <4>1
      <4> QED
        BY <3>7, <4>1 DEF Use, pop, instance_stop, instance_start, instance_resize, instance_resize_confirm,
           instance_live_migrate, ServerAction, instance_volume_attach, compare_hosts, instance_delete, floatingip_delete
    <3>8. CASE drain_instances \/ drain_volumes \/ drain_fips
      BY <3>2, <3>3, <3>8 DEF drain_instances, drain_volumes, drain_fips, Drain
    <3>9. CASE network_cleared \/ round_ends \/ rounds_end \/ clear_ends
      <4>1. CASE network_cleared \/ round_ends \/ clear_ends
        BY <4>1, GoesTo DEF network_cleared, round_ends, clear_ends
      <4>2. CASE rounds_end
        <5> DEFINE over == <<"over", "">>
                   clear == <<"clear", "instances">>
        <5>1. at' = over \/ at' = clear
          BY <4>2 DEF rounds_end
        <5>2. over[1] = "over" /\ clear[1] = "clear"
          BY FirstOf
        <5> HIDE DEF over, clear
        <5> QED
          BY <5>1, <5>2
      <4> QED
        BY <3>9, <4>1, <4>2
    <3>10. CASE request_fails \/ quota_reached
      BY <3>3, <3>10 DEF request_fails, quota_reached
    <3> QED
      BY <2>1, <3>5, <3>6, <3>7, <3>8, <3>9, <3>10 DEF testcase_vm_mul_create_delete, Drains
  <2>2. CASE Elsewhere \/ UNCHANGED mulState
    BY <2>2 DEF Elsewhere, mulState, mulVars, Rounds
  <2> QED
    BY <2>1, <2>2
<1> QED
  BY <1>1, <1>2, PTL DEF MulSpec

(***************************************************************************)
(* A request of long_run_tests.py finds the machine of the pool as Nova    *)
(* wants it, the new volume goes to a machine of the pool, and no failure  *)
(* loses more than one machine, for any number of machines, failures and   *)
(* sizes of the pool (testcase_vm_mul_create_delete).                      *)
(***************************************************************************)
THEOREM PoolIsUsableHolds == ScriptsSpec => []PoolIsUsable
<1>1. (~Rounds => PoolInv) /\ (Rounds => at[1] # "use") => PoolIsUsable
  <2> SUFFICES ASSUME ~Rounds => PoolInv, Rounds => at[1] # "use"
               PROVE  PoolIsUsable
    OBVIOUS
  <2>1. ASSUME PoolInv
        PROVE  PoolUsable
    <3>1. PoolType /\ Stage
      BY <2>1 DEF PoolInv
    <3>2. ASSUME at = <<"use", "volume">>
          PROVE  \E i \in DOMAIN instances : instances[i].vm = instance_id
      <4>1. Len(instances) = PoolSize - 1 /\ instances[1].vm = instance_id
        BY <3>1, <3>2, StageAt
      <4>2. instances \in Seq(Member)
        BY <3>1 DEF PoolType
      <4>3. 1 \in DOMAIN instances
        BY <4>1, <4>2, MulAssumption
      <4> QED
        BY <4>1, <4>3
    <3>3. ASSUME at[1] = "use", at[2] \in DOMAIN Needs
          PROVE  servers[cur.vm] = Needs[at[2]]
      <4>1. at = <<at[1], at[2]>>
        BY <3>1, Place2
      <4>2. at[2] \in Using
        BY <3>3 DEF Needs, Using
      <4> QED
        BY <3>1, <3>3, <4>1, <4>2, StageAt
    <3> QED
      BY <3>2, <3>3 DEF PoolUsable
  <2>2. ASSUME Rounds
        PROVE  PoolUsable
    <3>1. at[1] # "use"
      BY <2>2
    <3>2. at # <<"use", "volume">>
      BY <3>1
    <3> QED
      BY <3>1, <3>2 DEF PoolUsable
  <2>3. ASSUME PoolInv
        PROVE  FewLost
    <3> DEFINE gone == Machines \ ({cur.vm} \cup {instances[i].vm : i \in DOMAIN instances})
    <3>1. PoolType /\ Few /\ IsFiniteSet(Astray) /\ Cardinality(Astray) \in Nat /\ faults \in Nat
      BY <2>3, AstrayFinite DEF PoolInv, PoolType
    <3>2. gone \subseteq Astray
      BY DEF Astray, Pool
    <3> HIDE DEF gone
    <3>3. IsFiniteSet(gone) /\ Cardinality(gone) <= Cardinality(Astray)
      BY <3>1, <3>2, FS_Subset
    <3>4. Cardinality(gone) \in Nat
      BY <3>3, FS_CardinalityType
    <3>5. ~full => Cardinality(gone) <= faults
      BY <3>1, <3>3, <3>4 DEF Few
    <3> QED
      BY <3>5 DEF FewLost, gone
  <2>4. ASSUME Rounds
        PROVE  FewLost
    BY <2>4 DEF FewLost
  <2> QED
    BY <2>1, <2>2, <2>3, <2>4 DEF PoolIsUsable
<1> QED
  BY <1>1, MulAlone, PoolInvIsInvariant, NoPool, PTL

-----------------------------------------------------------------------------
(***************************************************************************)
(* The cases of CloudRun.  What the dictionaries of a case hold: the name  *)
(* that belongs to each key of env and of env_minor, and the two that      *)
(* testcase_fw puts in their place.                                        *)
(***************************************************************************)
OwnName ==
  [network_id |-> "network", subnet_id |-> "subnet", router_id |-> "router",
   securitygroup_id |-> "sg", securitygroup_rule_id |-> "sgrule",
   firewall_rule_id |-> "fwrule", firewall_policy_id |-> "policy", firewall_id |-> "fw",
   volume_id |-> "volume", instance_id |-> "instance", floatingip_id |-> "fip"]
MinorName ==
  [securitygroup_rule_id |-> "sgrule_tcp", network_id |-> "network2",
   subnet_id |-> "subnet2", subnet_gw_id |-> "iface2", volume_id |-> "volume2",
   instance_id |-> "instance2", floatingip_id |-> "fip2"]

Replaced == {<<"firewall_rule_id", "fwrule_new">>, <<"firewall_policy_id", "policy_new">>}
TwoVlans == "testcase_connectivity_between_two_vlan"

(***************************************************************************)
(* The kinds of steps.                                                     *)
(***************************************************************************)
Ops   == {"ask", "hold", "swap", "free", "wait_instance", "wait_firewall", "wait_volume",
          "answers", "silent"}
Names == {"network", "subnet", "router", "iface", "sg", "sgrule", "fwrule", "policy", "fw", "volume",
          "instance", "fip", "port", "sgrule_tcp", "fwrule_tcp", "network2", "subnet2", "iface2",
          "volume2", "instance2", "fip2", "fwrule_new", "policy_new"}
Keys  == DOMAIN OwnName \cup {"subnet_gw_id"}
AnyStep == [op : Ops \cup {"new", "drop"}, name : Names, uses : SUBSET Names, key : Keys \cup {"none"},
            at : {"env", "env_minor"}]

Recording(s, names) == s.op = "new" /\ s.key \in DOMAIN names /\ s.name = names[s.key]
Plain(s)            == s.op \notin {"new", "drop"} /\ s.key = "none"
Ordinary    == {s \in AnyStep : (s.at = "env" /\ Recording(s, OwnName)) \/ Plain(s)}
MinorOnes   == {s \in AnyStep : s.at = "env_minor" /\ Recording(s, MinorName)}
Unkept      == {s \in AnyStep : s.op = "new" /\ s.key = "none" /\ s.name \in {"sgrule_tcp", "fwrule_tcp"}}
RuleDropped == {As("securitygroup_rule_id", securitygroup_rule_delete)}

\* the fields of a step
LEMMA StepIs ==
  ASSUME NEW o \in Ops \cup {"new", "drop"}, NEW n \in Names, NEW h \in SUBSET Names
  PROVE  LET s == Step(o, n, h) IN
         s \in AnyStep /\ s.op = o /\ s.name = n /\ s.key = "none" /\ s.at = "env"
  BY DEF Step, AnyStep

\* As sets the key of a step and nothing else
LEMMA AsIs ==
  ASSUME NEW s \in AnyStep, NEW k \in Keys
  PROVE  /\ As(k, s) \in AnyStep /\ As(k, s).key = k
         /\ As(k, s).op = s.op /\ As(k, s).name = s.name /\ As(k, s).at = s.at
  BY DEF As, AnyStep

\* Minor sends a step to env_minor and changes nothing else
LEMMA MinorIs ==
  ASSUME NEW s \in AnyStep
  PROVE  /\ Minor(s) \in AnyStep /\ Minor(s).at = "env_minor"
         /\ Minor(s).op = s.op /\ Minor(s).name = s.name /\ Minor(s).key = s.key
  BY DEF Minor, AnyStep

\* a step that creates something and records it
LEMMA NewIs ==
  ASSUME NEW n \in Names, NEW h \in SUBSET Names, NEW k \in Keys
  PROVE  LET s == As(k, Step("new", n, h)) IN
         s \in AnyStep /\ s.op = "new" /\ s.name = n /\ s.key = k /\ s.at = "env"
<1> DEFINE s == Step("new", n, h)
<1>1. s \in AnyStep /\ s.op = "new" /\ s.name = n /\ s.at = "env"
  BY StepIs
<1> HIDE DEF s
<1>2. LET a == As(k, s) IN
      a \in AnyStep /\ a.op = "new" /\ a.name = n /\ a.key = k /\ a.at = "env"
  BY <1>1, AsIs
<1> QED
  BY <1>2, Zenon DEF s

\* a step that only asks, waits or pings
LEMMA OrdinaryStep ==
  ASSUME NEW o \in Ops, NEW n \in Names, NEW h \in SUBSET Names
  PROVE  Step(o, n, h) \in Ordinary
<1> DEFINE s == Step(o, n, h)
<1>1. s \in AnyStep /\ s.op = o /\ s.key = "none"
  BY StepIs
<1> HIDE DEF s
<1>2. s \in Ordinary
  BY <1>1 DEF Ordinary, Plain, Ops
<1> QED
  BY <1>2 DEF s

\* a step that records what it creates under its own name
LEMMA OrdinaryNew ==
  ASSUME NEW k \in DOMAIN OwnName, NEW n, n = OwnName[k], NEW h \in SUBSET Names
  PROVE  As(k, Step("new", n, h)) \in Ordinary
<1>1. k \in Keys /\ n \in Names
  BY DEF OwnName, Names, Keys
<1> QED
  BY <1>1, NewIs DEF Ordinary, Recording

\* the same in env_minor
LEMMA MinorNew ==
  ASSUME NEW k \in DOMAIN MinorName, NEW n, n = MinorName[k], NEW h \in SUBSET Names
  PROVE  Minor(As(k, Step("new", n, h))) \in MinorOnes
<1>1. k \in Keys /\ n \in Names
  BY DEF MinorName, OwnName, Names, Keys
<1> DEFINE s == As(k, Step("new", n, h))
<1>2. s \in AnyStep /\ s.op = "new" /\ s.name = n /\ s.key = k
  BY <1>1, NewIs
<1> HIDE DEF s
<1> QED
  BY <1>1, <1>2, MinorIs DEF MinorOnes, Recording, s

\* the parts most cases share have only such steps: Pingable
LEMMA PingableOrdinary == Pingable \in Seq(Ordinary) /\ Len(Pingable) = 1
<1>1. As("securitygroup_rule_id", securitygroup_rule_create) \in Ordinary
  BY OrdinaryNew DEF OwnName, Names, securitygroup_rule_create
<1> QED
  BY <1>1 DEF Pingable

\* Firewall
LEMMA FirewallOrdinary == Firewall \in Seq(Ordinary) /\ Len(Firewall) = 6
<1>1. As("firewall_rule_id", firewall_rule_create("fwrule")) \in Ordinary
  BY OrdinaryNew DEF OwnName, Names, firewall_rule_create
<1>2. As("firewall_policy_id", firewall_policy_create("policy")) \in Ordinary
  BY OrdinaryNew DEF OwnName, Names, firewall_policy_create
<1>3. firewall_polcy_insert_rule("policy", "fwrule") \in Ordinary
  BY OrdinaryStep DEF Ops, Names, firewall_polcy_insert_rule
<1>4. As("firewall_id", firewall_create("policy")) \in Ordinary
  BY OrdinaryNew DEF OwnName, Names, firewall_create
<1>5. firewall_change_router \in Ordinary /\ firewall_wait \in Ordinary
  BY OrdinaryStep DEF Ops, Names, firewall_change_router, firewall_wait
<1> QED
  BY <1>1, <1>2, <1>3, <1>4, <1>5 DEF Firewall

\* Machine
LEMMA MachineOrdinary == Machine \in Seq(Ordinary) /\ Len(Machine) = 8
<1>1. As("volume_id", volume_create("volume")) \in Ordinary
  BY OrdinaryNew DEF OwnName, Names, volume_create
<1>2. As("instance_id", instance_create_by_volume("instance", "network", "volume")) \in Ordinary
  BY OrdinaryNew DEF OwnName, Names, instance_create_by_volume
<1>3. As("floatingip_id", floatingip_create("fip")) \in Ordinary
  BY OrdinaryNew DEF OwnName, Names, floatingip_create
<1>4. volume_wait("volume") \in Ordinary /\ instance_wait("instance") \in Ordinary
  BY OrdinaryStep DEF Ops, Names, volume_wait, instance_wait
<1>5. instance_find_fix_ip \in Ordinary /\ port_find_by_mac \in Ordinary /\ refresh_arp_cache \in Ordinary
  BY OrdinaryStep DEF Ops, Names, instance_find_fix_ip, port_find_by_mac, refresh_arp_cache
<1> QED
  BY <1>1, <1>2, <1>3, <1>4, <1>5 DEF Machine

\* the pings of the machine
LEMMA PingOrdinary == cmd_ping(TRUE) \in Ordinary /\ cmd_ping(FALSE) \in Ordinary
  BY OrdinaryStep DEF Ops, Names, cmd_ping

\* Network, step by step
LEMMA NetworkSteps ==
  /\ Network \in Seq(AnyStep) /\ Len(Network) = 6
  /\ Network[1] = As("network_id", network_create("network")) 
  /\ Network[2] = As("subnet_id", subnet_create("subnet", "network")) 
  /\ Network[3] = As("router_id", router_create)
  /\ Network[4] = router_set_external_gw
  /\ Network[5] = router_add_internal_gw("iface", "subnet", "network")
  /\ Network[6] = As("securitygroup_id", securitygroup_create)
<1>1. As("network_id", network_create("network")) \in AnyStep
  BY NewIs DEF Names, Keys, OwnName, network_create
<1>2. As("subnet_id", subnet_create("subnet", "network")) \in AnyStep
  BY NewIs DEF Names, Keys, OwnName, subnet_create
<1>3. As("router_id", router_create) \in AnyStep /\ As("securitygroup_id", securitygroup_create) \in AnyStep
  BY NewIs DEF Names, Keys, OwnName, router_create, securitygroup_create
<1>4. router_set_external_gw \in AnyStep /\ router_add_internal_gw("iface", "subnet", "network") \in AnyStep
  BY StepIs DEF Names, Ops, router_set_external_gw, router_add_internal_gw
<1> DEFINE a == As("network_id", network_create("network"))
           b == As("subnet_id", subnet_create("subnet", "network"))
           c == As("router_id", router_create)
           d == router_set_external_gw
           e == router_add_internal_gw("iface", "subnet", "network")
           f == As("securitygroup_id", securitygroup_create)
<1>5. Network = <<a, b, c, d, e, f>>
  BY DEF Network
<1>6. {a, b, c, d, e, f} \subseteq AnyStep
  BY <1>1, <1>2, <1>3, <1>4
<1> HIDE DEF a, b, c, d, e, f
<1>7. /\ Network \in Seq(AnyStep) /\ Len(Network) = 6 /\ Network[1] = a /\ Network[2] = b
      /\ Network[3] = c /\ Network[4] = d /\ Network[5] = e /\ Network[6] = f
  BY <1>5, <1>6
<1> QED
  BY <1>7 DEF a, b, c, d, e, f

\* a case begins as Network says, and what follows are steps of X
Follows(S, X) ==
  /\ S \in Seq(AnyStep) /\ Len(S) >= 6
  /\ \A i \in 1..6 : S[i] = Network[i]
  /\ \A i \in 7..Len(S) : S[i] \in X

-----------------------------------------------------------------------------
(***************************************************************************)
(* The first six steps of every case are those of Network; what comes      *)
(* after them is in X.                                                     *)
(***************************************************************************)
LEMMA FollowsNetwork ==
  ASSUME NEW X
  PROVE  Follows(Network, X)
  BY NetworkSteps DEF Follows

\* appending steps of X
LEMMA FollowsMore ==
  ASSUME NEW X, X \subseteq AnyStep, NEW S, Follows(S, X), NEW T \in Seq(X)
  PROVE  Follows(S \o T, X) /\ Len(S \o T) = Len(S) + Len(T)
<1>1. T \in Seq(AnyStep) /\ S \in Seq(AnyStep) /\ \A i \in 1..Len(T) : T[i] \in X
  BY DEF Follows
<1>2. /\ S \o T \in Seq(AnyStep) /\ Len(S \o T) = Len(S) + Len(T)
      /\ \A i \in 1..Len(S) + Len(T) : (S \o T)[i] = IF i <= Len(S) THEN S[i] ELSE T[i - Len(S)]
  BY <1>1, ConcatProperties
<1>3. Len(S) \in Nat /\ Len(T) \in Nat
  BY <1>1
<1> HIDE DEF Follows
<1> DEFINE n == Len(S)
           m == Len(T)
           C == S \o T
<1>4. n >= 6 /\ (\A i \in 1..6 : S[i] = Network[i]) /\ \A i \in 7..n : S[i] \in X
  BY DEF Follows
<1>5. C \in Seq(AnyStep) /\ Len(C) = n + m /\ n \in Nat /\ m \in Nat
  BY <1>2, <1>3
<1>6. \A i \in 1..n + m : C[i] = IF i <= n THEN S[i] ELSE T[i - n]
  BY <1>2
<1>7. \A i \in 1..m : T[i] \in X
  BY <1>1
<1> HIDE DEF n, m, C
<1>8. \A i \in 1..6 : C[i] = Network[i]
  BY <1>4, <1>5, <1>6
<1>9. \A i \in 7..n + m : C[i] \in X
  <2>1. \A i \in 7..n + m : (i <= n => i \in 7..n) /\ (~(i <= n) => i - n \in 1..m)
    BY <1>4, <1>5
  <2>2. \A i \in 7..n + m : i \in 1..n + m
    BY <1>5
  <2> QED
    BY <1>4, <1>6, <1>7, <2>1, <2>2
<1>10. Follows(C, X) /\ Len(C) = n + m
  BY <1>4, <1>5, <1>8, <1>9 DEF Follows
<1> QED
  BY <1>10 DEF C, n, m

\* the parts the cases share, as steps of any larger set
LEMMA OrdinaryAmong ==
  ASSUME NEW X, Ordinary \subseteq X
  PROVE  Pingable \in Seq(X) /\ Firewall \in Seq(X) /\ Machine \in Seq(X)
  BY PingableOrdinary, FirewallOrdinary, MachineOrdinary, SeqMonotonic, Zenon

\* what testcase_basic and testcase_fw begin with
Common == Network \o Pingable \o Firewall \o Machine

\* what the cases with a firewall begin with
LEMMA CommonSteps == Follows(Common, Ordinary) /\ Len(Common) = 21
<1> DEFINE X == Ordinary
           A == Network \o Pingable
           B == A \o Firewall
           C == B \o Machine
<1>1. X \subseteq AnyStep
  BY DEF Ordinary
<1>2. Follows(Network, X) /\ Len(Network) = 6
  BY FollowsNetwork, NetworkSteps, Zenon
<1>3. /\ Pingable \in Seq(X) /\ Firewall \in Seq(X) /\ Machine \in Seq(X)
      /\ Len(Pingable) = 1 /\ Len(Firewall) = 6 /\ Len(Machine) = 8
  BY PingableOrdinary, FirewallOrdinary, MachineOrdinary
<1> HIDE DEF X
<1>4. Follows(A, X) /\ Len(A) = Len(Network) + Len(Pingable)
  BY <1>1, <1>2, <1>3, FollowsMore, Zenon
<1> HIDE DEF A
<1>5. Follows(B, X) /\ Len(B) = Len(A) + Len(Firewall)
  BY <1>1, <1>3, <1>4, FollowsMore, Zenon
<1> HIDE DEF B
<1>6. Follows(C, X) /\ Len(C) = Len(B) + Len(Machine)
  BY <1>1, <1>3, <1>5, FollowsMore, Zenon
<1> HIDE DEF C
<1>7. Follows(C, X) /\ Len(C) = 21
  BY <1>2, <1>3, <1>4, <1>5, <1>6
<1> QED
  BY <1>7, Zenon DEF A, B, C, X, Common

\* testcase_basic
LEMMA BasicSteps == Follows(testcase_basic, Ordinary)
<1>1. Ordinary \subseteq AnyStep
  BY DEF Ordinary
<1>2. <<cmd_ping(TRUE)>> \in Seq(Ordinary)
  <2> DEFINE p == cmd_ping(TRUE)
  <2>1. p \in Ordinary
    BY PingOrdinary
  <2> HIDE DEF p
  <2>2. <<p>> \in Seq(Ordinary)
    BY <2>1
  <2> QED
    BY <2>2, Zenon DEF p
<1>3. testcase_basic = Common \o <<cmd_ping(TRUE)>>
  BY Zenon DEF testcase_basic, Common
<1> QED
  BY <1>1, <1>2, <1>3, CommonSteps, FollowsMore, Zenon

\* testcase_securitygroup
LEMMA SecuritySteps == Follows(testcase_securitygroup, Ordinary \cup RuleDropped)
<1> DEFINE X == Ordinary \cup RuleDropped
<1>1. Ordinary \subseteq X /\ RuleDropped \subseteq X
  OBVIOUS
<1>2. X \subseteq AnyStep
  <2>1. securitygroup_rule_delete \in AnyStep
    BY StepIs DEF securitygroup_rule_delete, Names
  <2>2. As("securitygroup_rule_id", securitygroup_rule_delete) \in AnyStep
    BY <2>1, AsIs DEF Keys, OwnName
  <2> QED
    BY <2>2 DEF Ordinary, RuleDropped
<1>3. Machine \in Seq(X)
  BY <1>1, OrdinaryAmong
<1>4. As("securitygroup_rule_id", securitygroup_rule_create) \in Ordinary
  BY OrdinaryNew DEF OwnName, Names, securitygroup_rule_create
<1> DEFINE a == As("securitygroup_rule_id", securitygroup_rule_create)
           b == As("securitygroup_rule_id", securitygroup_rule_delete)
           p == cmd_ping(FALSE)
           q == cmd_ping(TRUE)
<1>5. a \in X /\ b \in X /\ p \in X /\ q \in X
  BY <1>1, <1>4, PingOrdinary DEF RuleDropped
<1> HIDE DEF X
<1>6. Follows(Network \o Machine, X)
  BY <1>2, <1>3, FollowsNetwork, FollowsMore
<1>7. <<p, a, q, b, p>> \in Seq(X)
  <2> HIDE DEF a, b, p, q
  <2> QED
    BY <1>5
<1>8. Follows(Network \o Machine \o <<p, a, q, b, p>>, X)
  BY <1>2, <1>6, <1>7, FollowsMore
<1> QED
  BY <1>8 DEF testcase_securitygroup, X

\* testcase_connectivity_between_two_vlan
LEMMA TwoVlansSteps == Follows(testcase_connectivity_between_two_vlan, Ordinary \cup MinorOnes)
<1> DEFINE X == Ordinary \cup MinorOnes
<1>1. Ordinary \subseteq X /\ MinorOnes \subseteq X /\ X \subseteq AnyStep
  BY DEF Ordinary, MinorOnes
<1>2. Pingable \in Seq(X) /\ Machine \in Seq(X)
  BY <1>1, OrdinaryAmong
<1> DEFINE p  == cmd_ping(TRUE)
           a1 == Minor(As("securitygroup_rule_id", securitygroup_rule_create_tcp))
           a2 == Minor(As("network_id", network_create("network2")))
           a3 == Minor(As("subnet_id", subnet_create("subnet2", "network2")))
           a4 == Minor(As("subnet_gw_id", router_add_internal_gw("iface2", "subnet2", "network2")))
           a5 == Minor(As("volume_id", volume_create("volume2")))
           a6 == volume_wait("volume2")
           a7 == Minor(As("instance_id", instance_create_by_volume("instance2", "network2", "volume2")))
           a8 == instance_wait("instance2")
           a9 == instance_find_fix_ip
           b1 == port_find_by_mac
           b2 == Minor(As("floatingip_id", floatingip_create("fip2")))
           b3 == refresh_arp_cache
           b4 == instance_wait_sshable
           b5 == cmd_ping_between_two_ip
<1>3. p \in X
  BY <1>1, PingOrdinary
<1>4. a1 \in X /\ a2 \in X /\ a3 \in X /\ a4 \in X
  <2>1. a1 \in MinorOnes
    BY MinorNew DEF MinorName, Names, securitygroup_rule_create_tcp
  <2>2. a2 \in MinorOnes
    BY MinorNew DEF MinorName, Names, network_create
  <2>3. a3 \in MinorOnes
    BY MinorNew DEF MinorName, Names, subnet_create
  <2>4. a4 \in MinorOnes
    BY MinorNew DEF MinorName, Names, router_add_internal_gw
  <2> QED
    BY <1>1, <2>1, <2>2, <2>3, <2>4
<1>5. a5 \in X /\ a7 \in X /\ b2 \in X
  <2>1. a5 \in MinorOnes
    BY MinorNew DEF MinorName, Names, volume_create
  <2>2. a7 \in MinorOnes
    BY MinorNew DEF MinorName, Names, instance_create_by_volume
  <2>3. b2 \in MinorOnes
    BY MinorNew DEF MinorName, Names, floatingip_create
  <2> QED
    BY <1>1, <2>1, <2>2, <2>3
<1>6. a6 \in X /\ a8 \in X /\ a9 \in X /\ b1 \in X /\ b3 \in X /\ b4 \in X /\ b5 \in X
  <2>1. a6 \in Ordinary /\ a8 \in Ordinary /\ a9 \in Ordinary
    BY OrdinaryStep DEF Ops, Names, volume_wait, instance_wait, instance_find_fix_ip
  <2>2. b1 \in Ordinary /\ b3 \in Ordinary /\ b4 \in Ordinary /\ b5 \in Ordinary
    BY OrdinaryStep DEF Ops, Names, port_find_by_mac, refresh_arp_cache, instance_wait_sshable, cmd_ping_between_two_ip
  <2> QED
    BY <1>1, <2>1, <2>2
<1> HIDE DEF X
<1>7. Follows(Network \o Pingable \o Machine, X)
  BY <1>1, <1>2, FollowsNetwork, FollowsMore
<1> DEFINE T == <<p, a1, a2, a3, a4, a5, a6, a7, a8, a9, b1, b2, b3, p, b4, b5>>
<1>8. T \in Seq(X)
  <2> HIDE DEF p, a1, a2, a3, a4, a5, a6, a7, a8, a9, b1, b2, b3, b4, b5
  <2> QED
    BY <1>3, <1>4, <1>5, <1>6
<1>9. Follows(Network \o Pingable \o Machine \o T, X)
  <2> HIDE DEF T
  <2> QED
    BY <1>1, <1>7, <1>8, FollowsMore
<1> QED
  BY <1>9 DEF testcase_connectivity_between_two_vlan, X

\* create_Networkenv of both scripts
LEMMA SetupSteps ==
  /\ Follows(create_Networkenv, Ordinary \cup Unkept)
  /\ Follows(create_Networkenv_pinged, Ordinary \cup Unkept)
<1> DEFINE X == Ordinary \cup Unkept
<1>1. Ordinary \subseteq X /\ Unkept \subseteq X /\ X \subseteq AnyStep
  BY DEF Ordinary, Unkept
<1>2. Pingable \in Seq(X) /\ Machine \in Seq(X)
  BY <1>1, OrdinaryAmong
<1> DEFINE a1 == securitygroup_rule_create_tcp
           a2 == As("firewall_rule_id", firewall_rule_create("fwrule"))
           a3 == firewall_rule_create_tcp
           a4 == As("firewall_policy_id", firewall_policy_create("policy"))
           a5 == firewall_polcy_insert_rule("policy", "fwrule")
           a6 == firewall_polcy_insert_rule("policy", "fwrule_tcp")
           a7 == As("firewall_id", firewall_create("policy"))
           a8 == firewall_change_router
           a9 == firewall_wait
           p  == cmd_ping(TRUE)
<1>3. p \in X
  BY <1>1, PingOrdinary
<1>4. a1 \in X /\ a3 \in X
  <2>1. a1 \in Unkept /\ a3 \in Unkept
    BY StepIs DEF Names, Unkept, securitygroup_rule_create_tcp, firewall_rule_create_tcp
  <2> QED
    BY <1>1, <2>1
<1>5. a2 \in X /\ a4 \in X /\ a7 \in X
  <2>1. a2 \in Ordinary /\ a4 \in Ordinary /\ a7 \in Ordinary
    BY OrdinaryNew DEF OwnName, Names, firewall_rule_create, firewall_policy_create, firewall_create
  <2> QED
    BY <1>1, <2>1
<1>6. a5 \in X /\ a6 \in X /\ a8 \in X /\ a9 \in X
  <2>1. a5 \in Ordinary /\ a6 \in Ordinary /\ a8 \in Ordinary /\ a9 \in Ordinary
    BY OrdinaryStep DEF Ops, Names, firewall_polcy_insert_rule, firewall_change_router, firewall_wait
  <2> QED
    BY <1>1, <2>1
<1> HIDE DEF X
<1>7. Follows(Network \o Pingable, X)
  BY <1>1, <1>2, FollowsNetwork, FollowsMore
<1> DEFINE T == <<a1, a2, a3, a4, a5, a6, a7, a8, a9>>
<1>8. T \in Seq(X) /\ <<p>> \in Seq(X)
  <2> HIDE DEF p, a1, a2, a3, a4, a5, a6, a7, a8, a9
  <2> QED
    BY <1>3, <1>4, <1>5, <1>6
<1>9. Follows(Network \o Pingable \o T, X)
  <2> HIDE DEF T
  <2> QED
    BY <1>1, <1>7, <1>8, FollowsMore
<1>10. Follows(create_Networkenv, X)
  BY <1>9 DEF create_Networkenv
<1>11. Follows(create_Networkenv \o Machine, X)
  BY <1>1, <1>2, <1>10, FollowsMore
<1>12. Follows(create_Networkenv \o Machine \o <<p>>, X)
  <2> HIDE DEF p
  <2> QED
    BY <1>1, <1>8, <1>11, FollowsMore
<1> QED
  BY <1>10, <1>12 DEF create_Networkenv_pinged, X

-----------------------------------------------------------------------------
(***************************************************************************)
(* testcase_fw is the case that replaces what it has recorded: steps 23    *)
(* and 24 take the keys of the old rule and policy, steps 28 and 29 delete *)
(* those.                                                                  *)
(***************************************************************************)
InFw == Case = "testcase_fw"

Plains     == {s \in AnyStep : Plain(s)}
Renewed    == {s \in AnyStep : s.op = "new" /\ s.at = "env" /\ <<s.key, s.name>> \in Replaced}
Dropped(n) == {s \in AnyStep : s.op = "drop" /\ s.key = "none" /\ s.name = n}

\* where the elements of two joined sequences are
LEMMA Placed ==
  ASSUME NEW X, NEW A \in Seq(X), NEW B \in Seq(X)
  PROVE  /\ A \o B \in Seq(X) /\ Len(A \o B) = Len(A) + Len(B)
         /\ \A i \in 1..Len(A) : (A \o B)[i] = A[i]
         /\ \A i \in 1..Len(B) : (A \o B)[Len(A) + i] = B[i]
<1> DEFINE C == A \o B
           n == Len(A)
           m == Len(B)
<1>1. /\ C \in Seq(X) /\ Len(C) = n + m
      /\ \A i \in 1..n + m : C[i] = IF i <= n THEN A[i] ELSE B[i - n]
  BY ConcatProperties
<1>2. n \in Nat /\ m \in Nat
  OBVIOUS
<1> HIDE DEF C, n, m
<1>3. (\A i \in 1..n : C[i] = A[i]) /\ \A i \in 1..m : C[n + i] = B[i]
  BY <1>1, <1>2
<1> QED
  BY <1>1, <1>3 DEF C, n, m

\* testcase_fw, step by step
LEMMA FwSteps ==
  LET S == testcase_fw IN
  /\ S \in Seq(AnyStep) /\ Len(S) = 31
  /\ \A i \in 1..6 : S[i] = Network[i]
  /\ \A i \in 7..21 : S[i] \in Ordinary
  /\ S[23] \in Renewed /\ S[24] \in Renewed
  /\ S[28] \in Dropped("fwrule") /\ S[29] \in Dropped("policy")
  /\ \A i \in {22, 25, 26, 27, 30, 31} : S[i] \in Plains
<1> DEFINE a == cmd_ping(FALSE)
           b == As("firewall_rule_id", firewall_rule_create("fwrule_new"))
           c == As("firewall_policy_id", firewall_policy_create("policy_new"))
           d == firewall_polcy_insert_rule("policy_new", "fwrule_new")
           e == firewall_change_policy("policy_new")
           f == firewall_polcy_remove_rule("policy", "fwrule")
           g == firewall_rule_delete("fwrule")
           h == firewall_policy_delete("policy")
           k == firewall_wait
           l == cmd_ping(TRUE)
           T == <<a, b, c, d, e, f, g, h, k, l>>
<1>1. a \in Plains /\ k \in Plains /\ l \in Plains
  BY StepIs DEF Ops, Names, cmd_ping, firewall_wait, Plains, Plain
<1>2. d \in Plains /\ e \in Plains /\ f \in Plains
  BY StepIs DEF Ops, Names, firewall_polcy_insert_rule, firewall_change_policy, firewall_polcy_remove_rule, Plains, Plain
<1>3. b \in Renewed
  <2> DEFINE s == Step("new", "fwrule_new", {})
  <2>1. s \in AnyStep /\ s.op = "new" /\ s.name = "fwrule_new" /\ s.at = "env"
    BY StepIs DEF Names
  <2> HIDE DEF s
  <2>2. As("firewall_rule_id", s) \in Renewed
    BY <2>1, AsIs DEF Renewed, Replaced, Keys, OwnName
  <2> QED
    BY <2>2, Zenon DEF s, firewall_rule_create
<1>4. c \in Renewed
  <2> DEFINE s == Step("new", "policy_new", {})
  <2>1. s \in AnyStep /\ s.op = "new" /\ s.name = "policy_new" /\ s.at = "env"
    BY StepIs DEF Names
  <2> HIDE DEF s
  <2>2. As("firewall_policy_id", s) \in Renewed
    BY <2>1, AsIs DEF Renewed, Replaced, Keys, OwnName
  <2> QED
    BY <2>2, Zenon DEF s, firewall_policy_create
<1>5. g \in Dropped("fwrule") /\ h \in Dropped("policy")
  BY StepIs DEF Names, firewall_rule_delete, firewall_policy_delete, Dropped
<1>6. Plains \subseteq AnyStep /\ Renewed \subseteq AnyStep /\ Dropped("fwrule") \subseteq AnyStep /\ Dropped("policy") \subseteq AnyStep
  BY DEF Plains, Renewed, Dropped
<1>7. testcase_fw = Common \o T
  BY Zenon DEF testcase_fw, Common
<1> DEFINE P == Plains
           R == Renewed
           D1 == Dropped("fwrule")
           D2 == Dropped("policy")
           S == testcase_fw
<1>8. /\ P \subseteq AnyStep /\ R \subseteq AnyStep /\ D1 \subseteq AnyStep /\ D2 \subseteq AnyStep
      /\ a \in P /\ b \in R /\ c \in R /\ d \in P /\ e \in P /\ f \in P /\ g \in D1 /\ h \in D2 /\ k \in P /\ l \in P
  BY <1>1, <1>2, <1>3, <1>4, <1>5, <1>6
<1> HIDE DEF a, b, c, d, e, f, g, h, k, l, P, R, D1, D2, S
<1>9. T \in Seq(AnyStep) /\ Len(T) = 10 /\ T[1] = a /\ T[2] = b /\ T[3] = c /\ T[4] = d /\ T[5] = e
      /\ T[6] = f /\ T[7] = g /\ T[8] = h /\ T[9] = k /\ T[10] = l
  BY <1>8
<1> HIDE DEF T
<1>10. Follows(Common, Ordinary) /\ Len(Common) = 21
  BY CommonSteps
<1>11. Common \in Seq(AnyStep) /\ (\A i \in 1..6 : Common[i] = Network[i]) /\ (\A i \in 7..21 : Common[i] \in Ordinary)
  BY <1>10 DEF Follows
<1>12. /\ S \in Seq(AnyStep) /\ Len(S) = 21 + 10
       /\ \A i \in 1..21 : S[i] = Common[i]
       /\ \A i \in 1..10 : S[21 + i] = T[i]
  <2>1. S = Common \o T
    BY <1>7, Zenon DEF S
  <2>2. /\ Common \o T \in Seq(AnyStep) /\ Len(Common \o T) = 21 + 10
        /\ \A i \in 1..21 : (Common \o T)[i] = Common[i]
        /\ \A i \in 1..10 : (Common \o T)[21 + i] = T[i]
    <3>1. Common \in Seq(AnyStep) /\ T \in Seq(AnyStep)
      BY <1>9, <1>11
    <3>2. /\ Common \o T \in Seq(AnyStep) /\ Len(Common \o T) = Len(Common) + Len(T)
          /\ \A i \in 1..Len(Common) : (Common \o T)[i] = Common[i]
          /\ \A i \in 1..Len(T) : (Common \o T)[Len(Common) + i] = T[i]
      BY <3>1, Placed
    <3>3. Len(Common) = 21 /\ Len(T) = 10
      BY <1>9, <1>10
    <3> QED
      BY <3>2, <3>3
  <2> QED
    BY <2>1, <2>2, Zenon
<1>13. (\A i \in 1..6 : S[i] = Network[i]) /\ \A i \in 7..21 : S[i] \in Ordinary
  <2>1. 1..6 \subseteq 1..21 /\ 7..21 \subseteq 1..21
    OBVIOUS
  <2> QED
    BY <1>11, <1>12, <2>1, Zenon
<1>14. S[22] = a /\ S[23] = b /\ S[24] = c /\ S[25] = d /\ S[26] = e /\ S[27] = f /\ S[28] = g
       /\ S[29] = h /\ S[30] = k /\ S[31] = l
  <2>1. \A i \in 1..10 : S[21 + i] = T[i]
    BY <1>12
  <2>2. /\ S[22] = T[1] /\ S[23] = T[2] /\ S[24] = T[3] /\ S[25] = T[4] /\ S[26] = T[5]
        /\ S[27] = T[6] /\ S[28] = T[7] /\ S[29] = T[8] /\ S[30] = T[9] /\ S[31] = T[10]
    <3>1. \A i \in 1..10 : 21 + i \in 22..31
      OBVIOUS
    <3>2. S[21 + 1] = T[1] /\ S[21 + 2] = T[2] /\ S[21 + 3] = T[3] /\ S[21 + 4] = T[4] /\ S[21 + 5] = T[5]
      BY <2>1
    <3>3. S[21 + 6] = T[6] /\ S[21 + 7] = T[7] /\ S[21 + 8] = T[8] /\ S[21 + 9] = T[9] /\ S[21 + 10] = T[10]
      BY <2>1
    <3> QED
      BY <3>2, <3>3
  <2> QED
    BY <1>9, <2>2
<1>15. S[23] \in R /\ S[24] \in R /\ S[28] \in D1 /\ S[29] \in D2 /\ \A i \in {22, 25, 26, 27, 30, 31} : S[i] \in P
  BY <1>8, <1>14
<1>16. Len(S) = 31
  BY <1>12
<1> QED
  BY <1>12, <1>13, <1>15, <1>16, Zenon DEF S, P, R, D1, D2

-----------------------------------------------------------------------------
(***************************************************************************)
(* What a step does to the dictionaries: it records what it creates under  *)
(* its own name, puts a new name in the place of an old one, creates       *)
(* something nobody keeps the id of, deletes the rule of                   *)
(* testcase_securitygroup or what testcase_fw has replaced, or leaves them *)
(* alone.  Every step of every case is one of these.                       *)
(***************************************************************************)
Records(key) ==
  /\ step.op = "new" /\ step.key = key /\ (InFw => pc <= 21)
  /\ \/ step.at = "env" /\ key \in DOMAIN OwnName /\ step.name = OwnName[key]
     \/ step.at = "env_minor" /\ Case = TwoVlans /\ key \in DOMAIN MinorName /\ step.name = MinorName[key]
Renews == InFw /\ pc \in {23, 24} /\ step \in Renewed
Untold ==
  /\ step.op = "new" /\ step.key = "none"
  /\ \/ step.name = "iface" /\ pc = 5
     \/ step.name \in {"sgrule_tcp", "fwrule_tcp"} /\ Case = Setup
DropsRule ==
  /\ Case = "testcase_securitygroup" /\ step.op = "drop" /\ step.at = "env"
  /\ step.name = "sgrule" /\ step.key = "securitygroup_rule_id"
DropsOld ==
  /\ InFw
  /\ \/ pc = 28 /\ step \in Dropped("fwrule")
     \/ pc = 29 /\ step \in Dropped("policy")

StepKind ==
  /\ step \in AnyStep
  /\ (\E key \in Keys : Records(key)) \/ Renews \/ Untold \/ DropsRule \/ DropsOld \/ Plain(step)
  /\ pc = 2 => Records("subnet_id") /\ step.at = "env"
  /\ pc = 3 => Records("router_id") /\ step.at = "env"
  /\ InFw /\ pc \in {28, 29} => DropsOld

\* the kind of each step of Network
LEMMA NetworkKinds ==
  ASSUME pc \in 1..6, step = Network[pc]
  PROVE  StepKind
<1>1. CASE pc = 1
  <2>1. step = As("network_id", Step("new", "network", {}))
    BY <1>1, NetworkSteps, Zenon DEF network_create
  <2>2. step \in AnyStep /\ step.op = "new" /\ step.name = "network" /\ step.key = "network_id" /\ step.at = "env"
    BY <2>1, NewIs DEF Names, Keys, OwnName
  <2>3. Records("network_id") /\ "network_id" \in Keys
    BY <1>1, <2>2 DEF Records, OwnName, Keys
  <2> QED
    BY <1>1, <2>2, <2>3 DEF StepKind
<1>2. CASE pc = 2
  <2>1. step = As("subnet_id", Step("new", "subnet", {}))
    BY <1>2, NetworkSteps, Zenon DEF subnet_create
  <2>2. step \in AnyStep /\ step.op = "new" /\ step.name = "subnet" /\ step.key = "subnet_id" /\ step.at = "env"
    BY <2>1, NewIs DEF Names, Keys, OwnName
  <2>3. Records("subnet_id") /\ "subnet_id" \in Keys
    BY <1>2, <2>2 DEF Records, OwnName, Keys
  <2> QED
    BY <1>2, <2>2, <2>3 DEF StepKind
<1>3. CASE pc = 3
  <2>1. step = As("router_id", Step("new", "router", {}))
    BY <1>3, NetworkSteps, Zenon DEF router_create
  <2>2. step \in AnyStep /\ step.op = "new" /\ step.name = "router" /\ step.key = "router_id" /\ step.at = "env"
    BY <2>1, NewIs DEF Names, Keys, OwnName
  <2>3. Records("router_id") /\ "router_id" \in Keys
    BY <1>3, <2>2 DEF Records, OwnName, Keys
  <2> QED
    BY <1>3, <2>2, <2>3 DEF StepKind
<1>4. CASE pc = 4
  <2>1. step = Step("ask", "router", {})
    BY <1>4, NetworkSteps, Zenon DEF router_set_external_gw
  <2>2. step \in AnyStep /\ Plain(step)
    BY <2>1, StepIs DEF Names, Ops, Plain
  <2> QED
    BY <1>4, <2>2 DEF StepKind
<1>5. CASE pc = 5
  <2>1. step = Step("new", "iface", {"router", "subnet", "network"})
    BY <1>5, NetworkSteps, Zenon DEF router_add_internal_gw
  <2>2. step \in AnyStep /\ step.op = "new" /\ step.name = "iface" /\ step.key = "none"
    BY <2>1, StepIs DEF Names, Ops
  <2> QED
    BY <1>5, <2>2 DEF StepKind, Untold
<1>6. CASE pc = 6
  <2>1. step = As("securitygroup_id", Step("new", "sg", {}))
    BY <1>6, NetworkSteps, Zenon DEF securitygroup_create
  <2>2. step \in AnyStep /\ step.op = "new" /\ step.name = "sg" /\ step.key = "securitygroup_id" /\ step.at = "env"
    BY <2>1, NewIs DEF Names, Keys, OwnName
  <2>3. Records("securitygroup_id") /\ "securitygroup_id" \in Keys
    BY <1>6, <2>2 DEF Records, OwnName, Keys
  <2> QED
    BY <1>6, <2>2, <2>3 DEF StepKind
<1> QED
  BY <1>1, <1>2, <1>3, <1>4, <1>5, <1>6

\* of an ordinary step
LEMMA OrdinaryKinds ==
  ASSUME pc \in Nat, pc > 6, InFw => pc <= 21, step \in Ordinary
  PROVE  StepKind
<1>1. step \in AnyStep /\ ((step.at = "env" /\ Recording(step, OwnName)) \/ Plain(step))
  BY DEF Ordinary
<1>2. step.key \in DOMAIN OwnName => step.key \in Keys
  BY DEF Keys
<1>3. CASE step.at = "env" /\ Recording(step, OwnName)
  <2>1. Records(step.key) /\ step.key \in Keys
    BY <1>2, <1>3 DEF Records, Recording
  <2> QED
    BY <1>1, <2>1 DEF StepKind
<1>4. CASE Plain(step)
  BY <1>1, <1>4 DEF StepKind
<1> QED
  BY <1>1, <1>3, <1>4

\* of the steps only one case has
LEMMA OtherKinds ==
  ASSUME pc \in Nat, pc > 6, ~InFw,
         \/ Case = TwoVlans /\ step \in MinorOnes
         \/ Case = Setup /\ step \in Unkept
         \/ Case = "testcase_securitygroup" /\ step \in RuleDropped
  PROVE  StepKind
<1>1. CASE Case = TwoVlans /\ step \in MinorOnes
  <2>1. step \in AnyStep /\ step.at = "env_minor" /\ step.op = "new"
        /\ step.key \in DOMAIN MinorName /\ step.name = MinorName[step.key]
    BY <1>1 DEF MinorOnes, Recording
  <2>2. step.key \in Keys
    BY <2>1 DEF Keys, MinorName, OwnName
  <2>3. Records(step.key)
    BY <1>1, <2>1 DEF Records
  <2> QED
    BY <2>1, <2>2, <2>3 DEF StepKind
<1>2. CASE Case = Setup /\ step \in Unkept
  BY <1>2 DEF Unkept, StepKind, Untold
<1>3. CASE Case = "testcase_securitygroup" /\ step \in RuleDropped
  <2> DEFINE s == Step("drop", "sgrule", {})
  <2>1. s \in AnyStep /\ s.op = "drop" /\ s.name = "sgrule" /\ s.at = "env"
    <3>1. "sgrule" \in Names /\ {} \in SUBSET Names /\ "drop" \in Ops \cup {"new", "drop"}
      BY DEF Names
    <3> QED
      BY <3>1, StepIs
  <2>2. step = As("securitygroup_rule_id", s)
    <3>1. step = As("securitygroup_rule_id", securitygroup_rule_delete)
      BY <1>3 DEF RuleDropped
    <3> QED
      BY <3>1, Zenon DEF securitygroup_rule_delete
  <2> HIDE DEF s
  <2>3. step \in AnyStep /\ step.op = "drop" /\ step.name = "sgrule" /\ step.at = "env"
        /\ step.key = "securitygroup_rule_id"
    BY <2>1, <2>2, AsIs DEF Keys, OwnName
  <2> QED
    BY <1>3, <2>3 DEF StepKind, DropsRule
<1> QED
  BY <1>1, <1>2, <1>3

\* Steps, case by case
LEMMA StepsAre ==
  /\ Case = "testcase_basic" => Steps = testcase_basic
  /\ Case = "testcase_securitygroup" => Steps = testcase_securitygroup
  /\ InFw => Steps = testcase_fw
  /\ Case = TwoVlans => Steps = testcase_connectivity_between_two_vlan
  /\ Case = Setup /\ script = "long_run_tests" => Steps = create_Networkenv
  /\ Case = Setup /\ script = "network_test" => Steps = create_Networkenv_pinged
<1> DEFINE a == testcase_basic
           b == testcase_securitygroup
           c == testcase_fw
           d == testcase_connectivity_between_two_vlan
           e == create_Networkenv
           f == create_Networkenv_pinged
<1>1. Steps = CASE Case = "testcase_basic" -> a
                [] Case = "testcase_securitygroup" -> b
                [] Case = "testcase_fw" -> c
                [] Case = "testcase_connectivity_between_two_vlan" -> d
                [] Case = Setup /\ script = "long_run_tests" -> e
                [] Case = Setup /\ script = "network_test" -> f
                [] Case = Env1 -> <<>>
  BY Zenon DEF Steps
<1> HIDE DEF a, b, c, d, e, f
<1>2. /\ Case = "testcase_basic" => Steps = a
      /\ Case = "testcase_securitygroup" => Steps = b
      /\ InFw => Steps = c
      /\ Case = TwoVlans => Steps = d
      /\ Case = Setup /\ script = "long_run_tests" => Steps = e
      /\ Case = Setup /\ script = "network_test" => Steps = f
  BY <1>1 DEF InFw, TwoVlans, Setup, Env1
<1> QED
  BY <1>2, Zenon DEF a, b, c, d, e, f

\* every step of every case
LEMMA StepKinds ==
  ASSUME Case \in Cases \cup {Setup}, script \in {"long_run_tests", "network_test"},
         pc \in Nat \ {0}, pc <= Len(Steps)
  PROVE  StepKind
<1>1. ASSUME NEW X, NEW S, Follows(S, X), Steps = S, ~InFw
      PROVE  /\ pc \in 1..6 => StepKind
             /\ pc > 6 => step \in X
  <2>1. step = S[pc] /\ pc \in 1..Len(S)
    BY <1>1 DEF step
  <2>2. pc \in 1..6 => step = Network[pc]
    BY <1>1, <2>1, Zenon DEF Follows
  <2>3. pc > 6 => pc \in 7..Len(S)
    BY <1>1, <2>1 DEF Follows
  <2>4. pc > 6 => step \in X
    BY <1>1, <2>1, <2>3, Zenon DEF Follows
  <2> QED
    BY <2>2, <2>4, NetworkKinds
<1>2. pc \in 1..6 \/ pc > 6
  OBVIOUS
<1>3. CASE Case = "testcase_basic"
  <2>1. Steps = testcase_basic /\ ~InFw
    BY <1>3, StepsAre DEF InFw
  <2>2. (pc \in 1..6 => StepKind) /\ (pc > 6 => step \in Ordinary)
    BY <1>1, <2>1, BasicSteps, Zenon
  <2> QED
    BY <1>2, <2>1, <2>2, OrdinaryKinds
<1>4. CASE Case = "testcase_securitygroup"
  <2>1. Steps = testcase_securitygroup /\ ~InFw
    BY <1>4, StepsAre DEF InFw
  <2>2. (pc \in 1..6 => StepKind) /\ (pc > 6 => step \in Ordinary \cup RuleDropped)
    BY <1>1, <2>1, SecuritySteps, Zenon
  <2> QED
    BY <1>2, <1>4, <2>1, <2>2, OrdinaryKinds, OtherKinds
<1>5. CASE Case = TwoVlans
  <2>1. Steps = testcase_connectivity_between_two_vlan /\ ~InFw
    BY <1>5, StepsAre DEF InFw, TwoVlans
  <2>2. (pc \in 1..6 => StepKind) /\ (pc > 6 => step \in Ordinary \cup MinorOnes)
    BY <1>1, <2>1, TwoVlansSteps, Zenon
  <2> QED
    BY <1>2, <1>5, <2>1, <2>2, OrdinaryKinds, OtherKinds
<1>6. CASE Case = Setup
  <2>1. ~InFw
    BY <1>6 DEF InFw, Setup
  <2>2. CASE script = "long_run_tests"
    <3>1. Steps = create_Networkenv
      BY <1>6, <2>2, StepsAre
    <3>2. (pc \in 1..6 => StepKind) /\ (pc > 6 => step \in Ordinary \cup Unkept)
      BY <1>1, <2>1, <3>1, SetupSteps, Zenon
    <3> QED
      BY <1>2, <1>6, <2>1, <3>2, OrdinaryKinds, OtherKinds
  <2>3. CASE script = "network_test"
    <3>1. Steps = create_Networkenv_pinged
      BY <1>6, <2>3, StepsAre
    <3>2. (pc \in 1..6 => StepKind) /\ (pc > 6 => step \in Ordinary \cup Unkept)
      BY <1>1, <2>1, <3>1, SetupSteps, Zenon
    <3> QED
      BY <1>2, <1>6, <2>1, <3>2, OrdinaryKinds, OtherKinds
  <2> QED
    BY <2>2, <2>3
<1>7. CASE InFw
  <2> DEFINE S == testcase_fw
  <2>1. step = S[pc] /\ pc \in 1..31
    <3>1. Steps = S
      BY <1>7, StepsAre
    <3> QED
      BY <3>1, FwSteps DEF step
  <2>2. CASE pc \in 1..6
    <3>1. step = Network[pc]
      BY <2>1, <2>2, FwSteps, Zenon
    <3> QED
      BY <2>2, <3>1, NetworkKinds
  <2>3. CASE pc \in 7..21
    <3>1. step \in Ordinary
      BY <2>1, <2>3, FwSteps, Zenon
    <3> QED
      BY <2>3, <3>1, OrdinaryKinds
  <2>4. CASE pc \in {22, 25, 26, 27, 30, 31}
    <3>1. step \in Plains
      BY <2>1, <2>4, FwSteps, Zenon
    <3> QED
      BY <2>4, <3>1 DEF Plains, StepKind
  <2>5. CASE pc \in {23, 24}
    <3>1. step \in Renewed
      BY <2>1, <2>5, FwSteps
    <3> QED
      BY <1>7, <2>5, <3>1 DEF Renewed, Renews, StepKind
  <2>6. CASE pc \in {28, 29}
    <3>1. DropsOld
      BY <1>7, <2>1, <2>6, FwSteps DEF DropsOld
    <3>2. step \in AnyStep
      BY <3>1 DEF DropsOld, Dropped
    <3> QED
      BY <2>6, <3>1, <3>2 DEF StepKind
  <2> QED
    BY <2>1, <2>2, <2>3, <2>4, <2>5, <2>6
<1> QED
  BY <1>3, <1>4, <1>5, <1>6, <1>7 DEF Cases, InFw, TwoVlans

-----------------------------------------------------------------------------
(***************************************************************************)
(* The invariant of a case.  While it runs its dictionaries hold every     *)
(* resource it was told of, under a key clear_env knows.  While it clears, *)
(* what is left is still due: recorded under a key clear_env has yet to    *)
(* come to.  With the gateway of the router recorded, so is its interface. *)
(* A case on its way to True has lost nothing and deleted the rule and     *)
(* policy it replaced.                                                     *)
(***************************************************************************)
Dictionaries == {"env", "env_minor"}
Plans ==
  { <<"testcase_basic", "testcase_securitygroup", "testcase_fw", TwoVlans>>,
    <<"testcase_securitygroup", "testcase_fw", TwoVlans>>, <<"testcase_fw", TwoVlans>>,
    <<TwoVlans>>, <<Setup>>, <<Env1>> }
LaterIn(p, c) == \E i \in 2..Len(p) : p[i] = c

\* where clear_env deletes what is recorded under a key
DeletedAt ==
  [instance_id |-> 1, volume_id |-> 3, firewall_id |-> 5, firewall_rule_id |-> 7,
   firewall_policy_id |-> 8, securitygroup_rule_id |-> 9, securitygroup_id |-> 10,
   subnet_gw_id |-> 12, subnet_id |-> 13, network_id |-> 14, router_id |-> 15, floatingip_id |-> 16]

Mine(r)    == r[1] = Case
Heard       == {r \in alive \ lost : Mine(r)}
Kept(dict, n) == \E k \in DOMAIN dict : dict[k] = n

RunType ==
  /\ script \in {"long_run_tests", "network_test"} /\ keep \in BOOLEAN
  /\ plan \in Plans /\ pc \in Nat \ {0} /\ cp \in 1..16
  /\ mode \in {"try", "clear", "over", "dead"} /\ result \in BOOLEAN
  /\ DOMAIN env = Dictionaries
  /\ \A r \in alive \cup lost : r = <<r[1], r[2]>> /\ ~LaterIn(plan, r[1])

NamesKept ==
  /\ \A k \in DOMAIN env["env"] :
       /\ k \in DOMAIN OwnName
       /\ \/ env["env"][k] = OwnName[k]
          \/ InFw /\ pc > 22 /\ <<k, env["env"][k]>> \in Replaced
  /\ \A k \in DOMAIN env["env_minor"] :
       Case = TwoVlans /\ k \in DOMAIN MinorName /\ env["env_minor"][k] = MinorName[k]

Trying ==
  /\ Case # Env1
  /\ NamesKept
  /\ \A r \in lost : ~Mine(r)
  /\ \A r \in alive : Mine(r) => Kept(env["env"], r[2]) \/ Kept(env["env_minor"], r[2]) \/ r[2] \in Unrecorded
  /\ pc > 2 => "subnet_id" \in DOMAIN env["env"]
  /\ pc > 3 => "router_id" \in DOMAIN env["env"]
  /\ Tag("iface") \in alive => pc > 5
  /\ InFw /\ pc > 28 => Tag("fwrule") \notin alive
  /\ InFw /\ pc > 29 => Tag("policy") \notin alive

Gateway == {"router_id", "subnet_id"} \subseteq DOMAIN env["env"]
DueIn(dict, n, from) == \E k \in DOMAIN dict \cap DOMAIN DeletedAt : dict[k] = n /\ DeletedAt[k] >= from
Due(n) ==
  \/ n \in Unrecorded \ {"iface"}
  \/ n = "iface" /\ Gateway /\ (todo = <<"env_minor", "env">> \/ cp <= 11)
  \/ todo = <<"env_minor", "env">> /\ (DueIn(env["env_minor"], n, cp) \/ DueIn(env["env"], n, 1))
  \/ todo = <<"env">> /\ DueIn(env["env"], n, cp)

Complete == /\ \A r \in lost : ~Mine(r)
            /\ InFw => Tag("fwrule") \notin alive /\ Tag("policy") \notin alive

Clearing ==
  /\ todo \in {<<"env_minor", "env">>, <<"env">>}
  /\ \A r \in Heard : Due(r[2])
  /\ result => Complete

Cleared ==
  /\ ~keep \/ result => \A r \in Heard : r[2] \in Unrecorded \ {"iface"}
  /\ result => Complete

CloudInv ==
  /\ RunType
  /\ mode = "try" => Trying
  /\ mode = "clear" /\ Case # Setup => Clearing
  /\ mode = "over" /\ Case # Setup => Cleared
  /\ at[1] # "setup" => Case = Setup /\ mode # "try"

\* a sequence of one element
LEMMA OneThing ==
  ASSUME NEW a, NEW p, p = <<a>>
  PROVE  Len(p) = 1 /\ Head(p) = a /\ p[1] = a
  OBVIOUS

\* the plans: the cases of run() in their order, each of them once
LEMMA PlanFacts ==
  ASSUME plan \in Plans
  PROVE  /\ Case \in Cases \cup {Setup, Env1}
         /\ ~LaterIn(plan, Case)
         /\ Len(plan) > 1 => /\ Tail(plan) \in Plans /\ Head(Tail(plan)) \in Cases
                             /\ LaterIn(plan, Head(Tail(plan)))
                             /\ \A c : LaterIn(Tail(plan), c) => LaterIn(plan, c)
<1> DEFINE c1 == "testcase_basic"
           c2 == "testcase_securitygroup"
           c3 == "testcase_fw"
           c4 == TwoVlans
           t  == Tail(plan)
           h  == Head(t)
<1>1. /\ c1 \in Cases /\ c2 \in Cases /\ c3 \in Cases /\ c4 \in Cases
      /\ c1 # c2 /\ c1 # c3 /\ c1 # c4 /\ c2 # c3 /\ c2 # c4 /\ c3 # c4
  BY DEF Cases, TwoVlans
<1>2. Case = Head(plan)
  BY DEF Case
<1>3. /\ <<c2, c3, c4>> \in Plans /\ <<c3, c4>> \in Plans /\ <<c4>> \in Plans
      /\ \/ plan = <<c1, c2, c3, c4>>
         \/ plan = <<c2, c3, c4>>
         \/ plan = <<c3, c4>>
         \/ plan \in {<<c4>>, <<Setup>>, <<Env1>>}
  BY DEF Plans
<1> HIDE DEF c1, c2, c3, c4
<1>4. CASE plan = <<c1, c2, c3, c4>>
  <2>1. Len(plan) = 4 /\ Case = c1 /\ t = <<c2, c3, c4>> /\ plan[1] = c1 /\ plan[2] = c2 /\ plan[3] = c3 /\ plan[4] = c4
    BY <1>2, <1>4
  <2>2. Len(t) = 3 /\ h = c2 /\ t[1] = c2 /\ t[2] = c3 /\ t[3] = c4
    BY <2>1
  <2> HIDE DEF t, h
  <2>3. \A y : LaterIn(plan, y) <=> y \in {c2, c3, c4}
    BY <2>1 DEF LaterIn
  <2>4. \A y : LaterIn(t, y) <=> y \in {c3, c4}
    BY <2>2 DEF LaterIn
  <2>5. /\ Case \in Cases /\ ~LaterIn(plan, Case) /\ t \in Plans /\ h \in Cases /\ LaterIn(plan, h)
        /\ \A y : LaterIn(t, y) => LaterIn(plan, y)
    BY <1>1, <1>3, <2>1, <2>2, <2>3, <2>4
  <2> QED
    BY <2>5, Zenon DEF t, h
<1>5. CASE plan = <<c2, c3, c4>>
  <2>1. Len(plan) = 3 /\ Case = c2 /\ t = <<c3, c4>> /\ plan[1] = c2 /\ plan[2] = c3 /\ plan[3] = c4
    BY <1>2, <1>5
  <2>2. Len(t) = 2 /\ h = c3 /\ t[1] = c3 /\ t[2] = c4
    BY <2>1
  <2> HIDE DEF t, h
  <2>3. \A y : LaterIn(plan, y) <=> y \in {c3, c4}
    BY <2>1 DEF LaterIn
  <2>4. \A y : LaterIn(t, y) <=> y \in {c4}
    BY <2>2 DEF LaterIn
  <2>5. /\ Case \in Cases /\ ~LaterIn(plan, Case) /\ t \in Plans /\ h \in Cases /\ LaterIn(plan, h)
        /\ \A y : LaterIn(t, y) => LaterIn(plan, y)
    BY <1>1, <1>3, <2>1, <2>2, <2>3, <2>4
  <2> QED
    BY <2>5, Zenon DEF t, h
<1>6. CASE plan = <<c3, c4>>
  <2>1. Len(plan) = 2 /\ Case = c3 /\ t = <<c4>> /\ plan[1] = c3 /\ plan[2] = c4
    BY <1>2, <1>6
  <2>2. Len(t) = 1 /\ h = c4 /\ t[1] = c4
    BY <2>1
  <2> HIDE DEF t, h
  <2>3. \A y : LaterIn(plan, y) <=> y \in {c4}
    BY <2>1 DEF LaterIn
  <2>4. \A y : LaterIn(t, y) <=> y \in {}
    BY <2>2 DEF LaterIn
  <2>5. /\ Case \in Cases /\ ~LaterIn(plan, Case) /\ t \in Plans /\ h \in Cases /\ LaterIn(plan, h)
        /\ \A y : LaterIn(t, y) => LaterIn(plan, y)
    BY <1>1, <1>3, <2>1, <2>2, <2>3, <2>4
  <2> QED
    BY <2>5, Zenon DEF t, h
<1>7. CASE plan \in {<<c4>>, <<Setup>>, <<Env1>>}
  <2>1. Len(plan) = 1 /\ Case \in {c4, Setup, Env1}
    BY <1>2, <1>7, OneThing
  <2> QED
    BY <1>1, <2>1 DEF LaterIn
<1> QED
  BY <1>3, <1>4, <1>5, <1>6, <1>7

\* what a request does to the resources that exist
LEMMA EffectIs ==
  ASSUME NEW o, NEW r, NEW held, Effect(o, r, held)
  PROVE  /\ o = "new" => alive' = alive \cup {r}
         /\ o = "drop" => alive' = alive \ Parts(r)
         /\ o \notin {"new", "drop"} => alive' = alive
  BY DEF Effect, cloud

\* what a step does to the dictionaries
LEMMA RecordIs ==
  ASSUME DOMAIN env = Dictionaries, step \in AnyStep, Record
  PROVE  /\ DOMAIN env' = Dictionaries
         /\ step.key = "none" => env' = env
         /\ \A d \in Dictionaries : d # step.at => env'[d] = env[d]
         /\ \A k : k # step.key => /\ k \in DOMAIN env'[step.at] <=> k \in DOMAIN env[step.at]
                                   /\ k \in DOMAIN env[step.at] => env'[step.at][k] = env[step.at][k]
         /\ step.key # "none" /\ step.op # "drop" => /\ step.key \in DOMAIN env'[step.at]
                                                     /\ env'[step.at][step.key] = step.name
         /\ step.key # "none" /\ step.op = "drop" => step.key \notin DOMAIN env'[step.at]
<1>1. step.at \in Dictionaries
  BY DEF AnyStep, Dictionaries
<1> DEFINE k1 == step.key
           d1 == step.at
           n1 == step.name
           f  == env[d1]
           g  == [k \in DOMAIN f \cup {k1} |-> IF k = k1 THEN n1 ELSE f[k]]
           h  == [k \in DOMAIN f \ {k1} |-> f[k]]
<1>2. CASE k1 = "none"
  BY <1>2 DEF Record
<1>3. CASE k1 # "none" /\ step.op = "drop"
  <2>1. env' = [env EXCEPT ![d1] = h]
    BY <1>3, Zenon DEF Record, Restrict
  <2>2. DOMAIN h = DOMAIN f \ {k1} /\ \A k \in DOMAIN f \ {k1} : h[k] = f[k]
    OBVIOUS
  <2> HIDE DEF h
  <2>3. DOMAIN env' = Dictionaries /\ env'[d1] = h /\ \A d \in Dictionaries : d # d1 => env'[d] = env[d]
    BY <1>1, <2>1
  <2> QED
    BY <1>3, <2>2, <2>3
<1>4. CASE k1 # "none" /\ step.op # "drop"
  <2>1. env' = [env EXCEPT ![d1] = g]
    BY <1>4, Zenon DEF Record
  <2>2. DOMAIN g = DOMAIN f \cup {k1} /\ \A k \in DOMAIN f \cup {k1} : g[k] = IF k = k1 THEN n1 ELSE f[k]
    OBVIOUS
  <2> HIDE DEF g
  <2>3. DOMAIN env' = Dictionaries /\ env'[d1] = g /\ \A d \in Dictionaries : d # d1 => env'[d] = env[d]
    BY <1>1, <2>1
  <2> QED
    BY <1>4, <2>2, <2>3
<1> QED
  BY <1>2, <1>3, <1>4

\* clear_env knows every key a case may record
LEMMA DeletedAtIs ==
  /\ DOMAIN OwnName \subseteq DOMAIN DeletedAt /\ DOMAIN MinorName \subseteq DOMAIN DeletedAt
  /\ \A k \in DOMAIN DeletedAt : DeletedAt[k] \in 1..16
  /\ DeletedAt["subnet_id"] = 13 /\ DeletedAt["router_id"] = 15
  BY DEF OwnName, MinorName, DeletedAt

\* everything that depends on the current case only
LEMMA SameCase ==
  ASSUME plan' = plan
  PROVE  /\ Case' = Case /\ InFw' = InFw /\ Unrecorded' = Unrecorded
         /\ \A r : Mine(r)' <=> Mine(r)
         /\ \A c : LaterIn(plan, c)' <=> LaterIn(plan, c)
         /\ \A n : Tag(n)' = Tag(n)
  BY DEF Case, InFw, Unrecorded, Mine, LaterIn, Tag

-----------------------------------------------------------------------------
(***************************************************************************)
(* clear_env: at first everything a case was told of is due; each of its   *)
(* steps deletes what is due in it, or ends the clearing.                  *)
(***************************************************************************)
LEMMA StartsClearing ==
  ASSUME RunType, Trying, NEW v \in BOOLEAN, StartClearing(v), env' = env,
         alive' \ lost' \subseteq alive \ lost,
         v => alive' = alive /\ lost' = lost /\ (InFw => pc > 29)
  PROVE  Clearing'
<1>1. plan' = plan /\ todo' = Dicts /\ cp' = 1 /\ result' = v
  BY DEF StartClearing
<1>2. /\ Case' = Case /\ InFw' = InFw /\ Unrecorded' = Unrecorded
      /\ (\A r : Mine(r)' <=> Mine(r)) /\ \A n : Tag(n)' = Tag(n)
  BY <1>1, SameCase
<1>3. todo' \in {<<"env_minor", "env">>, <<"env">>} /\ (Case = TwoVlans => todo' = <<"env_minor", "env">>)
  BY <1>1 DEF Dicts, TwoVlans
<1>4. ASSUME NEW r \in Heard' PROVE Due(r[2])'
  <2> DEFINE n == r[2]
  <2>1. r \in alive /\ Mine(r) /\ r = Tag(n)
    BY <1>2, <1>4 DEF Heard, RunType, Mine, Tag
  <2>2. Kept(env["env"], n) \/ Kept(env["env_minor"], n) \/ n \in Unrecorded
    BY <2>1 DEF Trying
  <2> HIDE DEF n
  <2>3. CASE Kept(env["env"], n)
    <3>1. PICK k \in DOMAIN env["env"] : env["env"][k] = n
      BY <2>3 DEF Kept
    <3>2. k \in DOMAIN OwnName
      BY DEF Trying, NamesKept
    <3>3. k \in DOMAIN DeletedAt /\ DeletedAt[k] >= 1
      BY <3>2, DeletedAtIs
    <3>4. DueIn(env'["env"], n, 1)
      BY <3>1, <3>3 DEF DueIn
    <3> QED
      BY <1>1, <1>3, <3>4 DEF Due, n
  <2>4. CASE Kept(env["env_minor"], n)
    <3>1. PICK k \in DOMAIN env["env_minor"] : env["env_minor"][k] = n
      BY <2>4 DEF Kept
    <3>2. k \in DOMAIN DeletedAt /\ DeletedAt[k] >= 1 /\ Case = TwoVlans
      BY DeletedAtIs DEF Trying, NamesKept
    <3>3. DueIn(env'["env_minor"], n, 1)
      BY <3>1, <3>2 DEF DueIn
    <3> QED
      BY <1>1, <1>3, <3>2, <3>3 DEF Due, n
  <2>5. CASE n \in Unrecorded /\ n # "iface"
    BY <1>2, <2>5 DEF Due, n
  <2>6. CASE n = "iface"
    <3>1. pc > 5
      BY <2>1, <2>6 DEF Trying
    <3>2. Gateway'
      BY <3>1 DEF Gateway, Trying, RunType
    <3> QED
      BY <1>1, <2>6, <3>2 DEF Due, n
  <2> QED
    BY <2>2, <2>3, <2>4, <2>5, <2>6
<1>5. ASSUME v PROVE Complete'
  <2>1. \A r \in lost' : ~Mine(r)'
    BY <1>2, <1>5 DEF Trying
  <2>2. InFw => Tag("fwrule") \notin alive' /\ Tag("policy") \notin alive'
    BY <1>5 DEF Trying, RunType
  <2> QED
    BY <1>2, <2>1, <2>2 DEF Complete
<1> QED
  BY <1>1, <1>3, <1>4, <1>5 DEF Clearing

\* the next step of clear_env
LEMMA NextIs ==
  ASSUME NextStep, cp \in 1..16
  PROVE  /\ plan' = plan /\ result' = result /\ pc' = pc
         /\ cp < 16 => cp' = cp + 1 /\ todo' = todo /\ mode' = mode
         /\ ~(cp < 16) => cp = 16 /\ cp' = 1 /\ todo' = Tail(todo) /\ mode' = IF Len(todo) = 1 THEN "over" ELSE mode
<1>1. Len(clear_env) = 16
  BY DEF clear_env
<1> QED
  BY <1>1 DEF NextStep

(***************************************************************************)
(* clear_env goes on: what has to be taken down at this place is gone.     *)
(***************************************************************************)
LEMMA GoesOnClearing ==
  ASSUME RunType, mode = "clear", Clearing, NextStep, lost' = lost, alive' \subseteq alive,
         DOMAIN env' = Dictionaries,
         \A d \in Dictionaries : d # Head(todo) => env'[d] = env[d],
         \A k \in DOMAIN env[Head(todo)] \cap DOMAIN DeletedAt :
            DeletedAt[k] > cp => k \in DOMAIN env'[Head(todo)] /\ env'[Head(todo)][k] = env[Head(todo)][k],
         \A k \in DOMAIN env[Head(todo)] \cap DOMAIN DeletedAt :
            DeletedAt[k] = cp => Tag(env[Head(todo)][k]) \notin alive',
         todo = <<"env">> /\ cp = 11 /\ Gateway => Tag("iface") \notin alive'
  PROVE  /\ cp' \in 1..16
         /\ \/ mode' = "clear" /\ Clearing'
            \/ mode' = "over" /\ Cleared'
<1>1. plan' = plan /\ result' = result
  BY NextIs DEF RunType
<1>2. /\ Case' = Case /\ InFw' = InFw /\ Unrecorded' = Unrecorded
      /\ (\A r : Mine(r)' <=> Mine(r)) /\ \A n : Tag(n)' = Tag(n)
  BY <1>1, SameCase
<1>4. cp \in Nat /\ cp \in 1..16
  BY DEF RunType
<1>5. result' => Complete'
  <2>1. result => Complete
    BY DEF Clearing
  <2> QED
    BY <1>1, <1>2, <2>1 DEF Complete
<1>6. ASSUME NEW r \in Heard' PROVE r \in Heard /\ r = Tag(r[2]) /\ r \in alive' /\ Due(r[2])
  BY <1>2, <1>6 DEF Heard, Clearing, RunType, Mine, Tag
<1>7. CASE todo = <<"env_minor", "env">>
  <2>1. Head(todo) = "env_minor" /\ Tail(todo) = <<"env">> /\ Len(todo) = 2 /\ env'["env"] = env["env"]
        /\ todo # <<"env">>
    <3>1. Head(todo) = "env_minor" /\ Tail(todo) = <<"env">> /\ Len(todo) = 2 /\ todo # <<"env">>
      BY <1>7
    <3> QED
      BY <3>1 DEF Dictionaries
  <2>2. Gateway' = Gateway
    BY <2>1 DEF Gateway
  <2>3. ASSUME NEW r \in Heard', DueIn(env["env_minor"], r[2], cp)
        PROVE  DueIn(env'["env_minor"], r[2], cp + 1)
    <3>1. PICK k \in DOMAIN env["env_minor"] \cap DOMAIN DeletedAt :
                 env["env_minor"][k] = r[2] /\ DeletedAt[k] >= cp
      BY <2>3 DEF DueIn
    <3>2. DeletedAt[k] # cp
      BY <1>6, <2>1, <3>1
    <3>3. DeletedAt[k] > cp /\ DeletedAt[k] >= cp + 1
      BY <1>4, <3>1, <3>2, DeletedAtIs
    <3> QED
      BY <2>1, <3>1, <3>3 DEF DueIn
  <2>4. CASE cp < 16
    <3>1. mode' = mode /\ cp' = cp + 1 /\ todo' = todo
      BY <1>4, <2>4, NextIs
    <3>2. ASSUME NEW r \in Heard' PROVE Due(r[2])'
      <4>1. CASE r[2] \in Unrecorded \ {"iface"}
        BY <1>2, <4>1 DEF Due
      <4>2. CASE r[2] = "iface" /\ Gateway
        BY <1>7, <2>2, <3>1, <4>2 DEF Due
      <4>3. CASE DueIn(env["env_minor"], r[2], cp)
        <5>1. DueIn(env'["env_minor"], r[2], cp')
          BY <2>3, <3>1, <4>3
        <5> QED
          BY <1>7, <3>1, <5>1 DEF Due
      <4>4. CASE DueIn(env["env"], r[2], 1)
        <5>1. DueIn(env'["env"], r[2], 1)
          BY <2>1, <4>4 DEF DueIn
        <5> QED
          BY <1>7, <3>1, <5>1 DEF Due
      <4> QED
        BY <1>6, <1>7, <2>1, <4>1, <4>2, <4>3, <4>4 DEF Due
    <3>3. cp' \in 1..16
      BY <2>4, <3>1 DEF RunType
    <3>4. Clearing'
      BY <1>5, <1>7, <3>1, <3>2 DEF Clearing
    <3> QED
      BY <3>1, <3>3, <3>4
  <2>5. CASE ~(cp < 16)
    <3>1. mode' = mode /\ cp' = 1 /\ todo' = <<"env">> /\ cp = 16
      <4>1. cp = 16 /\ cp' = 1 /\ todo' = Tail(todo) /\ mode' = IF Len(todo) = 1 THEN "over" ELSE mode
        BY <1>4, <2>5, NextIs, Zenon
      <4>2. Len(todo) # 1
        BY <2>1
      <4> QED
        BY <2>1, <4>1, <4>2, Zenon
    <3>2. ASSUME NEW r \in Heard' PROVE Due(r[2])'
      <4>1. CASE r[2] \in Unrecorded \ {"iface"}
        BY <1>2, <4>1 DEF Due
      <4>2. CASE r[2] = "iface" /\ Gateway
        BY <2>2, <3>1, <4>2 DEF Due
      <4>3. CASE DueIn(env["env_minor"], r[2], cp)
        <5>1. PICK k \in DOMAIN DeletedAt : DeletedAt[k] >= cp + 1
          BY <2>3, <4>3 DEF DueIn
        <5> QED
          BY <3>1, <5>1, DeletedAtIs
      <4>4. CASE DueIn(env["env"], r[2], 1)
        <5>1. DueIn(env'["env"], r[2], 1)
          BY <2>1, <4>4 DEF DueIn
        <5> QED
          BY <3>1, <5>1 DEF Due
      <4> QED
        BY <1>6, <1>7, <2>1, <4>1, <4>2, <4>3, <4>4 DEF Due
    <3>3. Clearing'
      BY <1>5, <3>1, <3>2 DEF Clearing
    <3> QED
      BY <3>1, <3>3
  <2> QED
    BY <2>4, <2>5
<1>8. CASE todo = <<"env">>
  <2>1. Head(todo) = "env" /\ Len(todo) = 1 /\ todo # <<"env_minor", "env">>
    BY <1>8
  <2>2. cp <= 11 /\ Gateway => Gateway'
    <3> SUFFICES ASSUME cp <= 11, Gateway PROVE Gateway'
      OBVIOUS
    <3>1. \A k \in {"router_id", "subnet_id"} :
            k \in DOMAIN env["env"] \cap DOMAIN DeletedAt /\ DeletedAt[k] > cp
      BY <1>4, DeletedAtIs DEF Gateway, OwnName
    <3> QED
      BY <2>1, <3>1 DEF Gateway
  <2>3. ASSUME NEW r \in Heard', DueIn(env["env"], r[2], cp)
        PROVE  DueIn(env'["env"], r[2], cp + 1)
    <3>1. PICK k \in DOMAIN env["env"] \cap DOMAIN DeletedAt :
                 env["env"][k] = r[2] /\ DeletedAt[k] >= cp
      BY <2>3 DEF DueIn
    <3>2. DeletedAt[k] # cp
      BY <1>6, <2>1, <3>1
    <3>3. DeletedAt[k] > cp /\ DeletedAt[k] >= cp + 1
      BY <1>4, <3>1, <3>2, DeletedAtIs
    <3> QED
      BY <2>1, <3>1, <3>3 DEF DueIn
  <2>4. CASE cp < 16
    <3>1. mode' = mode /\ cp' = cp + 1 /\ todo' = todo
      BY <1>4, <2>4, NextIs
    <3>2. ASSUME NEW r \in Heard' PROVE Due(r[2])'
      <4>1. CASE r[2] \in Unrecorded \ {"iface"}
        BY <1>2, <4>1 DEF Due
      <4>2. CASE r[2] = "iface" /\ Gateway /\ cp <= 11
        <5>1. cp # 11
          BY <1>6, <1>8, <4>2
        <5>2. cp' <= 11 /\ Gateway'
          BY <1>4, <2>2, <3>1, <4>2, <5>1
        <5> QED
          BY <4>2, <5>2 DEF Due
      <4>3. CASE DueIn(env["env"], r[2], cp)
        <5>1. DueIn(env'["env"], r[2], cp')
          BY <2>3, <3>1, <4>3
        <5> QED
          BY <1>8, <3>1, <5>1 DEF Due
      <4> QED
        BY <1>6, <1>8, <2>1, <4>1, <4>2, <4>3 DEF Due
    <3>3. cp' \in 1..16
      BY <2>4, <3>1 DEF RunType
    <3>4. Clearing'
      BY <1>5, <1>8, <3>1, <3>2 DEF Clearing
    <3> QED
      BY <3>1, <3>3, <3>4
  <2>5. CASE ~(cp < 16)
    <3>1. mode' = "over" /\ cp' = 1 /\ cp = 16
      BY <1>4, <2>1, <2>5, NextIs
    <3>2. ASSUME NEW r \in Heard' PROVE r[2] \in Unrecorded' \ {"iface"}
      <4>1. CASE r[2] \in Unrecorded \ {"iface"}
        BY <1>2, <4>1
      <4>2. CASE DueIn(env["env"], r[2], cp)
        <5>1. PICK k \in DOMAIN DeletedAt : DeletedAt[k] >= cp + 1
          BY <2>3, <4>2 DEF DueIn
        <5> QED
          BY <3>1, <5>1, DeletedAtIs
      <4> QED
        BY <1>6, <2>1, <3>1, <4>1, <4>2 DEF Due
    <3>3. Cleared'
      BY <1>5, <3>2 DEF Cleared
    <3> QED
      BY <3>1, <3>3
  <2> QED
    BY <2>4, <2>5
<1> QED
  BY <1>7, <1>8 DEF Clearing

\* clear_env, step by step
LEMMA ClearEnvPlaces ==
  /\ clear_env[2] = "instance_gone" /\ clear_env[4] = "remove_all_router"
  /\ clear_env[6] = "remove_rule" /\ clear_env[11] = "remove_internal_gw"
  /\ \A i \in 1..16 : i \notin {2, 4, 6, 11} => clear_env[i] \in DOMAIN DeletedAt /\ DeletedAt[clear_env[i]] = i
  /\ \A k \in DOMAIN DeletedAt : DeletedAt[k] \notin {2, 4, 6, 11} /\ clear_env[DeletedAt[k]] = k
  /\ \A i \in 1..16 : Swallowed(clear_env[i]) <=> i = 6
<1> DEFINE c == clear_env
<1>1. /\ c[1] = "instance_id" /\ c[2] = "instance_gone" /\ c[3] = "volume_id" /\ c[4] = "remove_all_router"
      /\ c[5] = "firewall_id" /\ c[6] = "remove_rule" /\ c[7] = "firewall_rule_id" /\ c[8] = "firewall_policy_id"
      /\ c[9] = "securitygroup_rule_id" /\ c[10] = "securitygroup_id" /\ c[11] = "remove_internal_gw"
      /\ c[12] = "subnet_gw_id" /\ c[13] = "subnet_id" /\ c[14] = "network_id" /\ c[15] = "router_id"
      /\ c[16] = "floatingip_id"
  BY DEF clear_env
<1> HIDE DEF c
<1>2. \A i \in 1..16 : i \notin {2, 4, 6, 11} => c[i] \in DOMAIN DeletedAt /\ DeletedAt[c[i]] = i
  BY <1>1 DEF DeletedAt
<1>3. \A k \in DOMAIN DeletedAt : DeletedAt[k] \notin {2, 4, 6, 11} /\ c[DeletedAt[k]] = k
  BY <1>1 DEF DeletedAt
<1>4. \A i \in 1..16 : c[i] = "remove_rule" <=> i = 6
  BY <1>1
<1> QED
  BY <1>1, <1>2, <1>3, <1>4, Zenon DEF c, Swallowed

\* the types survive a step that does what every step does
LEMMA RunTypeKept ==
  ASSUME RunType, script' = script, keep' = keep, plan' = plan, pc' \in {pc, pc + 1}, cp' \in 1..16,
         mode' \in {"try", "clear", "over", "dead"}, result' \in BOOLEAN, DOMAIN env' = Dictionaries,
         \A r \in alive' \cup lost' : r \in alive \cup lost \/ r = Tag(r[2])
  PROVE  RunType'
<1>1. ~LaterIn(plan, Case)
  BY PlanFacts DEF RunType
<1>2. ASSUME NEW r \in alive' \cup lost' PROVE r = <<r[1], r[2]>> /\ ~LaterIn(plan, r[1])
  <2>1. CASE r \in alive \cup lost
    BY <2>1 DEF RunType
  <2>2. CASE r = Tag(r[2])
    <3> DEFINE n == r[2]
    <3>1. r = <<Case, n>>
      BY <2>2 DEF Tag
    <3> HIDE DEF n
    <3>2. r[1] = Case /\ r[2] = n
      BY <3>1
    <3> QED
      BY <1>1, <3>1, <3>2
  <2> QED
    BY <1>2, <2>1, <2>2
<1>3. /\ script \in {"long_run_tests", "network_test"} /\ keep \in BOOLEAN /\ plan \in Plans
      /\ pc' \in Nat \ {0}
  BY DEF RunType
<1> QED
  BY <1>2, <1>3 DEF RunType

-----------------------------------------------------------------------------
(***************************************************************************)
(* Where an exception leads: every way out of a step keeps the invariant.  *)
(***************************************************************************)
\* the case ends without clearing
LEMMA Returns ==
  ASSUME CloudInv, keep, NEW v \in BOOLEAN, Return(v), v => Case = Setup, script' = script, keep' = keep,
         env' = env, at' = at, \A r \in alive' \cup lost' : r \in alive \cup lost \/ r = Tag(r[2])
  PROVE  CloudInv'
<1>1. plan' = plan /\ pc' = pc /\ cp' = cp /\ mode' = "over" /\ result' = v
  BY DEF Return
<1>2. RunType'
  BY <1>1, RunTypeKept DEF CloudInv, RunType
<1>3. Case' = Case /\ Setup' = Setup
  BY <1>1, SameCase
<1>4. Case # Setup => Cleared'
  BY <1>1 DEF Cleared
<1> QED
  BY <1>1, <1>2, <1>3, <1>4 DEF CloudInv

\* an exception nobody catches
LEMMA Dies ==
  ASSUME CloudInv, Die, script' = script, keep' = keep,
         env' = env, at' = at, \A r \in alive' \cup lost' : r \in alive \cup lost \/ r = Tag(r[2])
  PROVE  CloudInv'
<1>1. plan' = plan /\ pc' = pc /\ cp' = cp /\ mode' = "dead" /\ result' = result
  BY DEF Die
<1>2. RunType'
  BY <1>1, RunTypeKept DEF CloudInv, RunType
<1>3. Case' = Case
  BY <1>1, SameCase
<1> QED
  BY <1>1, <1>2, <1>3 DEF CloudInv

\* the case ends and clears
LEMMA Clears ==
  ASSUME CloudInv, mode = "try", NEW v \in BOOLEAN, StartClearing(v), script' = script, keep' = keep,
         env' = env, at' = at, \A r \in alive' \cup lost' : r \in alive \cup lost \/ r = Tag(r[2]),
         alive' \ lost' \subseteq alive \ lost,
         v => alive' = alive /\ lost' = lost /\ (InFw => pc > 29)
  PROVE  CloudInv'
<1>1. plan' = plan /\ pc' = pc /\ cp' = 1 /\ mode' = "clear" /\ result' = v
  BY DEF StartClearing
<1>2. RunType'
  BY <1>1, RunTypeKept DEF CloudInv, RunType
<1>3. Case' = Case
  BY <1>1, SameCase
<1>4. Clearing'
  BY StartsClearing DEF CloudInv
<1>5. at[1] = "setup"
  BY DEF CloudInv
<1> QED
  BY <1>1, <1>2, <1>3, <1>4, <1>5 DEF CloudInv

\* clear_env goes on
LEMMA ClearingGoesOn ==
  ASSUME CloudInv, mode = "clear", NextStep, script' = script, keep' = keep, at' = at,
         lost' = lost, alive' \subseteq alive, DOMAIN env' = Dictionaries,
         Case # Setup =>
           /\ \A d \in Dictionaries : d # Head(todo) => env'[d] = env[d]
           /\ \A k \in DOMAIN env[Head(todo)] \cap DOMAIN DeletedAt :
                /\ DeletedAt[k] > cp => k \in DOMAIN env'[Head(todo)] /\ env'[Head(todo)][k] = env[Head(todo)][k]
                /\ DeletedAt[k] = cp => Tag(env[Head(todo)][k]) \notin alive'
           /\ todo = <<"env">> /\ cp = 11 /\ Gateway => Tag("iface") \notin alive'
  PROVE  CloudInv'
<1>1. RunType /\ cp \in 1..16
  BY DEF CloudInv, RunType
<1>2. plan' = plan /\ pc' = pc /\ cp' \in 1..16 /\ mode' \in {"clear", "over"} /\ result' = result
  BY <1>1, NextIs
<1>3. RunType'
  BY <1>1, <1>2, RunTypeKept DEF RunType
<1>4. Case' = Case
  BY <1>2, SameCase
<1>5. Case # Setup => (mode' = "clear" /\ Clearing') \/ (mode' = "over" /\ Cleared')
  <2> SUFFICES ASSUME Case # Setup PROVE (mode' = "clear" /\ Clearing') \/ (mode' = "over" /\ Cleared')
    OBVIOUS
  <2>1. Clearing
    BY DEF CloudInv
  <2> QED
    BY <1>1, <2>1, GoesOnClearing
<1> QED
  BY <1>2, <1>3, <1>4, <1>5 DEF CloudInv

\* an exception, wherever the script is
LEMMA Raises ==
  ASSUME CloudInv, mode \in {"try", "clear"}, Raise, script' = script, keep' = keep, env' = env, at' = at,
         \A r \in alive' \cup lost' : r \in alive \cup lost \/ r = Tag(r[2]),
         alive' \ lost' \subseteq alive \ lost,
         mode = "clear" => lost' = lost /\ alive' \subseteq alive
  PROVE  CloudInv'
<1>1. RunType /\ cp \in 1..16
  BY DEF CloudInv, RunType
<1>2. CASE mode = "clear" /\ cp = 6
  <2>1. NextStep
    <3>1. Swallowed(clear_env[cp])
      BY <1>1, <1>2, ClearEnvPlaces, Zenon
    <3> QED
      BY <1>2, <3>1, Zenon DEF Raise
  <2>2. \A k \in DOMAIN DeletedAt : DeletedAt[k] # cp
    BY <1>2, ClearEnvPlaces
  <2>3. DOMAIN env' = Dictionaries /\ cp # 11
    BY <1>1, <1>2 DEF RunType
  <2>4. /\ \A d \in Dictionaries : d # Head(todo) => env'[d] = env[d]
        /\ \A k \in DOMAIN env[Head(todo)] \cap DOMAIN DeletedAt :
             /\ DeletedAt[k] > cp => k \in DOMAIN env'[Head(todo)] /\ env'[Head(todo)][k] = env[Head(todo)][k]
             /\ DeletedAt[k] = cp => Tag(env[Head(todo)][k]) \notin alive'
        /\ todo = <<"env">> /\ cp = 11 /\ Gateway => Tag("iface") \notin alive'
    BY <2>2, <2>3
  <2>5. lost' = lost /\ alive' \subseteq alive /\ mode = "clear"
    BY <1>2
  <2> QED
    BY <2>1, <2>3, <2>4, <2>5, ClearingGoesOn, Zenon
<1>3. CASE mode = "try"
  <2>1. (keep /\ Return(FALSE)) \/ StartClearing(FALSE)
    BY <1>3 DEF Raise
  <2> QED
    BY <1>3, <2>1, Returns, Clears
<1>4. CASE mode = "clear" /\ cp # 6
  <2>1. (keep /\ Return(FALSE)) \/ Die
    BY <1>1, <1>4, ClearEnvPlaces DEF Raise
  <2> QED
    BY <2>1, Returns, Dies
<1> QED
  BY <1>2, <1>3, <1>4

\* nothing of the invariant changes
LEMMA Stays ==
  ASSUME CloudInv, UNCHANGED <<script, keep, plan, pc, mode, todo, cp, result, env, alive, lost>>,
         at'[1] # "setup" => Case = Setup /\ mode # "try"
  PROVE  CloudInv'
<1>1. /\ Case' = Case /\ InFw' = InFw /\ Unrecorded' = Unrecorded
      /\ (\A r : Mine(r)' <=> Mine(r)) /\ \A n : Tag(n)' = Tag(n)
  BY SameCase
<1>2. RunType'
  BY DEF CloudInv, RunType
<1>3. mode = "try" => Trying'
  BY <1>1 DEF CloudInv, Trying, NamesKept, Kept
<1>4. mode = "clear" /\ Case # Setup => Clearing'
  <2>1. Heard' = Heard
    BY <1>1 DEF Heard
  <2>2. Complete' = Complete /\ Gateway' = Gateway
    BY <1>1 DEF Complete, Gateway
  <2>3. \A n : Due(n)' = Due(n)
    BY <1>1, <2>2 DEF Due
  <2> QED
    BY <2>1, <2>2, <2>3 DEF CloudInv, Clearing
<1>5. mode = "over" /\ Case # Setup => Cleared'
  <2>1. Heard' = Heard
    BY <1>1 DEF Heard
  <2>2. Complete' = Complete
    BY <1>1 DEF Complete
  <2> QED
    BY <1>1, <2>1, <2>2 DEF CloudInv, Cleared
<1> QED
  BY <1>1, <1>2, <1>3, <1>4, <1>5 DEF CloudInv

Remembered(n) == Kept(env["env"], n) \/ Kept(env["env_minor"], n) \/ n \in Unrecorded

-----------------------------------------------------------------------------
(***************************************************************************)
(* The steps of a case: what each kind of step does to the dictionaries    *)
(* and to the cloud, and that the invariant survives it.                   *)
(***************************************************************************)
LEMMA NextPlace ==
  ASSUME RunType, Trying, StepKind, pc' = pc + 1, plan' = plan, lost' = lost, NamesKept',
         "subnet_id" \in DOMAIN env["env"] \/ (Records("subnet_id") /\ step.at = "env") => "subnet_id" \in DOMAIN env'["env"],
         "router_id" \in DOMAIN env["env"] \/ (Records("router_id") /\ step.at = "env") => "router_id" \in DOMAIN env'["env"],
         \A r \in alive' : Mine(r) => Remembered(r[2])',
         Tag("iface") \in alive' => Tag("iface") \in alive \/ pc = 5,
         InFw /\ Tag("fwrule") \in alive' => Tag("fwrule") \in alive \/ pc < 28,
         InFw /\ Tag("policy") \in alive' => Tag("policy") \in alive \/ pc < 28,
         DropsOld /\ pc = 28 => Tag("fwrule") \notin alive',
         DropsOld /\ pc = 29 => Tag("policy") \notin alive'
  PROVE  Trying'
<1>1. /\ Case' = Case /\ InFw' = InFw /\ (\A r : Mine(r)' <=> Mine(r)) /\ \A n : Tag(n)' = Tag(n)
  BY SameCase
<1>2. pc \in Nat
  BY DEF RunType
<1>3. pc' > 2 => "subnet_id" \in DOMAIN env'["env"]
  BY <1>2 DEF Trying, StepKind
<1>4. pc' > 3 => "router_id" \in DOMAIN env'["env"]
  BY <1>2 DEF Trying, StepKind
<1>5. Tag("iface")' \in alive' => pc' > 5
  BY <1>1, <1>2 DEF Trying
<1>6. InFw' /\ pc' > 28 => Tag("fwrule")' \notin alive'
  BY <1>1, <1>2 DEF Trying, StepKind
<1>7. InFw' /\ pc' > 29 => Tag("policy")' \notin alive'
  BY <1>1, <1>2 DEF Trying, StepKind
<1>8. (\A r \in lost' : ~Mine(r)') /\ Case' # Env1' /\ \A r \in alive' : Mine(r)' => Remembered(r[2])'
  BY <1>1 DEF Trying, Env1
<1> QED
  BY <1>3, <1>4, <1>5, <1>6, <1>7, <1>8 DEF Trying, Remembered

\* names and tags are one to one
LEMMA TagIs == \A m, n : Tag(m) = Tag(n) <=> m = n
  BY DEF Tag

\* what a resource of the case looks like
LEMMA MineIs ==
  ASSUME RunType, NEW r \in alive, Mine(r)
  PROVE  r = Tag(r[2])
  BY DEF RunType, Mine, Tag

\* what the old entries are under an unchanged dictionary
LEMMA NamesGoOn ==
  ASSUME RunType, NamesKept, pc' = pc + 1, plan' = plan, env' = env
  PROVE  NamesKept'
  BY SameCase DEF NamesKept, RunType

\* a step that leaves dictionaries and cloud alone
LEMMA PlainStep ==
  ASSUME RunType, Trying, StepKind, Plain(step), pc' = pc + 1, plan' = plan, lost' = lost, env' = env, alive' = alive
  PROVE  Trying'
<1>1. ~DropsOld /\ ~Records("subnet_id") /\ ~Records("router_id")
  BY DEF Plain, DropsOld, Dropped, Records
<1>2. NamesKept'
  BY NamesGoOn DEF Trying
<1>3. \A r \in alive' : Mine(r) => Remembered(r[2])'
  BY SameCase DEF Trying, Remembered
<1> QED
  BY <1>1, <1>2, <1>3, NextPlace

\* a step whose id nobody keeps
LEMMA UntoldStep ==
  ASSUME RunType, Trying, StepKind, Untold, pc' = pc + 1, plan' = plan, lost' = lost, env' = env,
         alive' = alive \cup {Tag(step.name)}
  PROVE  Trying'
<1>1. ~DropsOld /\ ~Records("subnet_id") /\ ~Records("router_id")
  BY DEF Untold, DropsOld, Dropped, Records, OwnName, MinorName
<1>2. NamesKept'
  BY NamesGoOn DEF Trying
<1>3. Unrecorded' = Unrecorded /\ step.name \in Unrecorded
  <2>1. Unrecorded' = Unrecorded
    BY SameCase
  <2>2. "iface" \in Unrecorded /\ (Case = Setup => "sgrule_tcp" \in Unrecorded /\ "fwrule_tcp" \in Unrecorded)
    BY DEF Unrecorded, Setup
  <2> QED
    BY <2>1, <2>2 DEF Untold
<1>4. \A r \in alive' : Mine(r) => Remembered(r[2])'
  <2> TAKE r \in alive'
  <2>1. CASE r \in alive
    BY <1>3, <2>1 DEF Trying, Remembered
  <2>2. CASE r = Tag(step.name)
    <3>1. r[2] = step.name
      BY <2>2 DEF Tag
    <3> QED
      BY <1>3, <3>1 DEF Remembered
  <2> QED
    BY <2>1, <2>2
<1>5. (step.name = "iface" /\ pc = 5) \/ (step.name \in {"sgrule_tcp", "fwrule_tcp"} /\ ~InFw)
  BY DEF Untold, InFw, Setup
<1>6. \A n : Tag(n) \in alive' => Tag(n) \in alive \/ n = step.name
  BY TagIs
<1> QED
  BY <1>1, <1>2, <1>4, <1>5, <1>6, NextPlace

\* testcase_fw deletes the old rule or policy
LEMMA DropsOldStep ==
  ASSUME RunType, Trying, StepKind, DropsOld, pc' = pc + 1, plan' = plan, lost' = lost, env' = env,
         alive' = alive \ Parts(Tag(step.name))
  PROVE  Trying'
<1>1. ~Records("subnet_id") /\ ~Records("router_id")
  BY DEF DropsOld, Dropped, Records
<1>2. NamesKept'
  BY NamesGoOn DEF Trying
<1>3. \A r \in alive' : Mine(r) => Remembered(r[2])'
  BY SameCase DEF Trying, Remembered
<1>4. Tag(step.name) \notin alive'
  BY DEF Parts
<1>5. (pc = 28 => step.name = "fwrule") /\ (pc = 29 => step.name = "policy")
  BY DEF DropsOld, Dropped
<1> QED
  BY <1>1, <1>2, <1>3, <1>4, <1>5, NextPlace

\* a step that records what it creates
LEMMA RecordsStep ==
  ASSUME RunType, Trying, StepKind, NEW key \in Keys, Records(key), pc' = pc + 1, plan' = plan, lost' = lost,
         Record, alive' = alive \cup {Tag(step.name)}
  PROVE  Trying'
<1> DEFINE d == step.at
           n == step.name
<1>1. /\ step.key = key /\ step.op = "new" /\ (InFw => pc <= 21)
      /\ \/ d = "env" /\ key \in DOMAIN OwnName /\ n = OwnName[key]
         \/ d = "env_minor" /\ Case = TwoVlans /\ key \in DOMAIN MinorName /\ n = MinorName[key]
  BY DEF Records
<1>2. key # "none" /\ step.op # "drop"
  BY <1>1 DEF OwnName, MinorName
<1>3. d \in Dictionaries /\ n \notin {"iface", "fwrule_tcp"}
  BY <1>1 DEF Dictionaries, OwnName, MinorName
<1>4. DOMAIN env = Dictionaries /\ step \in AnyStep /\ pc \in Nat
  BY DEF RunType, StepKind
<1>5. /\ \A e \in Dictionaries : e # d => env'[e] = env[e]
      /\ \A k : k # key => /\ k \in DOMAIN env'[d] <=> k \in DOMAIN env[d]
                           /\ k \in DOMAIN env[d] => env'[d][k] = env[d][k]
      /\ key \in DOMAIN env'[d] /\ env'[d][key] = n
  BY <1>1, <1>2, <1>4, RecordIs
<1>6. NamesKept
  BY DEF Trying
<1> HIDE DEF d, n
<1>7. Case' = Case /\ InFw' = InFw /\ Unrecorded' = Unrecorded
  BY SameCase
<1>8. ASSUME NEW k \in DOMAIN env'["env"]
      PROVE  /\ k \in DOMAIN OwnName
             /\ \/ env'["env"][k] = OwnName[k]
                \/ InFw /\ pc' > 22 /\ <<k, env'["env"][k]>> \in Replaced
  <2>1. CASE d = "env" /\ k = key
    BY <1>1, <1>5, <2>1
  <2>2. CASE d # "env" \/ k # key
    <3>1. k \in DOMAIN env["env"] /\ env'["env"][k] = env["env"][k]
      BY <1>5, <1>8, <2>2 DEF Dictionaries
    <3> QED
      BY <1>4, <1>6, <3>1 DEF NamesKept
  <2> QED
    BY <2>1, <2>2
<1>9. ASSUME NEW k \in DOMAIN env'["env_minor"]
      PROVE  Case = TwoVlans /\ k \in DOMAIN MinorName /\ env'["env_minor"][k] = MinorName[k]
  <2>1. CASE d = "env_minor" /\ k = key
    BY <1>1, <1>5, <2>1
  <2>2. CASE d # "env_minor" \/ k # key
    <3>1. k \in DOMAIN env["env_minor"] /\ env'["env_minor"][k] = env["env_minor"][k]
      BY <1>5, <1>9, <2>2 DEF Dictionaries
    <3> QED
      BY <1>6, <3>1 DEF NamesKept
  <2> QED
    BY <2>1, <2>2
<1>10. NamesKept'
  BY <1>7, <1>8, <1>9 DEF NamesKept, TwoVlans, OwnName, MinorName, Replaced
<1>11. ASSUME NEW e \in Dictionaries, NEW m, Kept(env[e], m)
       PROVE  Kept(env'[e], m)
  <2>1. PICK k \in DOMAIN env[e] : env[e][k] = m
    BY <1>11 DEF Kept
  <2>2. CASE e = d /\ k = key
    <3>1. m = n
      <4>1. CASE d = "env"
        <5>1. env["env"][key] = OwnName[key]
          <6>1. key \in DOMAIN env["env"] /\ (InFw => pc <= 21)
            BY <1>1, <2>1, <2>2, <4>1
          <6>2. \A i \in DOMAIN env["env"] : env["env"][i] = OwnName[i] \/ (InFw /\ pc > 22)
            BY <1>6 DEF NamesKept
          <6> QED
            BY <1>4, <6>1, <6>2
        <5> QED
          BY <1>1, <2>1, <2>2, <4>1, <5>1
      <4>2. CASE d = "env_minor"
        <5>1. env["env_minor"][key] = MinorName[key]
          BY <1>1, <1>4, <1>6, <2>1, <2>2, <4>2 DEF NamesKept
        <5> QED
          BY <1>1, <2>1, <2>2, <4>2, <5>1
      <4> QED
        BY <1>3, <4>1, <4>2 DEF Dictionaries
    <3> QED
      BY <1>5, <2>2, <3>1 DEF Kept
  <2>3. CASE e # d \/ k # key
    BY <1>5, <2>1, <2>3 DEF Kept
  <2> QED
    BY <2>2, <2>3
<1>12. \A r \in alive' : Mine(r) => Remembered(r[2])'
  <2> TAKE r \in alive'
  <2> HAVE Mine(r)
  <2>1. CASE r \in alive
    BY <1>7, <1>11, <2>1 DEF Trying, Remembered, Dictionaries
  <2>2. CASE r = Tag(n)
    <3>1. r[2] = n /\ Kept(env'[d], n)
      BY <1>5, <2>2 DEF Tag, Kept
    <3> QED
      BY <1>3, <3>1 DEF Remembered, Dictionaries
  <2> QED
    BY <2>1, <2>2 DEF n
<1>13. \A m : Tag(m) \in alive' => Tag(m) \in alive \/ m = n
  BY TagIs DEF n
<1>14. \A k : k \in DOMAIN env["env"] \/ (k = key /\ d = "env") => k \in DOMAIN env'["env"]
  BY <1>3, <1>5 DEF Dictionaries
<1>15. /\ "subnet_id" \in DOMAIN env["env"] \/ (Records("subnet_id") /\ step.at = "env") => "subnet_id" \in DOMAIN env'["env"]
       /\ "router_id" \in DOMAIN env["env"] \/ (Records("router_id") /\ step.at = "env") => "router_id" \in DOMAIN env'["env"]
  <2>1. \A k : Records(k) => k = key
    BY <1>1 DEF Records
  <2> QED
    BY <1>14, <2>1 DEF d
<1>16. ~DropsOld
  BY <1>1 DEF DropsOld, Dropped
<1>17. InFw => pc < 28
  BY <1>1, <1>4
<1> QED
  BY <1>3, <1>10, <1>12, <1>13, <1>15, <1>16, <1>17, NextPlace

\* testcase_fw puts the new rule or policy in the place of the old one
LEMMA RenewsStep ==
  ASSUME RunType, Trying, StepKind, Renews, pc' = pc + 1, plan' = plan, lost' = lost,
         Record, alive' = alive \cup {Tag(step.name)}
  PROVE  Trying'
<1> DEFINE n   == step.name
           key == step.key
<1>1. /\ InFw /\ pc \in {23, 24} /\ step.at = "env" /\ step.op = "new" /\ <<key, n>> \in Replaced
  BY DEF Renews, Renewed
<1>2. key \in {"firewall_rule_id", "firewall_policy_id"} /\ n \in {"fwrule_new", "policy_new"} /\ key \in DOMAIN OwnName
  BY <1>1 DEF Replaced, OwnName
<1>3. DOMAIN env = Dictionaries /\ step \in AnyStep
  BY DEF RunType, StepKind
<1>4. /\ env'["env_minor"] = env["env_minor"]
      /\ \A k : k # key => /\ k \in DOMAIN env'["env"] <=> k \in DOMAIN env["env"]
                           /\ k \in DOMAIN env["env"] => env'["env"][k] = env["env"][k]
      /\ key \in DOMAIN env'["env"] /\ env'["env"][key] = n
  BY <1>1, <1>2, <1>3, RecordIs DEF Dictionaries
<1>5. NamesKept
  BY DEF Trying
<1> HIDE DEF n, key
<1>6. Case' = Case /\ InFw' = InFw /\ Unrecorded' = Unrecorded
  BY SameCase
<1>7. NamesKept'
  <2>1. ASSUME NEW k \in DOMAIN env'["env"]
        PROVE  /\ k \in DOMAIN OwnName
               /\ \/ env'["env"][k] = OwnName[k]
                  \/ InFw /\ pc' > 22 /\ <<k, env'["env"][k]>> \in Replaced
    <3>1. CASE k = key
      BY <1>1, <1>2, <1>4, <3>1
    <3>2. CASE k # key
      BY <1>1, <1>4, <1>5, <2>1, <3>2 DEF NamesKept
    <3> QED
      BY <3>1, <3>2
  <2>2. ASSUME NEW k \in DOMAIN env'["env_minor"]
        PROVE  Case = TwoVlans /\ k \in DOMAIN MinorName /\ env'["env_minor"][k] = MinorName[k]
    BY <1>4, <1>5, <2>2 DEF NamesKept
  <2> QED
    BY <1>6, <2>1, <2>2 DEF NamesKept, TwoVlans, OwnName, MinorName, Replaced
<1>8. ASSUME NEW m, Kept(env["env"], m)
      PROVE  Kept(env'["env"], m) \/ m \in Unrecorded
  <2>1. PICK k \in DOMAIN env["env"] : env["env"][k] = m
    BY <1>8 DEF Kept
  <2>2. CASE k = key
    <3>1. m = OwnName[key] \/ <<key, m>> \in Replaced
      BY <1>5, <2>1, <2>2 DEF NamesKept
    <3>2. CASE m = OwnName[key]
      <4>1. m \in {"fwrule", "policy"}
        BY <1>2, <3>2 DEF OwnName
      <4> QED
        BY <1>1, <4>1 DEF Unrecorded, InFw
    <3>3. CASE <<key, m>> \in Replaced
      <4>1. m = n
        BY <1>1, <3>3 DEF Replaced
      <4> QED
        BY <1>4, <4>1 DEF Kept
    <3> QED
      BY <3>1, <3>2, <3>3
  <2>3. CASE k # key
    BY <1>4, <2>1, <2>3 DEF Kept
  <2> QED
    BY <2>2, <2>3
<1>9. \A r \in alive' : Mine(r) => Remembered(r[2])'
  <2> TAKE r \in alive'
  <2> HAVE Mine(r)
  <2>1. CASE r \in alive
    BY <1>4, <1>6, <1>8, <2>1 DEF Trying, Remembered
  <2>2. CASE r = Tag(n)
    <3>1. r[2] = n /\ Kept(env'["env"], n)
      BY <1>4, <2>2 DEF Tag, Kept
    <3> QED
      BY <3>1 DEF Remembered
  <2> QED
    BY <2>1, <2>2 DEF n
<1>10. \A m : Tag(m) \in alive' => Tag(m) \in alive \/ m = n
  BY TagIs DEF n
<1>11. \A k : k \in DOMAIN env["env"] => k \in DOMAIN env'["env"]
  BY <1>4
<1>12. ~Records("subnet_id") /\ ~Records("router_id") /\ ~DropsOld
  BY <1>1 DEF Records, DropsOld
<1> QED
  BY <1>1, <1>2, <1>7, <1>9, <1>10, <1>11, <1>12, NextPlace

\* testcase_securitygroup deletes the rule and forgets it
LEMMA DropsRuleStep ==
  ASSUME RunType, Trying, StepKind, DropsRule, pc' = pc + 1, plan' = plan, lost' = lost,
         Record, alive' = alive \ Parts(Tag(step.name))
  PROVE  Trying'
<1> DEFINE key == "securitygroup_rule_id"
<1>1. /\ Case = "testcase_securitygroup" /\ step.op = "drop" /\ step.at = "env"
      /\ step.name = "sgrule" /\ step.key = key
  BY DEF DropsRule
<1>2. DOMAIN env = Dictionaries /\ step \in AnyStep
  BY DEF RunType, StepKind
<1>3. /\ env'["env_minor"] = env["env_minor"] /\ key \notin DOMAIN env'["env"]
      /\ \A k : k # key => /\ k \in DOMAIN env'["env"] <=> k \in DOMAIN env["env"]
                           /\ k \in DOMAIN env["env"] => env'["env"][k] = env["env"][k]
  BY <1>1, <1>2, RecordIs DEF Dictionaries
<1>4. NamesKept /\ ~InFw
  BY <1>1 DEF Trying, InFw
<1> HIDE DEF key
<1>5. Case' = Case /\ InFw' = InFw /\ Unrecorded' = Unrecorded
  BY SameCase
<1>6. NamesKept'
  BY <1>3, <1>4, <1>5 DEF NamesKept
<1>7. alive' \subseteq alive /\ Tag("sgrule") \notin alive'
  BY <1>1 DEF Parts, Tag
<1>8. \A r \in alive' : Mine(r) => Remembered(r[2])'
  <2> TAKE r \in alive'
  <2> HAVE Mine(r)
  <2>1. r \in alive /\ r[2] # "sgrule"
    BY <1>7, MineIs
  <2>2. CASE Kept(env["env"], r[2])
    <3>1. PICK k \in DOMAIN env["env"] : env["env"][k] = r[2]
      BY <2>2 DEF Kept
    <3>2. k # key
      BY <1>4, <2>1, <3>1 DEF NamesKept, OwnName, key
    <3> QED
      BY <1>3, <3>1, <3>2 DEF Kept, Remembered
  <2> QED
    BY <1>3, <1>5, <2>1, <2>2 DEF Trying, Remembered
<1>9. "subnet_id" # key /\ "router_id" # key
  BY DEF key
<1>10. ~Records("subnet_id") /\ ~Records("router_id") /\ ~DropsOld
  BY <1>1, <1>4 DEF Records, DropsOld
<1> QED
  BY <1>3, <1>4, <1>6, <1>7, <1>8, <1>9, <1>10, NextPlace

-----------------------------------------------------------------------------
(***************************************************************************)
(* The actions of CloudRun.                                                *)
(***************************************************************************)
StepTaken == /\ Effect(step.op, Tag(step.name), {Tag(n) : n \in step.uses})
             /\ Record

\* the kind of the current step
LEMMA KindInTry ==
  ASSUME CloudInv, mode = "try", pc <= Len(Steps)
  PROVE  StepKind /\ (step.op \notin {"new", "drop"} => Plain(step))
<1>1. RunType /\ Trying
  BY DEF CloudInv
<1>2. Case \in Cases \cup {Setup}
  BY <1>1, PlanFacts DEF RunType, Trying
<1>3. StepKind
  BY <1>1, <1>2, StepKinds DEF RunType
<1> QED
  BY <1>3 DEF StepKind, Records, Renews, Renewed, Untold, DropsRule, DropsOld, Dropped

\* a step is done and the next one comes
LEMMA CaseAdvances ==
  ASSUME CloudInv, mode = "try", pc <= Len(Steps), Advance,
         StepTaken \/ (Plain(step) /\ UNCHANGED <<env, alive>>),
         UNCHANGED <<script, keep, lost, at>>
  PROVE  CloudInv'
<1>1. RunType /\ Trying /\ at[1] = "setup"
  BY DEF CloudInv
<1>2. plan' = plan /\ pc' = pc + 1 /\ mode' = "try" /\ cp' = cp /\ result' = result /\ lost' = lost
  BY DEF Advance
<1>3. StepKind
  BY KindInTry
<1>4. step \in AnyStep /\ DOMAIN env = Dictionaries
  BY <1>1, <1>3 DEF StepKind, RunType
<1>5. StepTaken => /\ step.op = "new" => alive' = alive \cup {Tag(step.name)}
                   /\ step.op = "drop" => alive' = alive \ Parts(Tag(step.name))
                   /\ step.op \notin {"new", "drop"} => alive' = alive
                   /\ DOMAIN env' = Dictionaries /\ Record
                   /\ step.key = "none" => env' = env
  <2>1. ASSUME StepTaken PROVE /\ step.op = "new" => alive' = alive \cup {Tag(step.name)}
                               /\ step.op = "drop" => alive' = alive \ Parts(Tag(step.name))
                               /\ step.op \notin {"new", "drop"} => alive' = alive
    BY <2>1, EffectIs DEF StepTaken
  <2> QED
    BY <1>4, <2>1, RecordIs DEF StepTaken
<1>6. ASSUME StepTaken /\ \E key \in Keys : Records(key) PROVE Trying'
  <2>1. step.op = "new"
    BY <1>6 DEF Records
  <2> QED
    BY <1>1, <1>2, <1>3, <1>5, <1>6, <2>1, RecordsStep
<1>7. ASSUME StepTaken /\ Renews PROVE Trying'
  <2>1. step.op = "new"
    BY <1>7 DEF Renews, Renewed
  <2> QED
    BY <1>1, <1>2, <1>3, <1>5, <1>7, <2>1, RenewsStep
<1>8. ASSUME StepTaken /\ Untold PROVE Trying'
  <2>1. step.op = "new" /\ step.key = "none"
    BY <1>8 DEF Untold
  <2> QED
    BY <1>1, <1>2, <1>3, <1>5, <1>8, <2>1, UntoldStep
<1>9. ASSUME StepTaken /\ DropsRule PROVE Trying'
  <2>1. step.op = "drop"
    BY <1>9 DEF DropsRule
  <2> QED
    BY <1>1, <1>2, <1>3, <1>5, <1>9, <2>1, DropsRuleStep
<1>10. ASSUME StepTaken /\ DropsOld PROVE Trying'
  <2>1. step.op = "drop" /\ step.key = "none"
    BY <1>10 DEF DropsOld, Dropped
  <2> QED
    BY <1>1, <1>2, <1>3, <1>5, <1>10, <2>1, DropsOldStep
<1>11. ASSUME Plain(step) PROVE Trying'
  <2>1. alive' = alive /\ env' = env
    BY <1>5, <1>11 DEF Plain
  <2> QED
    BY <1>1, <1>2, <1>3, <1>11, <2>1, PlainStep
<1>12. Trying'
  BY <1>3, <1>6, <1>7, <1>8, <1>9, <1>10, <1>11 DEF StepKind
<1>13. \A r \in alive' \cup lost' : r \in alive \cup lost \/ r = Tag(r[2])
  <2>1. alive' \subseteq alive \cup {Tag(step.name)}
    BY <1>5
  <2>2. Tag(step.name)[2] = step.name
    BY DEF Tag
  <2> QED
    BY <1>2, <2>1, <2>2
<1>14. RunType'
  <2>1. DOMAIN env' = Dictionaries
    BY <1>4, <1>5
  <2> QED
    BY <1>1, <1>2, <1>13, <2>1, RunTypeKept DEF RunType
<1> QED
  BY <1>1, <1>2, <1>12, <1>14 DEF CloudInv

\* _get_Token
LEMMA TokenAsked ==
  ASSUME CloudInv, _get_Token, at' = at
  PROVE  CloudInv'
<1>1. mode \in {"try", "clear"} /\ UNCHANGED <<script, keep, env, alive, lost>>
  BY DEF _get_Token, Requesting, cloud
<1>2. CASE UNCHANGED control
  BY <1>1, <1>2, Stays DEF control, CloudInv
<1>3. CASE Raise
  <2>1. (\A r \in alive' \cup lost' : r \in alive \cup lost) /\ alive' \ lost' \subseteq alive \ lost /\ alive' \subseteq alive
    BY <1>1
  <2> QED
    BY <1>1, <1>3, <2>1, Raises
<1> QED
  BY <1>2, <1>3 DEF _get_Token

\* send_http_request
LEMMA RequestSent ==
  ASSUME CloudInv, send_http_request, at' = at
  PROVE  CloudInv'
<1> DEFINE r == Tag(step.name)
           held == {Tag(n) : n \in step.uses}
<1>1. mode = "try" /\ pc <= Len(Steps) /\ UNCHANGED <<script, keep>> /\ step.op \notin Waits \cup Pings
  BY DEF send_http_request
<1>2. CASE Effect(step.op, r, held) /\ Record /\ Advance /\ lost' = lost
  BY <1>1, <1>2, CaseAdvances DEF StepTaken
<1>3. CASE Raise /\ UNCHANGED <<env, cloud, lost>>
  <2>1. alive' = alive /\ lost' = lost /\ env' = env
    BY <1>3 DEF cloud
  <2> QED
    BY <1>1, <1>3, <2>1, Raises
<1>4. CASE /\ Effect(step.op, r, held) /\ Raise /\ UNCHANGED env
           /\ lost' = IF step.op = "new" THEN lost \cup {r} ELSE lost
  <2>1. /\ step.op = "new" => alive' = alive \cup {r}
        /\ step.op = "drop" => alive' = alive \ Parts(r)
        /\ step.op \notin {"new", "drop"} => alive' = alive
    BY <1>4, EffectIs
  <2>2. r = Tag(r[2])
    BY DEF Tag
  <2> HIDE DEF r
  <2>3. /\ \A y \in alive' \cup lost' : y \in alive \cup lost \/ y = Tag(y[2])
        /\ alive' \ lost' \subseteq alive \ lost
    BY <1>4, <2>1, <2>2
  <2> QED
    BY <1>1, <1>4, <2>3, Raises
<1> QED
  BY <1>2, <1>3, <1>4 DEF send_http_request

\* a poll that has to be repeated
LEMMA Polls ==
  ASSUME CloudInv, NEW o, PollAgain(o), mode \in {"try", "clear"}, UNCHANGED <<script, keep, env, alive, lost, at>>
  PROVE  CloudInv'
<1>1. CASE Raise
  BY <1>1, Raises
<1>2. CASE UNCHANGED <<plan, pc, mode, todo, cp, result>>
  BY <1>2, Stays DEF CloudInv
<1> QED
  BY <1>1, <1>2 DEF PollAgain, control

\* a poll of a case
LEMMA PollOfCase ==
  ASSUME CloudInv, Poll, at' = at
  PROVE  CloudInv'
<1>1. mode = "try" /\ pc <= Len(Steps) /\ step.op \in Waits /\ UNCHANGED <<script, keep, alive, lost>>
  BY DEF Poll, Waiting, Gone, PollOf, cloud
<1>2. CASE Advance /\ UNCHANGED env
  <2>1. Plain(step)
    BY <1>1, KindInTry DEF Waits
  <2> QED
    BY <1>1, <1>2, <2>1, CaseAdvances
<1>3. CASE Raise /\ UNCHANGED env
  BY <1>1, <1>3, Raises
<1>4. CASE PollAgain(step.op) /\ UNCHANGED env
  BY <1>1, <1>4, Polls
<1> QED
  BY <1>2, <1>3, <1>4 DEF Poll, PollOf

\* cmd_ping
LEMMA Pinged ==
  ASSUME CloudInv, cmd_ping_step, at' = at
  PROVE  CloudInv'
<1>1. mode = "try" /\ pc <= Len(Steps) /\ step.op \in Pings /\ UNCHANGED <<script, keep, env, alive, lost>>
  BY DEF cmd_ping_step, cloud
<1>2. CASE Advance
  <2>1. Plain(step)
    BY <1>1, KindInTry DEF Pings
  <2> QED
    BY <1>1, <1>2, <2>1, CaseAdvances
<1>3. CASE Die
  BY <1>1, <1>3, Dies
<1>4. CASE keep /\ Return(FALSE)
  BY <1>1, <1>4, Returns
<1>5. CASE StartClearing(FALSE)
  BY <1>1, <1>5, Clears
<1> QED
  BY <1>2, <1>3, <1>4, <1>5 DEF cmd_ping_step

\* the end of the try block
LEMMA AllStepsDone ==
  ASSUME CloudInv, StepsDone, at' = at
  PROVE  CloudInv'
<1>1. mode = "try" /\ pc > Len(Steps) /\ UNCHANGED <<script, keep, env, alive, lost>>
  BY DEF StepsDone, cloud
<1>2. CASE Case # Setup
  <2>1. StartClearing(TRUE)
    BY <1>2 DEF StepsDone
  <2>2. InFw => pc > 29
    <3>1. InFw => Len(Steps) = 31
      <4>1. Len(testcase_fw) = 31
        BY FwSteps, Zenon
      <4> QED
        BY <4>1, StepsAre, Zenon
    <3>2. pc \in Nat /\ pc > Len(Steps)
      BY <1>1 DEF CloudInv, RunType
    <3> SUFFICES ASSUME InFw PROVE pc > 29
      OBVIOUS
    <3>3. Len(Steps) = 31
      BY <3>1
    <3> QED
      BY <3>2, <3>3
  <2> QED
    BY <1>1, <2>1, <2>2, Clears, Zenon
<1>3. CASE Case = Setup
  <2>1. Return(TRUE)
    BY <1>3 DEF StepsDone
  <2>2. plan' = plan /\ pc' = pc /\ cp' = cp /\ mode' = "over" /\ result' = TRUE
    BY <2>1 DEF Return
  <2>3. RunType'
    BY <1>1, <2>2, RunTypeKept DEF CloudInv, RunType
  <2>4. Case' = Setup /\ at[1] = "setup"
    BY <1>1, <1>3, <2>2, SameCase DEF CloudInv
  <2> QED
    BY <2>2, <2>3, <2>4 DEF CloudInv, Setup
<1> QED
  BY <1>2, <1>3

\* run() goes on to the next case: nothing there is of that case yet
LEMMA NextCase ==
  ASSUME CloudInv, run, at' = at
  PROVE  CloudInv'
<1>1. /\ mode = "over" /\ Len(plan) > 1 /\ plan' = Tail(plan) /\ pc' = 1 /\ mode' = "try" /\ cp' = 1
      /\ result' = FALSE /\ env' = Empty /\ UNCHANGED <<script, keep, alive, lost>>
  BY DEF run, GoesOn, cloud
<1>2. /\ plan' \in Plans /\ Head(plan') \in Cases /\ LaterIn(plan, Head(plan'))
      /\ \A c : LaterIn(plan', c) => LaterIn(plan, c)
  BY <1>1, PlanFacts DEF CloudInv, RunType
<1>3. Case \notin {Setup}
  BY <1>1, OneThing DEF CloudInv, RunType, Plans, Case, TwoVlans, Setup, Env1
<1>4. DOMAIN env' = Dictionaries /\ DOMAIN env'["env"] = {} /\ DOMAIN env'["env_minor"] = {}
  BY <1>1 DEF Empty, Dictionaries
<1>5. Case' = Head(plan') /\ \A r : Mine(r)' <=> r[1] = Head(plan')
  BY DEF Case, Mine
<1>6. \A r \in alive \cup lost : r = <<r[1], r[2]>> /\ ~LaterIn(plan, r[1])
  BY DEF CloudInv, RunType
<1>7. \A r \in alive' \cup lost' : ~Mine(r)'
  BY <1>1, <1>2, <1>5, <1>6
<1>8. RunType'
  <2>1. \A r \in alive' \cup lost' : r = <<r[1], r[2]>> /\ ~LaterIn(plan', r[1])
    BY <1>1, <1>2, <1>6
  <2> QED
    <3>1. /\ script \in {"long_run_tests", "network_test"} /\ keep \in BOOLEAN
      BY DEF CloudInv, RunType
    <3>2. /\ plan' \in Plans /\ pc' \in Nat \ {0} /\ cp' \in 1..16 /\ mode' = "try" /\ result' = FALSE
          /\ DOMAIN env' = Dictionaries
      <4>1. pc' = 1 /\ cp' = 1 /\ mode' = "try" /\ result' = FALSE
        BY <1>1
      <4>2. plan' \in Plans /\ DOMAIN env' = Dictionaries
        BY <1>2, <1>4
      <4> QED
        BY <4>1, <4>2
    <3>3. script' = script /\ keep' = keep
      BY <1>1
    <3> QED
      BY <2>1, <3>1, <3>2, <3>3 DEF RunType
<1>9. Trying'
  <2>1. Case' # Env1
    BY <1>2, <1>5 DEF Cases, Env1
  <2>2. Tag("iface")' \notin alive' /\ Tag("fwrule")' \notin alive' /\ Tag("policy")' \notin alive'
    <3>1. \A n : Mine(Tag(n))'
      BY DEF Mine, Tag
    <3>2. \A r : r \in alive' => ~Mine(r)'
      BY <1>7
    <3>3. \A n : Tag(n)' \notin alive'
      BY <3>1, <3>2 DEF Mine, Tag
    <3> QED
      BY <3>3, Zenon
  <2>3. NamesKept'
    BY <1>4 DEF NamesKept
  <2> QED
    BY <1>1, <1>7, <2>1, <2>2, <2>3 DEF Trying, Env1
<1>10. at[1] = "setup"
  BY <1>3 DEF CloudInv
<1> QED
  BY <1>1, <1>8, <1>9, <1>10 DEF CloudInv

\* the token expires, or a resource gets ready
LEMMA NothingMoves ==
  ASSUME CloudInv, TokenExpires \/ Settles, at' = at
  PROVE  CloudInv'
<1>1. UNCHANGED <<script, keep, plan, pc, mode, todo, cp, result, env, alive, lost>>
  BY DEF TokenExpires, Settles, control, cloud
<1> QED
  BY <1>1, Stays DEF CloudInv

\* clear_env forgets one key
LEMMA ForgetIs ==
  ASSUME CloudInv, mode = "clear", NEW key, Forget(key)
  PROVE  /\ DOMAIN env' = Dictionaries
         /\ Case # Setup => /\ Head(todo) \in Dictionaries
                            /\ \A d \in Dictionaries : d # Head(todo) => env'[d] = env[d]
                            /\ \A k \in DOMAIN env[Head(todo)] : k # key =>
                                 k \in DOMAIN env'[Head(todo)] /\ env'[Head(todo)][k] = env[Head(todo)][k]
<1> DEFINE h == Head(todo)
           f == env[h]
           g == Restrict(f, DOMAIN f \ {key})
<1>1. env' = [env EXCEPT ![h] = g]
  BY Zenon DEF Forget
<1>2. \A k \in DOMAIN f : k # key => k \in DOMAIN g /\ g[k] = f[k]
  BY DEF Restrict
<1>3. DOMAIN env = Dictionaries
  BY DEF CloudInv, RunType
<1> HIDE DEF g
<1>4. DOMAIN env' = Dictionaries
  BY <1>1, <1>3
<1>5. Case # Setup => h \in Dictionaries
  <2>1. Case # Setup => todo \in {<<"env_minor", "env">>, <<"env">>}
    BY DEF CloudInv, Clearing
  <2> QED
    BY <2>1 DEF Dictionaries
<1> HIDE DEF h
<1>6. Case # Setup => /\ env'[h] = g
                      /\ \A d \in Dictionaries : d # h => env'[d] = env[d]
  BY <1>1, <1>3, <1>5
<1> QED
  BY <1>2, <1>4, <1>5, <1>6 DEF h

\* clear_env has seen the machine vanish
LEMMA MachineGone ==
  ASSUME CloudInv, instance_wait_None, at' = at
  PROVE  CloudInv'
<1>1. /\ mode = "clear" /\ todo # <<>> /\ clear_env[cp] = "instance_gone"
      /\ UNCHANGED <<script, keep, alive, lost>>
  BY DEF instance_wait_None, Gone, PollOf, cloud
<1>2. cp = 2
  <2>1. cp \in 1..16
    BY DEF CloudInv, RunType
  <2>2. "instance_gone" \notin DOMAIN DeletedAt /\ "instance_gone" \notin {"remove_all_router", "remove_rule", "remove_internal_gw"}
    BY DEF DeletedAt
  <2> QED
    BY <1>1, <2>1, <2>2, ClearEnvPlaces
<1>3. CASE NextStep /\ Forget("instance_id")
  <2> DEFINE h == Head(todo)
  <2>1. /\ DOMAIN env' = Dictionaries
        /\ Case # Setup => /\ \A d \in Dictionaries : d # h => env'[d] = env[d]
                           /\ \A k \in DOMAIN env[h] : k # "instance_id" =>
                                k \in DOMAIN env'[h] /\ env'[h][k] = env[h][k]
    BY <1>1, <1>3, ForgetIs
  <2> HIDE DEF h
  <2>2. \A k \in DOMAIN DeletedAt : DeletedAt[k] # cp /\ (DeletedAt[k] > cp => k # "instance_id")
    BY <1>2, ClearEnvPlaces DEF DeletedAt
  <2>3. Case # Setup =>
          /\ \A d \in Dictionaries : d # h => env'[d] = env[d]
          /\ \A k \in DOMAIN env[h] \cap DOMAIN DeletedAt :
               /\ DeletedAt[k] > cp => k \in DOMAIN env'[h] /\ env'[h][k] = env[h][k]
               /\ DeletedAt[k] = cp => Tag(env[h][k]) \notin alive'
          /\ todo = <<"env">> /\ cp = 11 /\ Gateway => Tag("iface") \notin alive'
    BY <1>2, <2>1, <2>2
  <2>4. alive' \subseteq alive
    BY <1>1
  <2> QED
    BY <1>1, <1>3, <2>1, <2>3, <2>4, ClearingGoesOn, Zenon DEF h
<1>4. CASE Raise /\ UNCHANGED env
  BY <1>1, <1>4, Raises
<1>5. CASE PollAgain("wait_instance") /\ UNCHANGED env
  BY <1>1, <1>5, Polls
<1> QED
  BY <1>3, <1>4, <1>5 DEF instance_wait_None, PollOf

\* the requests of clear_env
LEMMA AsksAre ==
  ASSUME NEW s
  PROVE  /\ Asks(s).op \in {"ask", "free", "drop"}
         /\ s = "remove_internal_gw" => Asks(s).op = "drop" /\ Asks(s).name = "iface"
         /\ s \in DOMAIN DeletedAt => Asks(s).op = "drop" /\ Asks(s).name = Dict[s]
<1>1. CASE s = "remove_all_router"
  BY <1>1 DEF Asks, DeletedAt
<1>2. CASE s = "remove_rule"
  BY <1>2 DEF Asks, DeletedAt
<1>3. CASE s = "remove_internal_gw"
  BY <1>3 DEF Asks, DeletedAt
<1>4. CASE s \notin {"remove_all_router", "remove_rule", "remove_internal_gw"}
  <2>1. Asks(s) = [op |-> "drop", name |-> Dict[s], uses |-> {}]
    BY <1>4 DEF Asks
  <2> QED
    BY <1>4, <2>1
<1> QED
  BY <1>1, <1>2, <1>3, <1>4

\* and when it sends them
LEMMA AppliesIs ==
  /\ Applies("remove_internal_gw") <=> Has("router_id") /\ Has("subnet_id")
  /\ \A k \in DOMAIN DeletedAt : Applies(k) <=> Has(k)
  BY DEF Applies, DeletedAt

\* a step of clear_env
LEMMA ClearsOn ==
  ASSUME CloudInv, clear_env_step, at' = at
  PROVE  CloudInv'
<1> DEFINE s == clear_env[cp]
           h == Head(todo)
           a == Asks(s)
           r == Tag(a.name)
           held == {Tag(n) : n \in a.uses}
<1>1. mode = "clear" /\ UNCHANGED <<script, keep, lost>> /\ ~(Gone /\ Applies(s))
  BY DEF clear_env_step
<1>2. cp \in 1..16 /\ DOMAIN env = Dictionaries
  BY DEF CloudInv, RunType
<1>3. CASE ~Applies(s) /\ NextStep /\ UNCHANGED <<env, cloud>>
  <2>1. alive' = alive /\ env' = env
    BY <1>3 DEF cloud
  <2>2. \A k \in DOMAIN env[h] \cap DOMAIN DeletedAt : DeletedAt[k] # cp
    <3> TAKE k \in DOMAIN env[h] \cap DOMAIN DeletedAt
    <3>1. DeletedAt[k] = cp => s = k
      BY <1>2, ClearEnvPlaces
    <3>2. Applies(k)
      BY AppliesIs DEF Has, Dict
    <3> QED
      BY <1>3, <3>1, <3>2
  <2>3. ~(todo = <<"env">> /\ cp = 11 /\ Gateway)
    <3> SUFFICES ASSUME todo = <<"env">>, cp = 11, Gateway PROVE FALSE
      OBVIOUS
    <3>1. s = "remove_internal_gw" /\ Head(todo) = "env"
      BY ClearEnvPlaces
    <3>2. Applies("remove_internal_gw")
      BY <3>1, AppliesIs DEF Gateway, Has, Dict
    <3> QED
      BY <1>3, <3>1, <3>2
  <2>4. /\ \A d \in Dictionaries : d # h => env'[d] = env[d]
        /\ \A k \in DOMAIN env[h] \cap DOMAIN DeletedAt :
             /\ DeletedAt[k] > cp => k \in DOMAIN env'[h] /\ env'[h][k] = env[h][k]
             /\ DeletedAt[k] = cp => Tag(env[h][k]) \notin alive'
        /\ todo = <<"env">> /\ cp = 11 /\ Gateway => Tag("iface") \notin alive'
    BY <2>1, <2>2, <2>3
  <2>5. DOMAIN env' = Dictionaries /\ alive' \subseteq alive
    BY <1>2, <2>1
  <2> QED
    BY <1>1, <1>3, <2>4, <2>5, ClearingGoesOn, Zenon DEF h
<1>4. a.op \in {"ask", "free", "drop"}
  BY AsksAre
<1>5. Effect(a.op, r, held) => /\ alive' \subseteq alive
                               /\ a.op = "drop" => r \notin alive'
  <2> SUFFICES ASSUME Effect(a.op, r, held)
               PROVE  alive' \subseteq alive /\ (a.op = "drop" => r \notin alive')
    OBVIOUS
  <2>1. /\ a.op = "drop" => alive' = alive \ Parts(r)
        /\ a.op \notin {"new", "drop"} => alive' = alive
    BY EffectIs
  <2>2. r \in Parts(r)
    BY DEF Parts
  <2> QED
    BY <1>4, <2>1, <2>2
<1>6. CASE Applies(s) /\ Effect(a.op, r, held) /\ Forgets(s) /\ NextStep
  <2>1. alive' \subseteq alive /\ (a.op = "drop" => r \notin alive')
    BY <1>5, <1>6
  <2>2. /\ DOMAIN env' = Dictionaries
        /\ Case # Setup => /\ \A d \in Dictionaries : d # h => env'[d] = env[d]
                           /\ \A k \in DOMAIN env[h] : k # s =>
                                k \in DOMAIN env'[h] /\ env'[h][k] = env[h][k]
    <3>1. CASE UNCHANGED env
      BY <1>2, <3>1
    <3>2. CASE Forget(s)
      BY <1>1, <3>2, ForgetIs
    <3> QED
      BY <1>6, <3>1, <3>2 DEF Forgets
  <2>3. \A k \in DOMAIN DeletedAt : /\ DeletedAt[k] = cp => s = k
                                    /\ DeletedAt[k] > cp => s # k
    <3>1. \A k \in DOMAIN DeletedAt : DeletedAt[k] = cp => s = k
      BY ClearEnvPlaces
    <3>2. s \in DOMAIN DeletedAt => DeletedAt[s] = cp
      <4>1. {"instance_gone", "remove_all_router", "remove_rule", "remove_internal_gw"} \cap DOMAIN DeletedAt = {}
        BY DEF DeletedAt
      <4> QED
        BY <1>2, <4>1, ClearEnvPlaces
    <3> QED
      BY <1>2, <3>1, <3>2
  <2>4. \A k \in DOMAIN env[h] \cap DOMAIN DeletedAt : DeletedAt[k] = cp => Tag(env[h][k]) \notin alive'
    <3> TAKE k \in DOMAIN env[h] \cap DOMAIN DeletedAt
    <3> HAVE DeletedAt[k] = cp
    <3>1. s = k
      BY <2>3
    <3>2. a.op = "drop" /\ a.name = env[h][k]
      BY <3>1, AsksAre DEF Dict
    <3> QED
      BY <2>1, <3>2
  <2>5. cp = 11 => Tag("iface") \notin alive'
    <3>1. cp = 11 => a.op = "drop" /\ a.name = "iface"
      BY AsksAre, ClearEnvPlaces
    <3> QED
      BY <2>1, <3>1
  <2> HIDE DEF s, h
  <2>6. Case # Setup =>
          /\ \A d \in Dictionaries : d # h => env'[d] = env[d]
          /\ \A k \in DOMAIN env[h] \cap DOMAIN DeletedAt :
               /\ DeletedAt[k] > cp => k \in DOMAIN env'[h] /\ env'[h][k] = env[h][k]
               /\ DeletedAt[k] = cp => Tag(env[h][k]) \notin alive'
          /\ todo = <<"env">> /\ cp = 11 /\ Gateway => Tag("iface") \notin alive'
    BY <2>2, <2>3, <2>4, <2>5
  <2> QED
    BY <1>1, <1>6, <2>1, <2>2, <2>6, ClearingGoesOn, Zenon DEF h
<1>7. CASE Raise /\ UNCHANGED env /\ (UNCHANGED cloud \/ Effect(a.op, r, held))
  <2>1. alive' \subseteq alive /\ lost' = lost
    BY <1>1, <1>5, <1>7 DEF cloud
  <2>2. (\A y \in alive' \cup lost' : y \in alive \cup lost) /\ alive' \ lost' \subseteq alive \ lost
    BY <2>1
  <2> QED
    BY <1>1, <1>7, <2>1, <2>2, Raises
<1> QED
  BY <1>3, <1>6, <1>7, Zenon DEF clear_env_step

-----------------------------------------------------------------------------
(***************************************************************************)
(* The invariant holds in every state of the scripts: at first, through    *)
(* the case that builds many machines (which starts when create_Networkenv *)
(* is over), and whatever the other programs do.                           *)
(***************************************************************************)
\* testcase_vm_mul_create_delete runs after create_Networkenv
LEMMA AfterSetup ==
  ASSUME testcase_vm_mul_create_delete, ~setup_done
  PROVE  at[1] # "setup"
<1>1. ASSUME NEW p, NEW s, at = <<p, s>>, p # "setup"
      PROVE  at[1] # "setup"
  BY <1>1
<1>2. CASE clear_network
  BY <1>2 DEF clear_network
<1>3. CASE Build
  BY <1>3 DEF Build, volume_made, instance_made, built, floatingip_made, ping_fails, ping_answers
<1>4. CASE Use
  BY <1>4 DEF Use, pop, instance_stop, instance_start, instance_resize, instance_resize_confirm,
     instance_live_migrate, ServerAction, instance_volume_attach, compare_hosts, instance_delete, floatingip_delete
<1>5. CASE drain_instances \/ drain_volumes \/ drain_fips
  BY <1>5 DEF drain_instances, drain_volumes, drain_fips, Drain
<1>6. CASE network_cleared \/ round_ends \/ clear_ends
  <2>1. \E p, s : at = <<p, s>> /\ p # "setup"
    <3>1. at \in {<<"clear", "waiting">>, <<"drain", "end">>, <<"clear", "end">>}
      BY <1>6, Zenon DEF network_cleared, round_ends, clear_ends
    <3> QED
      BY <3>1
  <2> QED
    BY <1>1, <2>1
<1>7. CASE rounds_end
  <2>1. at = <<"drain", "end">>
    BY <1>7, Zenon DEF rounds_end
  <2> QED
    BY <2>1
<1>8. CASE request_fails
  BY <1>8 DEF request_fails
<1>9. CASE quota_reached
  BY <1>9 DEF quota_reached
<1> QED
  BY <1>2, <1>3, <1>4, <1>5, <1>6, <1>7, <1>8, <1>9 DEF testcase_vm_mul_create_delete, Drains

\* its steps touch the case only to clear the network
LEMMA MachinesMade ==
  ASSUME CloudInv, testcase_vm_mul_create_delete
  PROVE  CloudInv'
<1>1. CASE setup_done
  BY <1>1, Stays DEF setup_done, runVars, control, cloud
<1>2. CASE ~setup_done /\ ~(clear_network /\ net)
  <2>1. at[1] # "setup"
    BY <1>2, AfterSetup
  <2>2. UNCHANGED <<script, keep, plan, pc, mode, todo, cp, result, env, alive, lost>>
    BY <1>2 DEF testcase_vm_mul_create_delete, clear_network, control, cloud
  <2> QED
    BY <2>1, <2>2, Stays DEF CloudInv
<1>3. CASE clear_network /\ net
  <2>1. /\ StartClearing(TRUE)
        /\ UNCHANGED <<script, keep, env, alive, lost>>
    BY <1>3 DEF clear_network, cloud
  <2>2. at[1] # "setup"
    BY <1>3 DEF clear_network
  <2>3. plan' = plan /\ mode' = "clear" /\ result' = TRUE /\ cp' = 1 /\ pc' = pc
    BY <2>1 DEF StartClearing
  <2>4. Case = Setup /\ Case' = Setup /\ Setup' = Setup
    BY <2>2, <2>3, SameCase DEF CloudInv, Setup
  <2>5. RunType /\ DOMAIN env' = Dictionaries
    BY <2>1 DEF CloudInv, RunType
  <2>6. RunType'
    BY <2>1, <2>3, <2>5, RunTypeKept
  <2> QED
    BY <2>3, <2>4, <2>6 DEF CloudInv
<1> QED
  BY <1>1, <1>2, <1>3

\* the first states
LEMMA CloudInvAtFirst ==
  ASSUME RunInit, MulInit
  PROVE  CloudInv
<1>1. at[1] = "setup"
  <2>1. at = <<"setup", "">>
    BY Zenon DEF MulInit
  <2> QED
    BY <2>1, FirstOf
<1>2. /\ script \in {"long_run_tests", "network_test"} /\ keep \in BOOLEAN
      /\ lost = {} /\ cp = 1 /\ pc = 1
  BY DEF RunInit
<1> DEFINE suite == << "testcase_basic", "testcase_securitygroup", "testcase_fw", TwoVlans >>
<1>3. suite \in Plans /\ <<Setup>> \in Plans /\ <<Env1>> \in Plans
  BY DEF Plans
<1>4. CASE plan \in {suite, <<Setup>>} /\ mode = "try" /\ result = FALSE /\ env = Empty /\ alive = {}
  <2>1. Case # Env1
    <3>1. CASE plan = suite
      <4>1. Case = "testcase_basic"
        BY <3>1 DEF Case
      <4> QED
        BY <4>1 DEF Env1
    <3>2. CASE plan = <<Setup>>
      BY <3>2, OneThing DEF Case, Setup, Env1
    <3> QED
      BY <1>4, <3>1, <3>2
  <2>2. DOMAIN env = Dictionaries /\ DOMAIN env["env"] = {} /\ DOMAIN env["env_minor"] = {}
    BY <1>4 DEF Empty, Dictionaries
  <2>3. Trying
    BY <1>2, <1>4, <2>1, <2>2 DEF Trying, NamesKept
  <2> HIDE DEF suite
  <2>4. plan \in Plans
    <3>1. CASE plan = suite
      BY <1>3, <3>1, Zenon
    <3>2. CASE plan = <<Setup>>
      BY <1>3, <3>2, Zenon
    <3> QED
      BY <1>4, <3>1, <3>2
  <2>5. mode \in {"try", "clear", "over", "dead"} /\ result \in BOOLEAN /\ pc \in Nat \ {0} /\ cp \in 1..16
        /\ alive \cup lost = {}
    <3>1. mode = "try" /\ result = FALSE /\ alive = {}
      BY <1>4, Zenon
    <3>2. result \in BOOLEAN
      BY <3>1
    <3>3. alive \cup lost = {}
      BY <1>2, <3>1
    <3>4. pc \in Nat \ {0} /\ cp \in 1..16
      BY <1>2
    <3>5. mode \in {"try", "clear", "over", "dead"}
      BY <3>1
    <3> QED
      BY <3>2, <3>3, <3>4, <3>5
  <2>6. RunType
    BY <1>2, <2>2, <2>4, <2>5 DEF RunType
  <2> QED
    BY <1>1, <1>4, <2>3, <2>6 DEF CloudInv
<1> DEFINE had  == {"network", "subnet", "router", "sg", "fip"}
           rec  == [network_id |-> "network", subnet_id |-> "subnet", router_id |-> "router",
                    securitygroup_id |-> "sg", floatingip_id |-> "fip"]
<1>5. CASE /\ plan = <<Env1>> /\ mode = "clear" /\ todo = <<"env">> /\ result = TRUE
           /\ alive = {<<Env1, n>> : n \in had \cup {"iface"}} /\ env = [Empty EXCEPT !["env"] = rec]
  <2>1. Case = Env1 /\ Len(plan) = 1
    BY <1>5, OneThing DEF Case
  <2>2. DOMAIN env = Dictionaries /\ env["env"] = rec
    BY <1>5 DEF Empty, Dictionaries
  <2>3. /\ DOMAIN rec = {"network_id", "subnet_id", "router_id", "securitygroup_id", "floatingip_id"}
        /\ rec["network_id"] = "network" /\ rec["subnet_id"] = "subnet" /\ rec["router_id"] = "router"
        /\ rec["securitygroup_id"] = "sg" /\ rec["floatingip_id"] = "fip"
    OBVIOUS
  <2> HIDE DEF rec
  <2>4. \A n \in had \cup {"iface"} : Due(n)
    <3>1. Due("iface")
      BY <1>2, <1>5, <2>2, <2>3 DEF Due, Gateway
    <3>2. \A k \in DOMAIN rec : k \in DOMAIN DeletedAt /\ DeletedAt[k] >= 1
      BY <2>3 DEF DeletedAt
    <3>3. \A n \in had : DueIn(rec, n, 1)
      BY <2>3, <3>2 DEF DueIn
    <3>4. \A n \in had : Due(n)
      BY <1>2, <1>5, <2>2, <3>3 DEF Due
    <3> QED
      BY <3>1, <3>4
  <2>5. \A r \in alive : \E n \in had \cup {"iface"} : r = <<Env1, n>> /\ r[1] = Env1 /\ r[2] = n
    BY <1>5
  <2> HIDE DEF had
  <2>6. \A r \in alive : r = <<r[1], r[2]>>
    BY <2>5
  <2>7. RunType
    <3>1. plan \in Plans
      BY <1>3, <1>5
    <3>2. \A c : ~LaterIn(plan, c)
      BY <2>1 DEF LaterIn
    <3>3. mode \in {"try", "clear", "over", "dead"} /\ result \in BOOLEAN /\ pc \in Nat \ {0} /\ cp \in 1..16
      BY <1>2, <1>5
    <3> QED
      BY <1>2, <2>2, <2>6, <3>1, <3>2, <3>3 DEF RunType
  <2>8. Clearing
    <3>1. \A r \in Heard : Due(r[2])
      BY <2>4, <2>5 DEF Heard
    <3>2. Complete
      BY <1>2, <2>1 DEF Complete, InFw, Env1
    <3>3. todo \in {<<"env_minor", "env">>, <<"env">>}
      BY <1>5
    <3> QED
      BY <3>1, <3>2, <3>3 DEF Clearing
  <2> QED
    BY <1>1, <1>5, <2>7, <2>8 DEF CloudInv
<1> QED
  BY <1>4, <1>5, Zenon DEF RunInit, TwoVlans

\* every step keeps it
LEMMA CloudInvIsInvariant == ScriptsSpec => []CloudInv
<1>1. ScriptsInit => CloudInv
  BY CloudInvAtFirst DEF ScriptsInit, CloudIdle
<1>2. CloudInv /\ [ProgramSteps \/ OtherSteps]_scriptsVars => CloudInv'
  <2> SUFFICES ASSUME CloudInv, [ProgramSteps \/ OtherSteps]_scriptsVars
               PROVE  CloudInv'
    OBVIOUS
  <2>1. CASE Cloud((Script /\ UNCHANGED mulVars) \/ testcase_vm_mul_create_delete)
    <3>1. CASE testcase_vm_mul_create_delete
      BY <3>1, MachinesMade
    <3>2. ASSUME Script, UNCHANGED mulVars
          PROVE  CloudInv'
      <4>1. at' = at
        BY <3>2 DEF mulVars
      <4> QED
        BY <3>2, <4>1, TokenAsked, RequestSent, PollOfCase, Pinged, AllStepsDone, ClearsOn, MachineGone, NextCase
           DEF Script
    <3> QED
      BY <2>1, <3>1, <3>2 DEF Cloud
  <2>2. CASE Cloud((TokenExpires \/ Settles) /\ UNCHANGED mulVars)
    BY <2>2, NothingMoves DEF Cloud, mulVars
  <2>3. ASSUME UNCHANGED cloudVars
        PROVE  CloudInv'
    BY <2>3, Stays DEF cloudVars, runVars, mulVars, control, cloud, CloudInv
  <2>4. CASE Compute(ComputeSteps) \/ Compute(NovaSteps)
    BY <2>3, <2>4 DEF Compute
  <2>5. CASE Upload(UploadSteps) \/ Upload(CookieExpires \/ QueryFails)
    BY <2>3, <2>5 DEF Upload
  <2>6. CASE Card(Commands) \/ Card(Restart \/ \E o \in DOMAIN opCall : rpcCall(o))
    BY <2>3, <2>6 DEF Card
  <2>7. CASE UNCHANGED scriptsVars
    BY <2>3, <2>7 DEF scriptsVars
  <2> QED
    BY <2>1, <2>2, <2>4, <2>5, <2>6, <2>7 DEF ProgramSteps, OtherSteps
<1> QED
  BY <1>1, <1>2, PTL DEF ScriptsSpec

(***************************************************************************)
(* A case that returned True has left nothing in the cloud, whatever       *)
(* failed in the cases before it and wherever tokens expired: clear_env    *)
(* knew everything it had created (clear_env and the testcases).           *)
(***************************************************************************)
THEOREM SuccessIsCleanHolds == ScriptsSpec => []SuccessIsClean
<1>1. CloudInv => SuccessIsClean
  <2> SUFFICES ASSUME CloudInv, mode = "over", result, Case # Setup, NEW r \in alive, r[1] = Case
               PROVE  FALSE
    BY DEF SuccessIsClean
  <2>1. Cleared /\ RunType /\ Complete
    BY DEF CloudInv, Cleared
  <2>2. r \in Heard
    BY <2>1 DEF Heard, Complete, Mine
  <2>3. r[2] \in Unrecorded \ {"iface"}
    BY <2>1, <2>2 DEF Cleared
  <2>4. InFw /\ r[2] \in {"fwrule", "policy"}
    BY <2>3 DEF Unrecorded, InFw
  <2>5. r = Tag(r[2])
    BY <2>1, MineIs DEF Mine
  <2> QED
    BY <2>1, <2>4, <2>5 DEF Complete
<1> QED
  BY <1>1, CloudInvIsInvariant, PTL

(***************************************************************************)
(* While a case runs its dictionaries know every resource it was told of,  *)
(* but for the interface, the TCP rules of create_Networkenv and what      *)
(* testcase_fw has replaced; and without TEST_KEEP_ENV a clear_env that    *)
(* came to its end has left nothing else of it, at whatever request the    *)
(* case failed (clear_env and the handlers of the testcases).              *)
(***************************************************************************)
THEOREM LeftBehindHolds == ScriptsSpec => []LeftBehind
<1>1. CloudInv => LeftBehind
  <2> SUFFICES ASSUME CloudInv, NEW r \in alive, r[1] = Case, r \notin lost
               PROVE  /\ mode = "try" => r[2] \in Known("env") \cup Known("env_minor") \cup Unrecorded
                      /\ mode = "over" /\ ~keep /\ Case # Setup => r[2] \in Unrecorded \ {"iface"}
    BY DEF LeftBehind
  <2>1. Mine(r) /\ r \in Heard
    BY DEF Mine, Heard
  <2>2. \A d : Kept(env[d], r[2]) => r[2] \in Known(d)
    BY DEF Kept, Known, Range
  <2>3. mode = "try" => Kept(env["env"], r[2]) \/ Kept(env["env_minor"], r[2]) \/ r[2] \in Unrecorded
    BY <2>1 DEF CloudInv, Trying
  <2>4. mode = "over" /\ ~keep /\ Case # Setup => r[2] \in Unrecorded \ {"iface"}
    BY <2>1 DEF CloudInv, Cleared
  <2> QED
    BY <2>2, <2>3, <2>4
<1> QED
  BY <1>1, CloudInvIsInvariant, PTL
=============================================================================
