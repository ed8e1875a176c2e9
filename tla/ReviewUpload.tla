---------------------------- MODULE ReviewUpload ----------------------------
(***************************************************************************)
(* upload.py, the script that opens a review of a change: RealMain and     *)
(* what it calls.  Two files have changed: f, in any way VcsFiles knows,   *)
(* and g, a small text that was edited, committed or not like f.  The script*)
(* is run again with the same options, and with -i after an issue is known *)
(* when the user likes.                                                    *)
(*                                                                         *)
(* External: the review server creates issues and patch sets, asks for a   *)
(* login when the cookie is missing or old, and may refuse or do a request *)
(* and lose the answer.                                                    *)
(***************************************************************************)
EXTENDS VcsFiles, Integers

CONSTANTS
  MaxRuns,        \* bound: times the script is run
  KindsAgain,     \* bound: kinds of f with which it is run more than once
  MaxUploadFaults \* bound: requests, queries and writes that fail, cookies that expire, wrong passwords

VARIABLES
  vcs, change,    \* version control system, and how f has changed
  options,        \* [large: the diff is too large for one request, issue: -i, comment]
  next,             \* what RealMain does next, "idle" before and after a run
  attempts,          \* attempts of Send
  cookie,         \* a good authentication cookie is kept in ~/.codereview_upload_cookies
  issues,         \* server: sequence of [patches, bases, mailed, comments]
  wanted,          \* files whose base the server wants, in this run
  issue,          \* issue of this run, or 0
  info,           \* number in issue.info, or 0
  analysis,       \* results of a checker wait in the folder cooder
  warned,         \* "Something wrong happens but issue has been created"
  told,           \* "Not uploading the patch" (or the base file), "too large", in this run
  ended,          \* how the last run ended
  unsaved,        \* history: this run failed to write issue.info
  runs, bad       \* runs begun, and faults

uploadVars == <<compare, vcs, change, options, next, attempts, cookie, issues, wanted, issue, info, analysis,
                warned, ended, runs, bad, failing, told, unsaved>>
site   == <<compare, vcs, change>>
server == <<issues, wanted>>
traces == <<info, analysis, warned, ended>>

Patched == {"f", "g"}
Changed(f) == IF f = "f" THEN change
              ELSE [what |-> IF compare = "full" THEN "added" ELSE "modified",
                    kind |-> "text", local |-> change.local]

Options == [large : BOOLEAN, issue : BOOLEAN, comment : BOOLEAN]

UploadInit ==
  /\ compare \in {"working_copy", "since", "range", "urls", "full"}
  /\ vcs \in {"svn", "git", "hg"} /\ change \in Changes
  /\ Shown(vcs, change)
  /\ options = [large |-> FALSE, issue |-> FALSE, comment |-> FALSE]
  /\ next = "idle" /\ attempts = 0 /\ cookie = FALSE
  /\ issues = <<>> /\ wanted = {} /\ issue = 0 /\ info = 0
  /\ analysis = TRUE /\ warned = FALSE /\ ended = "not_run" /\ runs = 0 /\ bad = 0
  /\ failing = {} /\ told = {} /\ unsaved = FALSE

BadLuck    == bad < MaxUploadFaults /\ bad' = bad + 1
Continue(p)  == next' = p /\ attempts' = 0
End(how) == /\ Continue("idle") /\ ended' = how
Leave_silently(how) == IF next = "contents" THEN Continue("info") /\ UNCHANGED <<warned, ended>>
                       ELSE End(how) /\ UNCHANGED warned
\* sys.exit in the block that uploads the base files is caught like everything else
Leave(how) == IF next = "contents"
              THEN Continue("info") /\ warned' = TRUE /\ UNCHANGED ended
              ELSE End(how) /\ UNCHANGED warned
Given == UNCHANGED <<site, options, runs, failing, told, unsaved>>

-----------------------------------------------------------------------------
(***************************************************************************)
(* The script begins.  Its first question, for a newer version, is answered*)
(* or fails without harm; a user who is asked whether to go on may not.     *)
(***************************************************************************)
RealMain ==
  /\ next = "idle" /\ runs < MaxRuns /\ (runs > 0 => change.kind \in KindsAgain)
  /\ runs' = runs + 1
  /\ options' \in Options /\ (options'.issue => info # 0)
  /\ runs > 0 => [options' EXCEPT !.issue = options.issue] = options
  /\ ended = "returned" /\ info # 0 => options'.issue  \* nobody makes two issues of one change
  /\ Continue("unknown_files")
  /\ issue' = IF options'.issue THEN info ELSE 0
  /\ wanted' = {} /\ warned' = FALSE /\ ended' = "running"
  /\ failing' = {} /\ told' = {} /\ unsaved' = FALSE
  /\ UNCHANGED <<site, cookie, issues, info, analysis, bad>>

\* or svn status -u shows that the working copy is old; neither is looked at with -y
aborted == /\ next = "unknown_files" /\ End("aborted")
           /\ Given /\ UNCHANGED <<cookie, server, issue, info, analysis, warned, bad>>

CheckForUnknownFiles == /\ next = "unknown_files" /\ Continue("base_files")
                        /\ Given /\ UNCHANGED <<cookie, server, issue, traces, bad>>

QueryFails ==
  /\ next = "base_files" /\ BadLuck
  /\ \E query \in Queries(vcs) : failing' = failing \cup {query}
  /\ UNCHANGED <<site, options, next, attempts, cookie, server, issue, traces, runs, told, unsaved>>

\* GetBaseFiles, and everything local that follows
GetBaseFiles ==
  /\ next = "base_files"
  /\ IF \E f \in Patched : Failed(GetBaseFile(vcs, Changed(f)))
     THEN End("no_base_file")
     ELSE Continue(IF vcs = "svn" THEN "whoami" ELSE "card") /\ UNCHANGED ended
  /\ Given /\ UNCHANGED <<cookie, server, issue, info, analysis, warned, bad>>

-----------------------------------------------------------------------------
(***************************************************************************)
(* Send.  A request that is answered with 401 or 302 is sent again after   *)
(* a login, at most three times; any other error is raised.                *)
(***************************************************************************)
Sends == {"whoami", "upload", "patches", "contents"}
Reached == next \in Sends /\ cookie

Send_refused ==
  /\ Reached /\ BadLuck /\ Leave(IF next = "upload" THEN "refused" ELSE "failed")
  /\ Given /\ UNCHANGED <<cookie, server, issue, info, analysis>>

Send_login ==
  /\ next \in Sends /\ ~cookie
  /\ IF attempts < 3
     THEN next' = next /\ attempts' = attempts + 1 /\ cookie' = TRUE /\ UNCHANGED <<warned, ended>>
     ELSE Leave("failed") /\ UNCHANGED cookie
  /\ Given /\ UNCHANGED <<server, issue, info, analysis, bad>>

\* 401 again, and _Authenticate calls itself; or "Login failed.", or ClientLoginError
_Authenticate_wrong ==
  /\ next \in Sends /\ ~cookie /\ BadLuck
  /\ \/ UNCHANGED <<next, attempts, warned, ended>>
     \/ Leave("login_failed")
  /\ Given /\ UNCHANGED <<cookie, server, issue, info, analysis>>

CookieExpires == /\ next \in Sends /\ cookie /\ BadLuck /\ cookie' = FALSE
                 /\ Given /\ UNCHANGED <<next, attempts, server, issue, traces>>

\* get_who_is_me, and the check of the authority of the owner
get_who_is_me == /\ next = "whoami" /\ Reached /\ Continue("card")
                 /\ Given /\ UNCHANGED <<cookie, server, issue, traces, bad>>

(***************************************************************************)
(* APIService: an answer that is no success ends the script in one way or  *)
(* another, also where fail_exit is not set: the text of the exception is  *)
(* evaluated.                                                              *)
(***************************************************************************)
APIs == {"card", "style", "comments"}
__json == /\ next \in APIs /\ BadLuck /\ End("api")
          /\ Given /\ UNCHANGED <<cookie, server, issue, info, analysis, warned>>

\* need_add_card for a new issue, api_validate_card, and the message
card_and_message == /\ next = "card" /\ Continue("upload")
                    /\ Given /\ UNCHANGED <<cookie, server, issue, traces, bad>>

(***************************************************************************)
(* /upload makes the issue, or a patch set of the issue given, and mails   *)
(* the reviewers.  Of a patch set the server may know a base already.      *)
(***************************************************************************)
NewIssue == [patches |-> {}, bases |-> {}, mailed |-> TRUE, comments |-> 0]

upload(answered) ==
  LET new == IF options.large THEN NewIssue ELSE [NewIssue EXCEPT !.patches = Patched]
      n   == IF options.issue THEN issue ELSE Len(issues) + 1
  IN  /\ next = "upload" /\ Reached
      /\ issues' = IF options.issue
                   THEN [issues EXCEPT ![n] = [new EXCEPT !.comments = issues[n].comments]]
                   ELSE Append(issues, new)
      /\ wanted' \in (IF options.issue THEN SUBSET Patched ELSE {Patched})
      /\ IF answered
         THEN /\ issue' = n /\ UNCHANGED <<bad, warned, ended>>
              /\ Continue(IF options.large THEN "patches" ELSE "contents")
         ELSE BadLuck /\ Leave("no_answer") /\ UNCHANGED issue
      /\ Given /\ UNCHANGED <<cookie, info, analysis>>

Told(part)    == {f \in Patched : <<part, f>> \in told}
Missing(part) == Patched \ (issues[issue][part] \cup Told(part))

(***************************************************************************)
(* UploadSeparatePatches: one request for each file.  A patch that is too  *)
(* large alone is left out with a message, and with it the base.           *)
(***************************************************************************)
NextPatch(f) == IF Missing("patches") = {f} THEN Continue("contents") ELSE UNCHANGED <<next, attempts>>

UploadSeparatePatches(f) ==
  /\ next = "patches" /\ Reached /\ f \in Missing("patches")
  /\ issues' = [issues EXCEPT ![issue].patches = @ \cup {f}]
  /\ NextPatch(f)
  /\ Given /\ UNCHANGED <<cookie, wanted, issue, traces, bad>>

UploadSeparatePatches_too_large ==
  /\ next = "patches" /\ "f" \in Missing("patches")
  /\ told' = told \cup {<<"patches", "f">>} /\ wanted' = wanted \ {"f"}
  /\ NextPatch("f")
  /\ UNCHANGED <<site, options, runs, failing, unsaved, cookie, issues, issue, traces, bad>>

(***************************************************************************)
(* UploadBaseFiles: the base, with the new content, of every file asked    *)
(* for; the new content alone of an image that was added.  What is too     *)
(* large is sent empty, with a message.                                    *)
(***************************************************************************)
UploadBaseFiles(f) ==
  /\ next = "contents" /\ Reached /\ f \in wanted \cap Missing("bases")
  /\ \/ issues' = [issues EXCEPT ![issue].bases = @ \cup {f}] /\ UNCHANGED told
     \/ f = "f" /\ told' = told \cup {<<"bases", f>>} /\ UNCHANGED issues
  /\ UNCHANGED <<site, options, runs, failing, unsaved, next, attempts, cookie, wanted, issue, traces, bad>>

UploadBaseFiles_end ==
  /\ next = "contents" /\ wanted \cap Missing("bases") = {}
  /\ Continue("info")
  /\ Given /\ UNCHANGED <<cookie, server, issue, traces, bad>>

(***************************************************************************)
(* Nothing is said of a file that cannot be opened, which keeps its number *)
(* of before, or not written, which is then empty.                         *)
(***************************************************************************)
writeIssueInfo ==
  /\ next = "info" /\ Continue("style")
  /\ \/ info' = issue /\ UNCHANGED <<unsaved, bad>>
     \/ info' \in {info, 0} /\ unsaved' = TRUE /\ BadLuck
  /\ UNCHANGED <<site, options, runs, failing, told, cookie, server, issue, analysis, warned, ended>>

\* need_check_style, check_style_trigger and execute_cmd
need_check_style ==
  /\ next = "style"
  /\ IF options.comment /\ analysis THEN Continue("comments") /\ UNCHANGED ended ELSE End("returned")
  /\ Given /\ UNCHANGED <<cookie, server, issue, info, analysis, warned, bad>>

(***************************************************************************)
(* UploadCommentHelper: the results are removed when the server has taken  *)
(* them; nothing is said when they cannot be.                              *)
(***************************************************************************)
upload_comment_keeps_the_results(answered) ==
  /\ next = "comments"
  /\ issues' = [issues EXCEPT ![issue].comments = @ + 1]
  /\ End(IF answered THEN "returned" ELSE "api")
  /\ \/ answered /\ UNCHANGED <<analysis, bad>>
     \/ BadLuck /\ UNCHANGED analysis
  /\ Given /\ UNCHANGED <<cookie, wanted, issue, info, warned>>
upload_comment(answered) ==
  /\ next = "comments"
  /\ issues' = [issues EXCEPT ![issue].comments = @ + 1]
  /\ End(IF answered THEN "returned" ELSE "api")
  /\ \/ answered /\ analysis' = FALSE /\ UNCHANGED bad
     \/ BadLuck /\ UNCHANGED analysis
  /\ Given /\ UNCHANGED <<cookie, wanted, issue, info, warned>>

UploadSteps ==
  \/ RealMain \/ aborted \/ CheckForUnknownFiles \/ GetBaseFiles
  \/ Send_refused \/ Send_login \/ _Authenticate_wrong
  \/ get_who_is_me \/ __json \/ card_and_message
  \/ \E answered \in BOOLEAN : upload(answered) \/ upload_comment(answered)
  \/ \E f \in Patched : UploadSeparatePatches(f) \/ UploadBaseFiles(f)
  \/ UploadSeparatePatches_too_large \/ UploadBaseFiles_end \/ writeIssueInfo \/ need_check_style

-----------------------------------------------------------------------------
(***************************************************************************)
(* The old side of every file that gets to the review is the old file; and *)
(* only the changes known to be hopeless, or a query that failed, keep a   *)
(* review from being made.                                                 *)
(***************************************************************************)
BaseIsOld ==
  /\ next = "contents" => \A f \in Patched : OldSideRight(vcs, Changed(f))
  /\ ended = "no_base_file" => \/ \E f \in Patched : Hopeless(vcs, Changed(f))
                              \/ failing \cap {"status", "propget", "cat"} # {}

(***************************************************************************)
(* Whatever fails after the issue was made, the user gets its number in    *)
(* issue.info: only separate patches, a lost answer and a failure of the   *)
(* write itself leave an issue that the file does not know of.             *)
(***************************************************************************)
IssueKnown ==
  next = "idle" =>
    /\ issue # 0 /\ info # issue => unsaved \/ (options.large /\ ended \in {"failed", "login_failed"})
    /\ (issue = 0 /\ \E i \in DOMAIN issues : i > info) => ended # "returned"

(***************************************************************************)
(* A run that says nothing has uploaded every patch and every base the     *)
(* server wanted for: the handler of the base files hides what is missing,  *)
(* and what is too large is named.                                         *)
(***************************************************************************)
CompleteOrWarned ==
  ended = "returned" =>
    /\ Missing("patches") = {}
    /\ wanted \cap Missing("bases") = {} \/ warned

(***************************************************************************)
(* The user can tell from the end of a run what has reached the server.    *)
(***************************************************************************)
UserCanTell == IssueKnown /\ CompleteOrWarned

(***************************************************************************)
(* The results of a checker are removed when they are comments, and are    *)
(* comments twice only when an answer was lost or the removal failed.      *)
(***************************************************************************)
Posted == LET c[n \in 0..Len(issues)] == IF n = 0 THEN 0 ELSE c[n - 1] + issues[n].comments
          IN  c[Len(issues)]
CommentsOnce == /\ ~analysis => Posted > 0
                /\ Posted <= 1 + bad

=============================================================================
