------------------------------ MODULE VcsFiles ------------------------------
(***************************************************************************)
(* What upload.py sends of a changed file besides the diff: the methods    *)
(* GenerateDiff, GetStatus and GetBaseFile of its version control systems. *)
(* Contents are named: "old" and "new" for the file before and after the   *)
(* change, "empty", and "None" when nothing is sent.                       *)
(*                                                                         *)
(* Two systems end before they come to a file.  CVS takes the exit status  *)
(* 1 of cvs diff, which means that there are differences, for a failure;   *)
(* Perforce reads options the parser does not define.                      *)
(***************************************************************************)
EXTENDS Sequences

VARIABLES
  compare,  \* "working_copy", "since" (--rev r), "range" (--rev r:s),
            \* "urls" (--rev url:url) or "full" (--full_review)
  failing   \* queries to the version control system that fail in this run

Whats == {"added", "modified", "deleted", "renamed", "moved", "readded", "attributes", "replaced"}
Kinds == {"text", "image", "binary"}

\* moved: renamed and edited, and shown as an edit; readded: the same, shown as a new
\* file (svn diff --show-copies-as-adds); local: not committed
Changes == [what : Whats, kind : Kinds, local : BOOLEAN]

File(base, new, binary, status) == [base |-> base, new |-> new, binary |-> binary, status |-> status]
Exit    == File("exit", "None", FALSE, "")     \* ErrorExit
IOError == File("IOError", "None", FALSE, "")  \* nobody catches it
Failed(file) == file.base \in {"exit", "IOError"}

Old(change)  == change.what \notin {"added", "renamed", "moved", "readded"}  \* under the same name
Here(change) == ~(change.local /\ change.what = "deleted")

(***************************************************************************)
(* Which changes each system can be in when its diff shows them.           *)
(***************************************************************************)
Shown(vcs, c) ==
  /\ compare = "working_copy" => c.local
  /\ compare \in {"range", "urls", "full"} => ~c.local
  /\ compare = "full" => c.what = "added"
  \* only Subversion 1.6 shows a move as an edit, and only what is not committed
  /\ vcs = "svn" => c.what # "renamed" /\ (c.what = "moved" => c.local)
  /\ vcs # "svn" => c.what \notin {"replaced", "readded"} /\ compare \in {"working_copy", "since", "range"}

(***************************************************************************)
(* The files changed lie in one folder, whose two listings are made once.  *)
(* "cat" stands for everything that gets contents.                         *)
(***************************************************************************)
Queries(vcs) ==
  CASE vcs # "svn"              -> {"cat"}
    [] compare = "working_copy" -> {"status", "propget", "cat"}
    [] compare = "full"         -> {"propget", "cat"}
    [] OTHER                    -> {"list_old", "list_new", "propget", "cat"}

Unanswered(query) == query \in failing

-----------------------------------------------------------------------------
(***************************************************************************)
(* Subversion.  Against a revision the status is found by comparing two    *)
(* listings of the directory, which do not show what is not committed, and *)
(* are empty when svn list fails.                                          *)
(***************************************************************************)
calcStatus_backwards(c) == IF ~Old(c) THEN "D" ELSE IF c.what = "deleted" THEN "A" ELSE "M"
calcStatus(c) ==
  LET in_old == Old(c) /\ ~Unanswered("list_old")
      in_new == (IF c.local THEN Old(c) ELSE c.what # "deleted") /\ ~Unanswered("list_new")
  IN  CASE in_old /\ ~in_new -> "D"
        [] in_old /\ in_new  -> "M"
        [] OTHER             -> "A"

svn_GetStatus(c) ==
  IF compare = "full" THEN "A"
  ELSE IF compare # "working_copy" THEN calcStatus(c)
  ELSE CASE c.what = "added"      -> "A"
         [] c.what \in {"moved", "readded"} -> "A +"
         [] c.what = "modified"   -> "M"
         [] c.what = "deleted"    -> "D"
         [] c.what = "replaced"   -> "R"
         [] c.what = "attributes" -> " M"

\* a binary is not known as one when its type cannot be asked for
svn_kind(c) == IF Unanswered("propget") THEN "text" ELSE c.kind

\* the new content comes from the end of the range, not from the working copy
rev_end == compare \in {"range", "urls", "full"}

\* what is gone has no type
svn_added(c) ==
  LET kind == IF c.what = "deleted" THEN "text" ELSE svn_kind(c)
  IN  IF kind = "image" /\ rev_end /\ Unanswered("cat") THEN Exit
      ELSE File("empty", IF kind = "image" THEN "new" ELSE "None", kind # "text", "A")

(***************************************************************************)
(* The base of a changed file is fetched unless it is a binary that cannot *)
(* be shown, and the new content with it.  RunShell ends the script when   *)
(* svn cat fails, as it does at the end of the range for a file that is    *)
(* gone there.                                                             *)
(***************************************************************************)
svn_contents(c, status) ==
  LET reads_new == rev_end \/ status # "D"
  IN  CASE rev_end /\ c.what = "deleted"     -> Exit
        [] ~rev_end /\ reads_new /\ ~Here(c) -> IOError
        [] OTHER -> IF Unanswered("cat") THEN Exit
                    ELSE File("old", IF reads_new THEN "new" ELSE "None", svn_kind(c) # "text", status)

svn_changed(c, status) ==
  CASE status = " M"                             -> File("empty", "None", svn_kind(c) # "text", status)
    [] status # " M" /\ svn_kind(c) = "binary"   -> File("empty", "None", TRUE, status)
    [] OTHER                                     -> svn_contents(c, status)

svn_GetBaseFile(c) ==
  LET status == svn_GetStatus(c)
  IN  IF Unanswered("status") THEN Exit
      ELSE IF status \in {"A", "A +"} THEN svn_added(c)
      ELSE svn_changed(c, status)

-----------------------------------------------------------------------------
(***************************************************************************)
(* Git.  The hashes come from the index line of the diff, which a change   *)
(* of the name or of the mode alone does not have; a hash of the working   *)
(* copy is not one git show knows.                                         *)
(***************************************************************************)
git_hashes(c) ==
  CASE c.what \in {"renamed", "attributes"} -> [before |-> FALSE, after |-> FALSE]
    [] c.what = "added"                     -> [before |-> FALSE, after |-> TRUE]
    [] c.what = "deleted"                   -> [before |-> TRUE, after |-> FALSE]
    [] OTHER                                -> [before |-> TRUE, after |-> TRUE]

git_GetFileContent(c, content) ==
  IF (content = "new" /\ c.local) \/ Unanswered("cat") THEN "exit" ELSE content

git_status(c) == IF c.what \in {"renamed", "moved"} THEN "A +"
                 ELSE IF ~git_hashes(c).before THEN "A"
                 ELSE IF ~git_hashes(c).after THEN "D"
                 ELSE "M"

\* the base is not read yet when it is tested for being binary
git_GetBaseFile(c) ==
  LET base == CASE c.what = "renamed" -> IF c.local \/ Unanswered("cat") THEN "exit" ELSE "old"  \* git show HEAD:<new name>
                [] git_status(c) = "A" -> "empty"
                [] OTHER               -> git_GetFileContent(c, "old")
      new  == IF c.kind = "image" /\ git_hashes(c).after THEN git_GetFileContent(c, "new")
              ELSE "None"
  IN  IF "exit" \in {base, new} THEN Exit ELSE File(base, new, FALSE, git_status(c))

-----------------------------------------------------------------------------
(***************************************************************************)
(* Mercurial.  A copy is a modification of the file it was copied from.    *)
(***************************************************************************)
hg_GetBaseFile(c) ==
  LET status == CASE c.what = "added"   -> "A"
                  [] c.what = "deleted" -> "R"
                  [] OTHER              -> "M"
  IN  IF Unanswered("cat") THEN Exit
      ELSE File(IF status = "A" THEN "empty" ELSE "old",
                IF status # "R" /\ c.kind = "image" THEN "new" ELSE "None",
                c.kind # "text", status)

GetBaseFile(vcs, c) == CASE vcs = "svn" -> svn_GetBaseFile(c)
                         [] vcs = "git" -> git_GetBaseFile(c)
                         [] vcs = "hg"  -> hg_GetBaseFile(c)

(***************************************************************************)
(* The side of the old version is right: what is sent, or not sent, is     *)
(* what the file was, as the diff has it.  The code gives an empty file    *)
(* instead for a change of properties alone in the working copy, for a     *)
(* binary that Subversion knows as one, for what Subversion 1.6 shows as a *)
(* move, and, without a word, for every file of a folder whose old listing *)
(* failed; with Git, for a change of the mode.                             *)
(***************************************************************************)
OldSideRight(vcs, c) ==
  LET file == GetBaseFile(vcs, c)
  IN  \/ Failed(file)
      \/ file.base = (IF c.what \in {"added", "readded"} THEN "empty" ELSE "old")
      \/ vcs = "svn" /\ \/ file.status = " M"
                        \/ file.binary /\ c.kind = "binary"
                        \/ c.what = "moved"
                        \/ file.status = "A" /\ Unanswered("list_old")
      \/ vcs = "git" /\ c.what = "attributes"

(***************************************************************************)
(* The changes of which nothing can be uploaded, with the whole review:    *)
(* a file deleted within a range, or locally and compared with a revision  *)
(* (Subversion); a file renamed and nothing else, or an image, that is not *)
(* committed (Git).                                                        *)
(***************************************************************************)
Hopeless(vcs, c) ==
  \/ /\ vcs = "svn" /\ c.what = "deleted" /\ c.kind # "binary"
     /\ rev_end \/ (compare = "since" /\ c.local)
  \/ vcs = "git" /\ c.local /\ (c.what = "renamed" \/ (c.kind = "image" /\ git_hashes(c).after))
=============================================================================
