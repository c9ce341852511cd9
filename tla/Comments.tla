------------------------------ MODULE Comments ------------------------------
(***************************************************************************)
(* Comments under one task of the task service.  A new comment, its item   *)
(* in the task's activity feed and its outbox rows commit in one           *)
(* transaction; an edit and a deletion load the whole document and write   *)
(* it back, without a version and without a condition on what is stored.   *)
(*                                                                         *)
(* The text of a comment is the number of the save that wrote it.          *)
(***************************************************************************)
EXTENDS Naturals, Sequences, FiniteSetsExt

CONSTANTS
  CommentRequests,  \* executions of the comment handlers that may overlap
  Commenters,       \* users: authors, assignees, mentioned ones
  Nobody,
  MaxComments,      \* bound on the comments
  MaxSaves          \* bound on the documents written

ASSUME CommentsAssumption ==
  Nobody \notin Commenters /\ MaxComments \in Nat /\ MaxSaves \in Nat

VARIABLES
  comments,  \* [author, text, mentions, deleted]: the documents, oldest first
  feed,      \* comments that have an item in the activity feed
  notices,   \* outbox rows: [comment, type, to]
  comment,   \* [pc, at, doc, assignee, read] of each handler execution
  saves      \* history: [comment, kind, read]: documents written; `read` is the
             \* number of saves when the document was loaded

commentVars == <<comments, feed, notices, comment, saves>>

NoText == [author |-> Nobody, text |-> 0, mentions |-> {}, deleted |-> FALSE]
NoRequest == [pc |-> "none", at |-> 0, doc |-> NoText, assignee |-> Nobody, read |-> 0]

CommentsInit ==
  /\ comments = <<>>
  /\ feed = {}
  /\ notices = {}
  /\ comment = [r \in CommentRequests |-> NoRequest]
  /\ saves = <<>>

-----------------------------------------------------------------------------
Commenting(r, pc) == comment[r].pc = pc

StartComment(r, pc, at, doc, assignee) ==
  /\ Commenting(r, "none")
  /\ comment' = [comment EXCEPT ![r] = [pc |-> pc, at |-> at, doc |-> doc,
                                       assignee |-> assignee, read |-> Len(saves)]]
  /\ UNCHANGED <<comments, feed, notices, saves>>

EndComment(r) == comment' = [comment EXCEPT ![r] = NoRequest]

Saved(r, at, kind) ==
  /\ Len(saves) < MaxSaves
  /\ saves' = Append(saves, [comment |-> at, kind |-> kind, read |-> comment[r].read])

\* Variant with a bug: nobody looks whether the task is assigned to anyone.
NoticesWithoutAssignee(c, author, to, mentions) ==
  {[comment |-> c, type |-> "task_commented", to |-> u] : u \in {to} \ {author}}
    \cup {[comment |-> c, type |-> "comment_mentioned", to |-> u] : u \in mentions \ {to}}

\* The assignee hears of the comment, and the mentioned users but the assignee
\* of the mention; nobody hears of a comment of theirs.
Notices(c, author, to, mentions) ==
  {[comment |-> c, type |-> "task_commented", to |-> u] : u \in {to} \ {Nobody, author}}
    \cup {[comment |-> c, type |-> "comment_mentioned", to |-> u] : u \in mentions \ {to}}

\* The handler finds the task, the author and the users named in the text; whom
\* the task is assigned to by now it does not look up again.
ReadForComment(r, assignee, author, mentions) ==
  /\ author \notin mentions
  /\ StartComment(r, "create", 0, [NoText EXCEPT !.author = author, !.mentions = mentions],
                  assignee)

\* One transaction; one that conflicts runs again with what the handler read.
CreateComment(r) ==
  LET c == Len(comments) + 1
      doc == comment[r].doc
  IN
  /\ Commenting(r, "create")
  /\ c <= MaxComments
  /\ Saved(r, c, "create")
  /\ comments' = Append(comments, [doc EXCEPT !.text = Len(saves')])
  /\ feed' = feed \cup {c}
  /\ notices' = notices \cup Notices(c, doc.author, comment[r].assignee, doc.mentions)
  /\ EndComment(r)

\* Variant with a bug: a deleted comment is found as if it were not.
FindDeletedCommentToo(r, kind, c) ==
  StartComment(r, kind, c, [comments[c] EXCEPT !.deleted = FALSE], Nobody)

\* findByIdAsync finds no deleted comment, and only its author may go on. That the
\* comment is one of the task in the path is not looked at.
FindComment(r, kind, c) ==
  /\ ~comments[c].deleted
  /\ StartComment(r, kind, c, comments[c], Nobody)

\* updateContent, then updateAsync: the mentions stay those of the first text.
EditComment(r) ==
  LET c == comment[r].at IN
  /\ Commenting(r, "edit")
  /\ Saved(r, c, "edit")
  /\ comments' = [comments EXCEPT ![c] = [comment[r].doc EXCEPT !.text = Len(saves')]]
  /\ EndComment(r)
  /\ UNCHANGED <<feed, notices>>

\* markAsDeleted, then updateAsync, which writes the text that was read as well.
DeleteComment(r) ==
  LET c == comment[r].at IN
  /\ Commenting(r, "delete")
  /\ Saved(r, c, "delete")
  /\ comments' = [comments EXCEPT ![c] = [comment[r].doc EXCEPT !.deleted = TRUE]]
  /\ EndComment(r)
  /\ UNCHANGED <<feed, notices>>

\* A database call fails or the process stops.
CommentStops(r) ==
  /\ ~Commenting(r, "none")
  /\ EndComment(r)
  /\ UNCHANGED <<comments, feed, notices, saves>>

CommentsNext ==
  \E r \in CommentRequests :
    \/ \E assignee \in Commenters \cup {Nobody}, author \in Commenters,
         mentions \in SUBSET Commenters : ReadForComment(r, assignee, author, mentions)
    \/ \E kind \in {"edit", "delete"}, c \in DOMAIN comments : FindComment(r, kind, c)
    \/ CreateComment(r) \/ EditComment(r) \/ DeleteComment(r) \/ CommentStops(r)

CommentsSpec == CommentsInit /\ [][CommentsNext]_commentVars

-----------------------------------------------------------------------------
CommentDocument == [author : Commenters \cup {Nobody}, text : Nat,
                    mentions : SUBSET Commenters, deleted : BOOLEAN]

CommentNotice == [comment : Nat, type : {"task_commented", "comment_mentioned"},
                  to : Commenters]
Commentary == [pc : {"none", "create", "edit", "delete"}, at : Nat, doc : CommentDocument,
               assignee : Commenters \cup {Nobody}, read : Nat]
CommentSave == [comment : Nat, kind : {"create", "edit", "delete"}, read : Nat]

\* Types of the documents, the outbox rows and the handlers.
CommentsTypeOK ==
  /\ comments \in Seq(CommentDocument)
  /\ feed \in SUBSET Nat
  /\ notices \in SUBSET CommentNotice
  /\ comment \in [CommentRequests -> Commentary]
  /\ saves \in Seq(CommentSave)

\* Save i of a comment was written over by one that had loaded it before.
WrittenOver(i) ==
  \E j \in DOMAIN saves :
    i < j /\ saves[j].comment = saves[i].comment /\ saves[j].read < i

\* A deletion and the last edit of a comment hold, unless a save that overlapped
\* them wrote over them: a later edit does not bring a deleted comment back. And
\* a comment is announced at most once to a user, never to its author.
CommentsExplained ==
  /\ \A i \in DOMAIN saves :
       /\ saves[i].kind = "delete" =>
            comments[saves[i].comment].deleted \/ WrittenOver(i)
       /\ saves[i].kind = "edit" =>
            \/ comments[saves[i].comment].text >= i
            \/ WrittenOver(i)
  /\ \A n, m \in notices : n.comment = m.comment /\ n.to = m.to => n = m
  /\ \A n \in notices : n.to # comments[n.comment].author
=============================================================================
