------------------------------- MODULE Board -------------------------------
(***************************************************************************)
(* The message board of demos/board_rbac: a host with roles of its own on  *)
(* top of the sessions of the core, posts with comments, and permissions   *)
(* that depend on who wrote a row.                                         *)
(*                                                                         *)
(* A handler verifies its session, reads the row and decides, and writes;  *)
(* one action is one call of a store, which holds its lock or is one SQL   *)
(* statement.  Ids are random and never drawn twice, but the ids of seed   *)
(* rows are fixed, and every start of the process writes the missing ones  *)
(* again.  Both stores are files that survive the process.                 *)
(***************************************************************************)
EXTENDS Naturals, Sequences

CONSTANTS
  User, Post, Comment, Proc,
  SeedPost, SeedComment,   \* the ids the seed writes
  SeedAuthor,              \* who wrote them
  AdminPost,               \* the seed post that carries the seed comments
  BoardRoles,              \* the board role of a seeded user, or None
  AuthRoles,               \* the roles of the core that users may have
  None                     \* sentinel

SeedAssumption ==
  /\ SeedPost \subseteq Post /\ SeedComment \subseteq Comment
  /\ SeedPost # {} => AdminPost \in SeedPost
  /\ SeedComment # {} => SeedPost # {}
  /\ SeedAuthor \in [SeedPost \cup SeedComment -> User]
  /\ None \notin User \cup Post \cup Comment

VARIABLES
  posts,      \* who wrote a post, and who wrote its text; or None
  comments,   \* the same of a comment, and its post; or None
  drawn,      \* history: the ids that were ever written
  h           \* what each handler is at, and its locals

vars == <<posts, comments, drawn, h>>

Role == {BoardRoles[u] : u \in User} \cup AuthRoles
Op == {"create_post", "update_post", "delete_post",
       "create_comment", "update_comment", "delete_comment"}
Row == [author : User, by : User]
CommentRow == [post : Post, author : User, by : User]
SentinelAssumption == None \notin Row \cup CommentRow

Idle == [pc |-> "idle", op |-> None, user |-> None, role |-> None,
         item |-> None, author |-> None]

-----------------------------------------------------------------------------
(* Permissions *)

ReadOnly == {<<"board", "read">>}
UserLevel == ReadOnly \cup {<<"post", "create">>, <<"comment", "create">>}
AuthorLevel == UserLevel \cup ({"post", "comment"} \X {"update", "delete"} \X {"own"})
ModeratorLevel ==
  ReadOnly \cup ({"post", "comment"} \X {"update", "delete"} \X {"any"})
           \cup {<<"comment", "create">>}
RolePermissions ==
  [owner |-> {<<"*">>}, admin |-> {<<"*">>}, moderator |-> ModeratorLevel,
   author |-> AuthorLevel, user |-> UserLevel, viewer |-> ReadOnly]

PermissionMatches(granted, required) ==
  \/ granted = <<"*">> \/ granted = required
  \/ /\ Len(granted) = Len(required) /\ Len(granted) >= 2
     /\ granted[1] \in {"*", required[1]} /\ granted[2] \in {"*", required[2]}
     /\ Len(required) > 2 =>
          granted[3] = required[3] \/ (granted[3] = "any" /\ required[3] = "own")

Allows(r, required) ==
  \E granted \in IF r \in DOMAIN RolePermissions THEN RolePermissions[r] ELSE {} :
    PermissionMatches(granted, required)

MayManage(r, u, author, what, verb) ==
  \/ u = author /\ Allows(r, <<what, verb, "own">>)
  \/ Allows(r, <<what, verb, "any">>)

-----------------------------------------------------------------------------
(* Start of the process *)

\* A seed row that is there keeps its author and gets its text again.
UpsertPosts(p) ==
  [i \in Post |->
     IF i \notin SeedPost THEN p[i]
     ELSE IF p[i] = None THEN [author |-> SeedAuthor[i], by |-> SeedAuthor[i]]
     ELSE [p[i] EXCEPT !.by = SeedAuthor[i]]]
UpsertComments(c) ==
  [i \in Comment |->
     IF i \notin SeedComment THEN c[i]
     ELSE IF c[i] = None
     THEN [post |-> AdminPost, author |-> SeedAuthor[i], by |-> SeedAuthor[i]]
     ELSE [c[i] EXCEPT !.by = SeedAuthor[i]]]

Init ==
  /\ posts = UpsertPosts([i \in Post |-> None])
  /\ comments = UpsertComments([i \in Comment |-> None])
  /\ drawn = SeedPost \cup SeedComment
  /\ h = [p \in Proc |-> Idle]

\* The process dies and starts again, and seed_demo_board runs.
Restart ==
  /\ posts' = UpsertPosts(posts)
  /\ comments' = UpsertComments(comments)
  /\ h' = [p \in Proc |-> Idle]
  /\ UNCHANGED drawn

-----------------------------------------------------------------------------
(* Requests *)

Done(p) == h' = [h EXCEPT ![p] = Idle]

\* The board role is the one in the table that the start of the process left; a user
\* who is not in it has the role of his session, which the core changes at any time.
RoleOf(u) == IF BoardRoles[u] # None THEN {BoardRoles[u]} ELSE AuthRoles

Target(op) ==
  CASE op = "create_post" -> {None}
    [] op \in {"update_post", "delete_post", "create_comment"} -> Post
    [] OTHER -> Comment

\* require_actor: the session is verified, so its user is active now.
RequireActor(p, u, op) ==
  /\ h[p].pc = "idle"
  /\ \E i \in Target(op), r \in RoleOf(u) :
       h' = [h EXCEPT ![p] = [pc |-> "read", op |-> op, user |-> u, role |-> r,
                              item |-> i, author |-> None]]
  /\ UNCHANGED <<posts, comments, drawn>>

\* The row the service reads before it decides.
AuthorOf(p) ==
  CASE h[p].op = "create_post" -> h[p].user
    [] h[p].op \in {"update_post", "delete_post", "create_comment"} -> 
         IF posts[h[p].item] = None THEN None ELSE posts[h[p].item].author
    [] OTHER -> IF comments[h[p].item] = None THEN None ELSE comments[h[p].item].author

Authorized(p) ==
  CASE h[p].op = "create_post" -> Allows(h[p].role, <<"post", "create">>)
    [] h[p].op = "create_comment" -> Allows(h[p].role, <<"comment", "create">>)
    [] h[p].op = "update_post" -> MayManage(h[p].role, h[p].user, AuthorOf(p), "post", "update")
    [] h[p].op = "delete_post" -> MayManage(h[p].role, h[p].user, AuthorOf(p), "post", "delete")
    [] h[p].op = "update_comment" ->
         MayManage(h[p].role, h[p].user, AuthorOf(p), "comment", "update")
    [] OTHER -> MayManage(h[p].role, h[p].user, AuthorOf(p), "comment", "delete")

\* The permission and the existence are checked, in the order of the operation.
Authorize(p) ==
  /\ h[p].pc = "read"
  /\ IF AuthorOf(p) # None /\ Authorized(p)
     THEN h' = [h EXCEPT ![p].pc = "write", ![p].author = AuthorOf(p)]
     ELSE Done(p)
  /\ UNCHANGED <<posts, comments, drawn>>

CreatePost(p, i) ==
  /\ h[p].pc = "write" /\ h[p].op = "create_post" /\ i \notin drawn
  /\ posts' = [posts EXCEPT ![i] = [author |-> h[p].user, by |-> h[p].user]]
  /\ drawn' = drawn \cup {i}
  /\ Done(p)
  /\ UNCHANGED comments

\* Faulty variant (for DeletedStaysDeleted): the row read is written whatever exists now.
PutPost(p) ==
  /\ h[p].pc = "write" /\ h[p].op = "update_post"
  /\ posts' = [posts EXCEPT ![h[p].item] = [author |-> h[p].author, by |-> h[p].user]]
  /\ Done(p)
  /\ UNCHANGED <<comments, drawn>>

\* The text changes, and never the author; a post that is gone is not written.
UpdatePost(p) ==
  /\ h[p].pc = "write" /\ h[p].op = "update_post"
  /\ posts' = IF posts[h[p].item] = None \/ posts[h[p].item].author # h[p].author THEN posts
              ELSE [posts EXCEPT ![h[p].item].by = h[p].user]
  /\ Done(p)
  /\ UNCHANGED <<comments, drawn>>

\* The comments of a post go with it.
DeletePost(p) ==
  /\ h[p].pc = "write" /\ h[p].op = "delete_post"
  /\ posts' = [posts EXCEPT ![h[p].item] = None]
  /\ comments' = [c \in Comment |->
       IF posts[h[p].item] # None /\ comments[c] # None /\ comments[c].post = h[p].item
       THEN None ELSE comments[c]]
  /\ Done(p)
  /\ UNCHANGED drawn

\* The store looks for the post again.
CreateComment(p, c) ==
  /\ h[p].pc = "write" /\ h[p].op = "create_comment" /\ c \notin drawn
  /\ IF posts[h[p].item] # None
     THEN /\ comments' = [comments EXCEPT ![c] = [post |-> h[p].item, author |-> h[p].user, by |-> h[p].user]]
          /\ drawn' = drawn \cup {c}
     ELSE UNCHANGED <<comments, drawn>>
  /\ Done(p)
  /\ UNCHANGED posts

UpdateComment(p) ==
  /\ h[p].pc = "write" /\ h[p].op = "update_comment"
  /\ comments' = IF comments[h[p].item] = None \/ comments[h[p].item].author # h[p].author
                 THEN comments ELSE [comments EXCEPT ![h[p].item].by = h[p].user]
  /\ Done(p)
  /\ UNCHANGED <<posts, drawn>>

DeleteComment(p) ==
  /\ h[p].pc = "write" /\ h[p].op = "delete_comment"
  /\ comments' = [comments EXCEPT ![h[p].item] = None]
  /\ Done(p)
  /\ UNCHANGED <<posts, drawn>>

Write(p) ==
  \/ (\E i \in Post : CreatePost(p, i)) \/ UpdatePost(p) \/ DeletePost(p)
  \/ (\E c \in Comment : CreateComment(p, c)) \/ UpdateComment(p) \/ DeleteComment(p)

Next ==
  \/ \E p \in Proc :
       \/ \E u \in User, op \in Op : RequireActor(p, u, op)
       \/ Authorize(p)
       \/ Write(p)
  \/ Restart

Spec == Init /\ [][Next]_vars

-----------------------------------------------------------------------------
(* Properties *)

\* The tables and the locals of the handlers have their types.
TypeOK ==
  /\ posts \in [Post -> Row \cup {None}]
  /\ comments \in [Comment -> CommentRow \cup {None}]
  /\ drawn \subseteq Post \cup Comment
  /\ h \in [Proc -> [pc : {"idle", "read", "write"}, op : Op \cup {None},
                     user : User \cup {None}, role : Role \cup {None},
                     item : Post \cup Comment \cup {None}, author : User \cup {None}]]

\* No comment outlives its post, although create_comment looks for the post before it
\* writes and the post can be deleted, and even seeded again, in between.
CommentsHavePosts ==
  \A c \in Comment : comments[c] # None => posts[comments[c].post] # None

\* An edit that was decided on before a deletion does not bring the row back: only
\* the seed does, at a start of the process.
DeletedStaysDeleted ==
  [][/\ \A i \in drawn \cap Post : posts[i] = None /\ posts'[i] # None => Restart
     /\ \A c \in drawn \cap Comment : comments[c] = None /\ comments'[c] # None => Restart]_vars

\* Whatever a handler read before, a row is edited or removed only by one who may
\* do it to the row as it is now: its author, one who may do it to any, or, for a
\* comment that is removed, one who removes its post.
ChangesAuthorised ==
  [][Restart \/
     /\ \A i \in Post : posts[i] # None /\ posts'[i] # posts[i] =>
          \E p \in Proc : MayManage(h[p].role, h[p].user, posts[i].author, "post",
                            IF posts'[i] = None THEN "delete" ELSE "update")
     /\ \A c \in Comment : comments[c] # None /\ comments'[c] # comments[c] =>
          \/ comments'[c] = None /\ posts'[comments[c].post] = None
          \/ \E p \in Proc : MayManage(h[p].role, h[p].user, comments[c].author, "comment",
                               IF comments'[c] = None THEN "delete" ELSE "update")]_vars
=============================================================================
