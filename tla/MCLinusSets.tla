---------------------------- MODULE MCLinusSets ----------------------------
(***************************************************************************)
(* Commits for LinusSets.  In MCCommits a chain leads from Linus over two  *)
(* projects to two users.  One more commit is by a user who is in no row   *)
(* of the users' frame, and two are to a project that is in no row of the  *)
(* projects' frame and would lead to one more user.                        *)
(***************************************************************************)
EXTENDS LinusSets

Ann == 1
Bob == 2
Carol == 3
Stranger == NumUsers
NoProject == NumProjects

Commit(p, u) == [pid |-> p, uid |-> u]
MCCommits == {Commit(0, Linus), Commit(0, Ann), Commit(1, Ann), Commit(1, Bob),
              Commit(0, Stranger), Commit(NoProject, Ann), Commit(NoProject, Carol)}

=============================================================================
