--------------------------- MODULE MCSetupWizard ---------------------------
(***************************************************************************)
(* SetupWizard for TLC, and the checks of Installer, whose operators the   *)
(* Welcome screen of the walk calls: on rc files with and without the      *)
(* user's own lines, a block, an older block, several blocks, a missing    *)
(* final newline and stray markers; on homes where an earlier install was  *)
(* interrupted at each step.                                               *)
(***************************************************************************)
EXTENDS SetupWizard, Installer

-----------------------------------------------------------------------------
(* The homes.                                                              *)

TheFrameworks == <<"oh-my-zsh", "zinit">>

Old == "old script"
New == "new script"

Blocks == {render_block(BlockBody("zsh", "none")), render_block(BlockBody("zsh", "zinit")),
           render_block(<<"older lines", NL>>)}

Lines == {<<>>, <<NL>>, <<"alias", NL>>, <<"zinit", NL>>, <<"zinit", NL, "oh-my-zsh", NL>>}
Endings == {<<>>, <<"alias">>, <<NL, "alias", NL>>, <<BLOCK_END, NL>>}

Texts == {before \o after : before \in Lines, after \in Endings}
           \cup {before \o block \o after : before \in Lines, block \in Blocks, after \in Endings}
           \cup {b1 \o b2 : b1, b2 \in Blocks}

RcFiles == {Missing} \cup {RcFile(FALSE, t) : t \in Texts} \cup {RcFile(TRUE, <<"alias", NL>>)}

Primaries == {Missing, Script(Old), Script(New), Script("cut")}
Besides == Primaries \cup {LinkTo("primary"), LinkTo("elsewhere")}

\* Every rc file with one home, and every home with one rc file.
Homes ==
  {Home(Missing, Missing, rc, FALSE, TRUE) : rc \in RcFiles}
    \cup {Home(p, b, RcFile(FALSE, <<"alias", NL>>), bc, ln) :
            p \in Primaries, b \in Besides, bc, ln \in BOOLEAN}

\* What the shell loads under the second name.
ServedBeside(shell, home) ==
  IF HasAlias(shell) /\ home.beside # LinkTo("primary") THEN home.beside ELSE home.primary

-----------------------------------------------------------------------------
(* What they promise.                                                      *)

\* After an install the status is wired, both command names load the script
\* just written, and installing again changes nothing ("Idempotent", mod.rs).
ASSUME InstallSettles ==
  \A shell \in Shells, home \in Homes :
    LET done == install(shell, home, New)
        again == install(shell, done.home, New)
    IN /\ status(shell, done.home) = "wired"
       /\ done.home.primary = Script(New)
       /\ ServedBeside(shell, done.home) = Script(New)
       /\ again.home = done.home
       /\ again.completion_action = "unchanged"
       /\ again.rc_action \in {"unchanged", "not_needed"}

\* The text before and after the first block.
TextBefore(text) == SubSeq(text, 1, find_block(text).first - 1)
TextAfter(text) == SubSeq(text, find_block(text).last + 1, Len(text))

\* "Outside, the file is left exactly as it was" (rc_block.rs): an install
\* changes nothing but its block and the separator it puts before it, and a
\* file that had no block gets back what it held when the block is removed,
\* but for a missing final newline.
ASSUME RcFileKept ==
  \A shell \in {"bash", "zsh"}, home \in Homes :
    LET text == Text(home.rc)
        new == Text(install(shell, home, New).home.rc)
        gone == Text(uninstall(shell, install(shell, home, New).home).rc)
    IN NeedsRc(shell, home) =>
         IF contains_block(home.rc)
         THEN TextBefore(new) = TextBefore(text) /\ TextAfter(new) = TextAfter(text)
         ELSE /\ IsPrefix(text, new)
              /\ gone \in {text, Append(text, NL)}

\* An interrupted install is repaired by the next one: it ends where an install
\* that never failed ends.
ASSUME RetryHeals ==
  \A shell \in Shells, home \in Homes :
    \A failed \in FailedInstalls(shell, home, New) :
      install(shell, failed, New).home = install(shell, home, New).home

ArgWords == Shells \cup {"--json", "--quiet", "--uninstall", "--shell", "--other", "ksh"}
ArgLists == UNION {[1 .. n -> ArgWords] : n \in 0 .. 3}
FewHomes == {Home(Missing, Missing, Missing, FALSE, TRUE),
             Home(Script(New), LinkTo("primary"), RcFile(FALSE, <<"alias", NL>>), FALSE, TRUE)}

\* A refused command line changes no file; one that reports success has done
\* what it was asked for: the check of the same shell then succeeds after an
\* install and fails after an uninstall.
ASSUME CheckAgrees ==
  \A args \in ArgLists, env \in {"none", "fish"}, home \in FewHomes :
    \A end \in handle_setup_completions(args, env, home, New) :
      LET check == handle_check_completions(args, env, end.home)
      IN /\ end.code = EXIT_USAGE => end.home = home /\ check = EXIT_USAGE
         /\ end.code = EXIT_OK =>
              check = IF parse_completions_tail(args).uninstall
                      THEN EXIT_COMPLETIONS_FAILED ELSE EXIT_OK
=============================================================================
