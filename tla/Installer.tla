----------------------------- MODULE Installer -----------------------------
(***************************************************************************)
(* The completion installer (src/core/src/completions), the command lines  *)
(* that call it (src/src/sacs/mod.rs) and its row of the Welcome screen    *)
(* (src/tui/src/app.rs), as operators on the files of one shell under one  *)
(* home directory.                                                         *)
(*                                                                         *)
(* A file is Missing, a script, a symbolic link, or an rc file: its text,  *)
(* and whether its name is itself a link into the user's dotfiles.  A text *)
(* is a sequence of tokens: the newline, the two markers, the name of a    *)
(* zsh framework, or a word.  Paths and quoting are left out: there is one *)
(* primary file, one alias beside it and one rc file.                      *)
(***************************************************************************)
EXTENDS Naturals, Sequences, FiniteSets, SequencesExt

CONSTANTS
  Frameworks   \* the zsh frameworks known, most popular first

NL == "newline"
BLOCK_START == "zz-drop SACS start"
BLOCK_END == "zz-drop SACS end"

Shells == {"bash", "zsh", "fish"}

Missing == [no |-> "file"]
Script(s) == [script |-> s]
LinkTo(name) == [to |-> name]
RcFile(linked, text) == [linked |-> linked, text |-> text]

\* A home: what the completion files of the shell hold, and of the machine
\* whether bash-completion is installed and whether symlinks can be made.
Home(primary, beside, rc, bash_completion, links) ==
  [primary |-> primary, beside |-> beside, rc |-> rc,
   bash_completion |-> bash_completion, links |-> links]

-----------------------------------------------------------------------------
(* The block in the rc file (rc_block.rs).                                 *)

\* read_or_empty.
Text(rc) == IF rc = Missing THEN <<>> ELSE rc.text

\* The first position of a token from position `from` on, 0 for none.
FirstFrom(text, tok, from) == SelectInSubSeq(text, from, Len(text), LAMBDA t : t = tok)

\* find_block: the first start marker, and the first end marker after it.
find_block(text) ==
  LET s == FirstFrom(text, BLOCK_START, 1)
      e == IF s = 0 THEN 0 ELSE FirstFrom(text, BLOCK_END, s + 1)
  IN [found |-> e # 0, first |-> s, last |-> e]

contains_block(rc) == find_block(Text(rc)).found

render_block(body) == <<BLOCK_START, NL>> \o body \o <<BLOCK_END, NL>>

NewlineAt(text, i) == i \in DOMAIN text /\ text[i] = NL

\* The separator before a new block: the last line is ended, a blank one added.
Opened(text) ==
  IF text = <<>> THEN text
  ELSE IF NewlineAt(text, Len(text)) THEN Append(text, NL) ELSE text \o <<NL, NL>>

\* atomic_write: the new text is staged and renamed over the name, which is no
\* link afterwards.
atomic_write(text) == RcFile(FALSE, text)

\* write_block: the file afterwards, and what was done.
write_block(rc, body) ==
  LET text == Text(rc)
      block == find_block(text)
      desired == render_block(body)
      kept == IF NewlineAt(text, block.last + 1) THEN Front(desired) ELSE desired
  IN IF ~block.found
     THEN [rc |-> atomic_write(Opened(text) \o desired), action |-> "inserted"]
     ELSE IF SubSeq(text, block.first, block.last) = Front(desired)
     THEN [rc |-> rc, action |-> "unchanged"]
     ELSE [rc |-> atomic_write(SubSeq(text, 1, block.first - 1) \o kept
                                 \o SubSeq(text, block.last + 1, Len(text))),
           action |-> "updated"]

\* remove_block takes the newline after the block and a blank line before it
\* along.
remove_block(rc) ==
  LET text == Text(rc)
      block == find_block(text)
      blank == /\ NewlineAt(text, block.first - 1)
               /\ block.first = 2 \/ NewlineAt(text, block.first - 2)
      before == IF blank THEN block.first - 2 ELSE block.first - 1
      after == IF NewlineAt(text, block.last + 1) THEN block.last + 2 ELSE block.last + 1
  IN IF ~block.found THEN rc
     ELSE atomic_write(SubSeq(text, 1, before) \o SubSeq(text, after, Len(text)))

-----------------------------------------------------------------------------
(* What goes into the block (framework.rs, mod.rs).                        *)

\* detect_zsh: the first framework of the list that the file mentions anywhere.
detect_zsh(rc) ==
  LET mentioned == SelectSeq(Frameworks, LAMBDA f : f \in ToSet(Text(rc)))
  IN IF mentioned = <<>> THEN "none" ELSE Head(mentioned)

\* bash_rc_update and zsh_rc_update, as the lines they put between the markers.
BlockBody(shell, framework) ==
  CASE shell = "bash" -> <<"source the script", NL>>
    [] shell = "zsh" /\ framework = "none" -> <<"extend fpath", NL, "compinit", NL>>
    [] OTHER -> <<framework, NL, "extend fpath", NL>>

NeedsRc(shell, home) == shell = "zsh" \/ (shell = "bash" /\ ~home.bash_completion)

RcUpdate(shell, home) ==
  IF NeedsRc(shell, home)
  THEN write_block(home.rc, BlockBody(shell, IF shell = "zsh" THEN detect_zsh(home.rc) ELSE "none"))
  ELSE [rc |-> home.rc, action |-> "not_needed"]

-----------------------------------------------------------------------------
(* Install, status and uninstall (mod.rs, paths.rs).                       *)

\* completion_aliases: zsh serves both names from one file.
HasAlias(shell) == shell \in {"bash", "fish"}

write_completion_file(file, script) ==
  CASE file = Missing -> "created"
    [] file = Script(script) -> "unchanged"
    [] OTHER -> "updated"

\* write_alias_file leaves the right link or the right copy alone and replaces
\* anything else, by a link where links can be made.
AliasIsRight(file, script) == file \in {LinkTo("primary"), Script(script)}

write_alias_file(home, script) ==
  IF AliasIsRight(home.beside, script) THEN home.beside
  ELSE IF home.links THEN LinkTo("primary") ELSE Script(script)

\* install: the script, the alias, the rc file, in this order.
AfterScript(home, script) == [home EXCEPT !.primary = Script(script)]
AfterAlias(shell, home, script) ==
  IF HasAlias(shell) THEN [home EXCEPT !.beside = write_alias_file(home, script)] ELSE home

install(shell, home, script) ==
  LET two == AfterAlias(shell, AfterScript(home, script), script)
      update == RcUpdate(shell, two)
  IN [home |-> [two EXCEPT !.rc = update.rc],
      completion_action |-> write_completion_file(home.primary, script),
      framework |-> IF shell = "zsh" THEN detect_zsh(home.rc) ELSE "none",
      rc_action |-> update.action]

\* A write that fails leaves the old file, or one cut short.
Torn(file) == {file, Script("cut")}

\* The homes an install that returns an error leaves: the script could not be
\* written, or the alias (already removed by then, if it was wrong), or the rc
\* file, which is only ever replaced whole.
FailedInstalls(shell, home, script) ==
  LET one == AfterScript(home, script)
  IN {[home EXCEPT !.primary = f] : f \in IF home.primary = Script(script) THEN {home.primary}
                                                               ELSE Torn(home.primary)}
     \cup (IF HasAlias(shell) /\ ~AliasIsRight(home.beside, script)
           THEN {[one EXCEPT !.beside = f] : f \in {home.beside} \cup Torn(Missing)} ELSE {})
     \cup (IF NeedsRc(shell, home) THEN {AfterAlias(shell, one, script)} ELSE {})

\* status looks at the script and the block, not at the alias.
status(shell, home) ==
  CASE home.primary = Missing -> "missing"
    [] NeedsRc(shell, home) /\ ~contains_block(home.rc) -> "needs_rc_block"
    [] OTHER -> "wired"

uninstall(shell, home) ==
  [home EXCEPT !.primary = Missing,
               !.beside = IF HasAlias(shell) THEN Missing ELSE @,
               !.rc = IF shell = "fish" THEN @ ELSE remove_block(@)]

\* The homes an uninstall that returns an error leaves: same order, no file is
\* cut short.
FailedUninstalls(shell, home) ==
  {home, [home EXCEPT !.primary = Missing], [uninstall(shell, home) EXCEPT !.rc = home.rc]}

-----------------------------------------------------------------------------
(* The command lines (src/src/sacs/mod.rs) and the Welcome row (app.rs).   *)

EXIT_OK == 0
EXIT_USAGE == 2
EXIT_COMPLETIONS_FAILED == 12

\* CompletionsTail while it is read; `value` says that --shell waits for its.
NewTail == [shell |-> "none", output |-> "text", uninstall |-> FALSE,
            value |-> FALSE, refused |-> FALSE]

TakeShell(t, word) ==
  [t EXCEPT !.shell = word, !.value = FALSE, !.refused = word \notin Shells]

TakeOutput(t, mode) == [t EXCEPT !.output = mode, !.refused = @ \/ t.output \notin {"text", mode}]

\* One turn of the loop of parse_completions_tail; the first error ends it.
ReadWord(t, word) ==
  CASE t.refused -> t
    [] ~t.refused /\ t.value -> TakeShell(t, word)
    [] ~t.refused /\ ~t.value ->
         CASE word = "--json" -> TakeOutput(t, "json")
           [] word = "--quiet" -> TakeOutput(t, "quiet")
           [] word = "--uninstall" -> [t EXCEPT !.uninstall = TRUE]
           [] word = "--shell" -> [t EXCEPT !.value = TRUE]
           [] word = "--other" -> [t EXCEPT !.refused = TRUE]
           [] OTHER -> IF t.shell # "none" THEN [t EXCEPT !.refused = TRUE]
                                           ELSE TakeShell(t, word)

parse_completions_tail(args) ==
  LET t == FoldLeft(ReadWord, NewTail, args)
  IN [t EXCEPT !.refused = @ \/ t.value]

\* The shell asked for, or the one $SHELL names ("none": unset or unknown).
ShellFor(t, env) == IF t.shell # "none" THEN t.shell ELSE env

Usable(t, env) == ~t.refused /\ ShellFor(t, env) # "none"

\* The exit codes --setup-completions may end with, and the home it leaves.
handle_setup_completions(args, env, home, script) ==
  LET t == parse_completions_tail(args)
      shell == ShellFor(t, env)
      Ends(code, homes) == {[code |-> code, home |-> h] : h \in homes}
  IN IF ~Usable(t, env) THEN Ends(EXIT_USAGE, {home})
     ELSE IF t.uninstall
     THEN Ends(EXIT_OK, {uninstall(shell, home)})
            \cup Ends(EXIT_COMPLETIONS_FAILED, FailedUninstalls(shell, home))
     ELSE Ends(EXIT_OK, {install(shell, home, script).home})
            \cup Ends(EXIT_COMPLETIONS_FAILED, FailedInstalls(shell, home, script))

\* --check-completions parses --uninstall as well and ignores it.
handle_check_completions(args, env, home) ==
  LET t == parse_completions_tail(args)
  IN IF ~Usable(t, env) THEN EXIT_USAGE
     ELSE IF status(ShellFor(t, env), home) = "wired" THEN EXIT_OK
     ELSE EXIT_COMPLETIONS_FAILED

\* handle_completions prints the script of one named shell, not of a path.
handle_completions(args) ==
  IF Len(args) = 1 /\ args[1] \in Shells THEN EXIT_OK ELSE EXIT_USAGE

\* refresh_welcome_completions_status and run_setup_completions: the row shows
\* the status, whatever became of the install.
welcome_completions_status(env, home) == IF env = "none" THEN "unknown" ELSE status(env, home)

run_setup_completions(env, home, script) ==
  IF env = "none" THEN {[home |-> home, shown |-> "unknown"]}
  ELSE {[home |-> h, shown |-> welcome_completions_status(env, h)] :
          h \in {install(env, home, script).home} \cup FailedInstalls(env, home, script)}
=============================================================================
