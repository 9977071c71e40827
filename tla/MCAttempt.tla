------------------------------ MODULE MCAttempt -------------------------------
(* Two tasks: one with an expected agent, a forbidden method, a file and a  *)
(* judge; one with a scheduled turn and a script.  Their ids are sanitized   *)
(* to the same name.                                                       *)
EXTENDS Attempt

CONSTANTS coder, chat, llm, fallback

Check1(type) == [type |-> type, min |-> 0]

MCSuite == <<
  [id |-> 1, slug |-> 1,
   checks |-> <<Check1("exact_file"), Check1("llm_judge")>>, expectAgent |-> coder,
   forbidden |-> {fallback}, turns |-> 0],
  [id |-> 2, slug |-> 1,
   checks |-> <<Check1("exit_zero")>>, expectAgent |-> Blank,
   forbidden |-> {}, turns |-> 1] >>

MCSelections == << <<1, 2>>, <<1>> >>

Call(tool, direct, tells, misread) ==
  [tool |-> tool, direct |-> direct, tells |-> tells, misread |-> misread]

MCWorks == {
  <<Call("file_write", TRUE, FALSE, FALSE), Call("file_write", FALSE, FALSE, FALSE)>>,
  <<Call("file_edit", FALSE, TRUE, FALSE), Call("file_write", FALSE, FALSE, FALSE),
    Call("file_write", FALSE, TRUE, FALSE)>>,
  <<Call("file_write", FALSE, TRUE, TRUE), Call("file_write", FALSE, FALSE, TRUE)>>,
  <<Call("file_edit", FALSE, FALSE, FALSE), Call("file_write", TRUE, FALSE, TRUE)>> }

MCScores == {<<9, 9>>, <<5, 9>>, <<5, 8>>, <<9, JudgeErr>>}
=============================================================================
