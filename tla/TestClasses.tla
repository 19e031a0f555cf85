---------------------------- MODULE TestClasses ----------------------------
(***************************************************************************)
(* The attributes of a test class (AntaTest.__init_subclass__,             *)
(* anta/models.py).                                                        *)
(*                                                                         *)
(* A class statement is a record [class, parent, module, name,             *)
(* description, doc, categories, commands], None for what it does not set; *)
(* the parent None is AntaTest.                                            *)
(***************************************************************************)
CONSTANTS
    Statements, \* classes -> their statements
    None        \* Python's None, also an attribute that is not set

RECURSIVE Attribute(_, _)
\* Python finds an attribute in the class or in those it inherits from.
Attribute(c, attribute) ==
    LET s == Statements[c] IN
    IF s[attribute] # None THEN s[attribute]
    ELSE IF s.parent # None THEN Attribute(s.parent, attribute) ELSE None

RECURSIVE ClassName(_)
\* `getattr(cls, "name", cls.__name__)`: a parent has its name by then.
ClassName(c) ==
    LET s == Statements[c] IN
    IF s.name # None THEN s.name ELSE IF s.parent # None THEN ClassName(s.parent) ELSE s.class

RECURSIVE DescriptionOf(_)
\* The docstring is read only when nothing is inherited, and is never inherited itself.
DescriptionOf(c) ==
    LET s == Statements[c] IN
    IF s.description # None THEN s.description
    ELSE IF s.parent # None THEN DescriptionOf(s.parent) ELSE s.doc

\* The class statement passes; otherwise it is an AttributeError, in the parent first.
IsTestClass(c) ==
    /\ Attribute(c, "categories") # None
    /\ Attribute(c, "commands") # None
    /\ DescriptionOf(c) # None
=============================================================================
