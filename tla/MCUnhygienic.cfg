SPECIFICATION Spec
CONSTANTS
    Programs <- UnhygienicPrograms
    Patterns = {}
    Forms = {}
INVARIANT Hygienic
