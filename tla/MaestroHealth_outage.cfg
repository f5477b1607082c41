SPECIFICATION Spec
INVARIANT DownIsNotServing
