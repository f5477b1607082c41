CONSTANT Handlers = {h1, h2}
SPECIFICATION Spec
PROPERTY WorkPriority
