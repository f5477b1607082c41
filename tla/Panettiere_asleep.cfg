CONSTANT Handlers = {h1}
SPECIFICATION Spec
PROPERTY AsleepMakesNoDough
