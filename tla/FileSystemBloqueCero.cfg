CONSTANTS
  Archivos = {Consoles, Videogames}
  cant_bloques = 8
  tamanio_bloque = 8
  Tamanios <- Enteros
  MaxTruncados = 4
  MaxCaidas = 0
SPECIFICATION Spec
CONSTRAINT UnoPorVez
INVARIANT BloqueCeroConDuenio
CHECK_DEADLOCK FALSE
